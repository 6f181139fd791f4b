------------------------------ MODULE WorkOrders ------------------------------
(***************************************************************************)
(* The complaint engine: complaints, the jobs (work orders) raised on      *)
(* them, the offers and bookings of staff on those jobs, and the dispatch  *)
(* timers that act when nobody does.  Every action is one SQL function of  *)
(* src/backend/supabase/migrations (the last definition of it), which runs *)
(* as one transaction that locks the rows it decides on, together with the *)
(* triggers its writes set off.  Two functions lock nothing: the resident's *)
(* confirmation and reopening read the complaint in one statement and      *)
(* write it, whatever it has become, in a later one; each is two actions.  *)
(*                                                                         *)
(* Abstractions.  Times are opaque slots with an overlap relation; a timer *)
(* is armed or not, and an armed timer may fire at any moment (the clock,  *)
(* the lease and the dispatcher processes are module DispatchQueue).       *)
(* Priorities are high or not.  Leave, weekly hours, skills and departures *)
(* are one nondeterministic set of members the candidate query leaves out. *)
(* There is one department, and every job has a supervisor to be told.     *)
(***************************************************************************)
EXTENDS Naturals, FiniteSets

CONSTANTS
    Complaints,      \* complaint ids
    Orders,          \* work-order ids, in the order they are handed out
    ComplaintOf,     \* the complaint an order id is raised on
    Members,         \* roster rows of rank member
    Leads,           \* roster rows of rank supervisor or manager
    Slots,           \* visit times
    NoSlot,          \* a null scheduled_start_at
    Overlaps,        \* the pairs of slots whose time ranges intersect
    RaiseSlots,      \* input: the times a raise may carry (NoSlot included)
    RescheduleSlots, \* input: the times a job may be moved to
    HandStatuses,    \* input: the statuses the office may set by hand
    Kinds,           \* input: the subjects a job may be raised for
    Highs,           \* input: the priorities that are chosen, high or not
    Aways,           \* input: the sets of members who may be unavailable
    OfferRound,      \* bound: how many candidates one ping offers to
    MayRetire,       \* whether a timer may fail five times and retire
    MaxOvertaken     \* bound: the kinds of calls that may be between a read
                     \* they took no lock for and their write, at a time

Staff == Members \union Leads

ASSUME IdsAssumption ==
    /\ Orders \subseteq Nat
    /\ ComplaintOf \in [Orders -> Complaints]
ASSUME SlotsAssumption ==
    /\ NoSlot \notin Slots \union Staff
    /\ RaiseSlots \subseteq Slots \union {NoSlot}
    /\ RescheduleSlots \subseteq Slots
ASSUME OverlapsAssumption ==
    /\ Overlaps \subseteq Slots \X Slots
    /\ \A s \in Slots : <<s, s>> \in Overlaps
    /\ \A s, t \in Slots : <<s, t>> \in Overlaps => <<t, s>> \in Overlaps
ASSUME BoundsAssumption ==
    /\ OfferRound \in Nat \ {0}
    /\ MayRetire \in BOOLEAN
    /\ MaxOvertaken \in Nat

ComplaintStatus ==
    {"open", "acknowledged", "in_progress", "resolved", "closed", "cancelled"}
OrderKind  == {"resident", "facility"}
Live       == {"draft", "awaiting_resident", "offered", "scheduled", "in_progress"}
OrderStatus == Live \union {"completed", "cancelled", "failed"}
RowStatus  ==
    {"offered", "accepted", "declined", "withdrawn", "completed", "failed"}
OrderTimer ==
    {"auto_assign", "resident_timeout", "failed_visit_escalation",
     "manual_window", "facility_auto_assign"}
ComplaintTimer == {"auto_close_warning", "auto_close"}
UnlockedVerb == {"confirm", "reopen"}

ASSUME InputsAssumption ==
    /\ HandStatuses \subseteq ComplaintStatus
    /\ Kinds \subseteq OrderKind
    /\ Highs \subseteq BOOLEAN
    /\ Aways \subseteq SUBSET Members

VARIABLES
    complaint,  \* complaint id -> its row
    order,      \* order id -> its work_orders row
    asg,        \* order id -> staff -> the latest assignment row of the pair
    refused,    \* pairs <<order, staff>> with a declined assignment row
    timers,     \* pairs <<order, kind>> with an open dispatch_tasks row
    ctimers,    \* pairs <<complaint, kind>> with an open dispatch_tasks row
    underway,   \* pairs <<complaint, verb>>: a call that has read the complaint
                \* and found that it may be confirmed or reopened, and has yet
                \* to write it (or never will, its transaction being rolled back)
    alerted     \* history: orders whose staff have been told that nobody could
                \* be found, since the order last became offered

vars == <<complaint, order, asg, refused, timers, ctimers, underway, alerted>>

NoRow   == [st |-> "none", slot |-> NoSlot]
Row(st, slot) == [st |-> st, slot |-> slot]

Init ==
    /\ complaint = [c \in Complaints |->
           [status |-> "none", high |-> FALSE, reopened |-> FALSE,
            returned |-> FALSE, takenUp |-> FALSE]]
    /\ order = [o \in Orders |->
           [status |-> "none", kind |-> "resident", slot |-> NoSlot,
            high |-> FALSE, byResident |-> FALSE]]
    /\ asg = [o \in Orders |-> [w \in Staff |-> NoRow]]
    /\ refused = {}
    /\ timers = {}
    /\ ctimers = {}
    /\ underway = {}
    /\ alerted = {}

-------------------------------------------------------------------------------
(* What the functions read.                                                *)

JobsOf(c)   == {o \in Orders : ComplaintOf[o] = c}
LiveJobs(c) == {o \in JobsOf(c) : order[o].status \in Live}
Holding(o, sts) == {w \in Staff : asg[o][w].st \in sts}

\* Mutant of Booked: reads the time of the job instead of the row's.
BookedByJob(w, slot, o) ==
    \E p \in Orders \ {o} :
        asg[p][w].st = "accepted" /\ <<order[p].slot, slot>> \in Overlaps

\* The worker has an accepted job at an overlapping time, other than job o.
Booked(w, slot, o) ==
    \E p \in Orders \ {o} :
        asg[p][w].st = "accepted" /\ <<asg[p][w].slot, slot>> \in Overlaps

\* The overlap test of the three supervisor verbs, which lacks the "is not
\* null" guard of the others: the range of two nulls is unbounded, so an
\* accepted job without a time blocks every time.
Blocked(w, slot, o) ==
    \E p \in Orders \ {o} :
        /\ asg[p][w].st = "accepted"
        /\ asg[p][w].slot = NoSlot \/ <<asg[p][w].slot, slot>> \in Overlaps

\* Mutant of Candidates: decliners are asked again.
AskDecliners(o, slot, away, no) ==
    IF slot = NoSlot THEN {} ELSE {w \in Members \ away : ~Booked(w, slot, o)}

\* dispatch_candidates_at: the members who could take job o at this time;
\* `away` stands for leave, weekly hours, skills and departures, `no` for the
\* declined rows it is told to respect.
Candidates(o, slot, away, no) ==
    IF slot = NoSlot THEN {}
    ELSE {w \in Members \ away : ~Booked(w, slot, o) /\ <<o, w>> \notin no}

\* complaint_excluded_staff, given the declined rows.
Excluded(c, no) ==
    {w \in Staff : \E o \in JobsOf(c) :
        \/ <<o, w>> \in no
        \/ /\ order[o].status = "cancelled" /\ order[o].byResident
           /\ asg[o][w].st \in {"accepted", "withdrawn"}
        \/ /\ complaint[c].reopened /\ order[o].status = "completed"
           /\ asg[o][w].st \in {"accepted", "completed"}}

-------------------------------------------------------------------------------
(* What the functions write, and the triggers those writes set off.        *)

\* close_dispatch_tasks(o, null)
Closed(o) == {t \in timers : t[1] # o}

\* The job becomes offered, or changes its time while it is.
NewlyOffered(o, new) ==
    /\ new.status = "offered"
    /\ order[o].status # "offered" \/ order[o].slot # new.slot

Timer(when, o, kind) == IF when THEN {<<o, kind>>} ELSE {}

\* Mutants of the next three: no deadline for a job raised as awaiting its
\* resident; no window once the resident has confirmed; no escalation of a
\* visit that was never started.
DeadlineOnUpdate(o, new) ==
    Timer(new.status = "awaiting_resident" /\ order[o].status # "none",
          o, "resident_timeout")
WindowUnlessConfirmed(o, new) ==
    Timer(NewlyOffered(o, new) /\ order[o].status # "awaiting_resident",
          o, "manual_window")
EscalationOfStarted(o, new) ==
    Timer(new.status = "failed" /\ order[o].status = "in_progress",
          o, "failed_visit_escalation")

\* sync_dispatch_tasks, the timers it arms when row o becomes `new`.  Every
\* caller that leaves a job awaiting the resident renews its deadline.
Deadline(o, new) == Timer(new.status = "awaiting_resident", o, "resident_timeout")
Window(o, new) == Timer(NewlyOffered(o, new), o, "manual_window")
Escalation(o, new) == Timer(new.status = "failed", o, "failed_visit_escalation")
Armed(o, new) ==
    Deadline(o, new) \union Window(o, new) \union Escalation(o, new)
        \union Timer(/\ new.status = "draft" /\ order[o].status = "none"
                     /\ new.kind = "facility", o, "facility_auto_assign")

\* Mutant of Kept: booking a job leaves its timers armed.
KeptWhenBooked(o, new) ==
    IF new.status = "scheduled" THEN timers
    ELSE IF NewlyOffered(o, new) THEN timers \ {<<o, "resident_timeout">>}
    ELSE IF new.status \in {order[o].status, "awaiting_resident"} THEN timers
    ELSE Closed(o)

\* sync_dispatch_tasks, the timers it leaves armed.
Kept(o, new) ==
    CASE NewlyOffered(o, new) -> timers \ {<<o, "resident_timeout">>}
      [] new.status \in {order[o].status, "awaiting_resident"} -> timers
      [] OTHER -> Closed(o)

Synced(o, new) == Kept(o, new) \union Armed(o, new)

\* The history of alerts starts afresh when a job becomes offered.
Unalerted(o, new) ==
    IF NewlyOffered(o, new) THEN alerted \ {o} ELSE alerted

SetOrder(o, new) == order' = [order EXCEPT ![o] = new]

\* Mutants of Withdraw: the wrong word, or accepted rows left standing.
WithdrawAsCancelled(rows, sts) ==
    [w \in Staff |-> IF rows[w].st \in sts THEN Row("cancelled", NoSlot)
                     ELSE rows[w]]
WithdrawOffers(rows, sts) ==
    [w \in Staff |-> IF rows[w].st = "offered" THEN Row("withdrawn", NoSlot)
                     ELSE rows[w]]

Withdraw(rows, sts) ==
    [w \in Staff |-> IF rows[w].st \in sts THEN Row("withdrawn", NoSlot)
                     ELSE rows[w]]

\* Mutant of Acknowledged: the projection forgets that it only moves forward.
AcknowledgedAnyhow(c) == [complaint EXCEPT ![c].status = "acknowledged"]

\* project_complaint_from_jobs, on the insert of an offered or accepted row.
Acknowledged(c) ==
    [complaint EXCEPT ![c].status = IF @ = "open" THEN "acknowledged" ELSE @]

\* Mutant of SetComplaint: the closing timers are armed once only.
SetComplaintArmOnce(c, new) ==
    /\ complaint' = [complaint EXCEPT ![c] = new]
    /\ ctimers' = IF new.status = "resolved" /\ ~complaint[c].reopened
                  THEN ctimers \union ({c} \X ComplaintTimer) ELSE ctimers

\* An update of a complaints row, with the complaints_on_resolved trigger.
SetComplaint(c, new) ==
    /\ complaint' = [complaint EXCEPT ![c] = new]
    /\ ctimers' = IF new.status = "resolved" /\ complaint[c].status # "resolved"
                  THEN ctimers \union ({c} \X ComplaintTimer) ELSE ctimers

\* What every booking ends with: rows with a status in `ended` are withdrawn,
\* an accepted row is inserted, and the job becomes scheduled at that time.
Book(o, w, slot, ended) ==
    LET new == [order[o] EXCEPT !.status = "scheduled", !.slot = slot]
    IN  /\ asg' = [asg EXCEPT ![o] =
                      [Withdraw(@, ended) EXCEPT ![w] = Row("accepted", slot)]]
        /\ SetOrder(o, new)
        /\ timers' = Synced(o, new)
        /\ complaint' = Acknowledged(ComplaintOf[o])

-------------------------------------------------------------------------------
(* The supervisor's verbs on a job.                                        *)

\* Mutant of MayRaise: a second job beside a live one.
MayRaiseBesideLive(c) ==
    complaint[c].status \in {"open", "acknowledged", "in_progress"}

\* A job is refused on an ended complaint (the insert trigger) and while
\* another is live.
MayRaise(c) ==
    /\ complaint[c].status \in {"open", "acknowledged", "in_progress"}
    /\ LiveJobs(c) = {}

\* Mutant of OutOfPool: the flag outlives the new job.
LeftInPool(c) == complaint

\* work_orders_clear_returned_to_pool, on the insert of a job.
OutOfPool(c) == [complaint EXCEPT ![c].returned = FALSE]

\* create_work_order: the subject and the time decide the first status.
CreateWorkOrder(o, kind, slot) ==
    LET c == ComplaintOf[o]
        new == [status |-> IF kind = "resident" THEN "awaiting_resident"
                           ELSE IF slot = NoSlot THEN "draft" ELSE "offered",
                kind |-> kind, slot |-> slot,
                high |-> complaint[c].high, byResident |-> FALSE]
    IN  /\ order[o].status = "none"
        /\ \A p \in JobsOf(c) : p < o => order[p].status # "none"
        /\ MayRaise(c)
        /\ SetOrder(o, new)
        /\ timers' = Synced(o, new)
        /\ complaint' = OutOfPool(c)
        /\ alerted' = Unalerted(o, new)
        /\ UNCHANGED <<asg, refused, underway, ctimers>>

\* update_work_order: subject and priority of a job that is not closed. It
\* takes no lock, but of a job that has just closed nobody reads either again.
UpdateWorkOrder(o, kind, high) ==
    /\ order[o].status \notin {"none", "completed", "cancelled"}
    /\ SetOrder(o, [order[o] EXCEPT !.kind = kind, !.high = high])
    /\ UNCHANGED <<complaint, asg, refused, underway, timers, ctimers, alerted>>

\* reschedule_work_order: the holder moves with the job if there is one;
\* otherwise the resident is asked again, or a facility job is offered.
RescheduleWorkOrder(o, slot) ==
    LET holder == Holding(o, {"accepted"})
        new == [order[o] EXCEPT
                   !.slot = slot,
                   !.status = IF holder # {} THEN "scheduled"
                              ELSE IF order[o].kind = "resident"
                              THEN "awaiting_resident" ELSE "offered"]
    IN  /\ order[o].status \in Live
        /\ \A w \in holder : ~Booked(w, slot, o)
        /\ SetOrder(o, new)
        /\ asg' = [asg EXCEPT ![o] =
                      [w \in Staff |-> IF w \in holder
                                       THEN Row("accepted", slot) ELSE @[w]]]
        /\ timers' = Synced(o, new)
        /\ alerted' = Unalerted(o, new)
        /\ UNCHANGED <<complaint, refused, underway, ctimers>>

\* The time of an assignment: the caller's, or the job's own.
TimeFor(o, slot) == IF slot = NoSlot THEN order[o].slot ELSE slot

\* assign_work_order: a supervisor's offer to one person, at a time.
AssignWorkOrder(o, w, slot) ==
    LET at == TimeFor(o, slot)
        new == [order[o] EXCEPT !.status = "offered", !.slot = at]
    IN  /\ order[o].status \in Live
        /\ at # NoSlot
        /\ ~Blocked(w, at, o)
        /\ asg' = [asg EXCEPT ![o] =
                      [Withdraw(@, {"offered", "accepted"}) EXCEPT
                          ![w] = Row("offered", at)]]
        /\ SetOrder(o, new)
        /\ timers' = Synced(o, new) \union {<<o, "auto_assign">>}
        /\ complaint' = Acknowledged(ComplaintOf[o])
        /\ alerted' = Unalerted(o, new)
        /\ UNCHANGED <<refused, underway, ctimers>>

\* force_assign_work_order (anybody on the roster) and take_up_work_order
\* (the caller's own leadership row): a booking without an offer, which may
\* have no time.
BookOutright(o, w, slot) ==
    LET at == TimeFor(o, slot)
    IN  /\ order[o].status \in Live
        /\ at # NoSlot => ~Blocked(w, at, o)
        /\ Book(o, w, at, {"offered", "accepted"})
        /\ UNCHANGED <<refused, underway, ctimers, alerted>>

ForceAssignWorkOrder(o, w, slot) == BookOutright(o, w, slot)

TakeUpWorkOrder(o, w, slot) == w \in Leads /\ BookOutright(o, w, slot)

\* Mutant of MayCancel: finished work can be called off.
MayCancelAny(o) == order[o].status # "none"

MayCancel(o) == order[o].status \in Live \union {"failed"}

\* cancel_work_order: a failed job may still be cancelled.
CancelWorkOrder(o) ==
    LET new == [order[o] EXCEPT !.status = "cancelled"]
    IN  /\ MayCancel(o)
        /\ asg' = [asg EXCEPT ![o] = Withdraw(@, {"offered", "accepted"})]
        /\ SetOrder(o, new)
        /\ timers' = Synced(o, new)
        /\ UNCHANGED <<complaint, refused, underway, ctimers, alerted>>

-------------------------------------------------------------------------------
(* The worker's verbs.                                                     *)

\* claim_open_work_order: the open board, for members not ruled out by the
\* complaint's history.
ClaimOpenWorkOrder(o, w) ==
    /\ w \in Members
    /\ order[o].status \in {"draft", "offered"}
    /\ Holding(o, {"offered", "accepted"}) = {}
    /\ w \notin Excluded(ComplaintOf[o], refused)
    /\ ~Booked(w, order[o].slot, o)
    /\ Book(o, w, order[o].slot, {"offered"})
    /\ UNCHANGED <<refused, underway, ctimers, alerted>>

\* accept_work_order_offer: the overlap check reads the job's time, the
\* exclusion constraint the offer's own, which the row keeps.
AcceptOffer(o, w) ==
    LET own == asg[o][w].slot
        new == [order[o] EXCEPT !.status = "scheduled"]
    IN  /\ asg[o][w].st = "offered"
        /\ order[o].status = "offered" /\ order[o].slot # NoSlot
        /\ ~Booked(w, order[o].slot, o)
        /\ ~Booked(w, own, o)
        /\ asg' = [asg EXCEPT ![o] =
                      [Withdraw(@, {"offered", "accepted"}) EXCEPT
                          ![w] = Row("accepted", own)]]
        /\ SetOrder(o, new)
        /\ timers' = Synced(o, new)
        /\ UNCHANGED <<complaint, refused, underway, ctimers, alerted>>

\* The last test of decline_work_order_offer, once the row is declined: no
\* candidate is left outside the complaint's exclusions.
NobodyLeft(o, away, no) ==
    Candidates(o, order[o].slot, away, no) \subseteq Excluded(ComplaintOf[o], no)

\* dispatch_force_assign: whom it may book, decliners included.
Forceable(o, away) ==
    IF order[o].status \in Live THEN Candidates(o, order[o].slot, away, {})
    ELSE {}

\* decline_work_order_offer: if nobody is left staff are told, and on a
\* high-priority complaint somebody is booked without being asked.
DeclineOffer(o, w, away) ==
    LET c    == ComplaintOf[o]
        no   == refused \union {<<o, w>>}
        rows == [asg[o] EXCEPT ![w] = Row("declined", NoSlot)]
        none == NobodyLeft(o, away, no)
        new  == [order[o] EXCEPT !.status = "scheduled"]
    IN  /\ asg[o][w].st = "offered"
        /\ refused' = no
        /\ alerted' = IF none THEN alerted \union {o} ELSE alerted
        /\ IF none /\ complaint[c].high /\ Forceable(o, away) # {}
           THEN \E f \in Forceable(o, away) :
                    /\ asg' = [asg EXCEPT ![o] =
                                  [Withdraw(rows, {"offered"}) EXCEPT
                                      ![f] = Row("accepted", order[o].slot)]]
                    /\ SetOrder(o, new)
                    /\ timers' = Synced(o, new)
                    /\ complaint' = Acknowledged(c)
           ELSE /\ asg' = [asg EXCEPT ![o] = rows]
                /\ UNCHANGED <<complaint, order, timers>>
        /\ UNCHANGED <<ctimers, underway>>

\* The tail of start, complete and report failure: the holder's row and the
\* job move together, and the projection trigger moves the complaint.
Finish(o, w, rowst, st, alerts) ==
    LET new == [order[o] EXCEPT !.status = st]
    IN  /\ asg' = [asg EXCEPT ![o][w] = Row(rowst, NoSlot)]
        /\ SetOrder(o, new)
        /\ timers' = Synced(o, new)
        /\ alerted' = alerts
        /\ UNCHANGED <<refused, underway>>

\* start_work_order
StartWorkOrder(o, w) ==
    LET new == [order[o] EXCEPT !.status = "in_progress"]
    IN  /\ asg[o][w].st = "accepted"
        /\ order[o].status = "scheduled"
        /\ SetOrder(o, new)
        /\ timers' = Synced(o, new)
        /\ complaint' = [complaint EXCEPT ![ComplaintOf[o]].status =
                            IF @ \in {"open", "acknowledged"} THEN "in_progress"
                            ELSE @]
        /\ UNCHANGED <<asg, refused, underway, ctimers, alerted>>

\* Mutant of MayFinish: anybody may report the work finished.
MayFinishAnybody(o, w) == order[o].status \in {"scheduled", "in_progress"}

\* The caller of complete and of report failure holds the job.
MayFinish(o, w) ==
    /\ asg[o][w].st = "accepted"
    /\ order[o].status \in {"scheduled", "in_progress"}

\* complete_work_order, from scheduled as well as from in_progress; the last
\* live job to complete resolves the complaint.
CompleteWorkOrder(o, w) ==
    LET c == ComplaintOf[o]
    IN  /\ MayFinish(o, w)
        /\ Finish(o, w, "completed", "completed", alerted)
        /\ IF /\ LiveJobs(c) \subseteq {o}
              /\ complaint[c].status \in {"open", "acknowledged", "in_progress"}
           THEN SetComplaint(c, [complaint[c] EXCEPT !.status = "resolved"])
           ELSE UNCHANGED <<complaint, ctimers>>

\* report_work_order_failure
ReportFailure(o, w) ==
    /\ MayFinish(o, w)
    /\ Finish(o, w, "failed", "failed", alerted \ {o})
    /\ UNCHANGED <<complaint, ctimers>>

-------------------------------------------------------------------------------
(* The resident's verbs.                                                   *)

\* raise_complaint
RaiseComplaint(c, high) ==
    /\ complaint[c].status = "none"
    /\ complaint' = [complaint EXCEPT ![c].status = "open", ![c].high = high]
    /\ UNCHANGED <<order, asg, refused, underway, timers, ctimers, alerted>>

\* respond_to_work_order_schedule: a confirmed job is offered, a declined one
\* is a draft without a time.  The assignments are left alone.
RespondToSchedule(o, confirmed) ==
    LET new == IF confirmed THEN [order[o] EXCEPT !.status = "offered"]
               ELSE [order[o] EXCEPT !.status = "draft", !.slot = NoSlot]
    IN  /\ order[o].status = "awaiting_resident"
        /\ SetOrder(o, new)
        /\ timers' = Synced(o, new)
        /\ alerted' = Unalerted(o, new)
        /\ UNCHANGED <<complaint, asg, refused, underway, ctimers>>

\* resident_set_work_order_schedule: only while no time has been proposed.
ResidentSetsTime(o, slot) ==
    LET new == [order[o] EXCEPT !.status = "offered", !.slot = slot]
    IN  /\ order[o].status = "awaiting_resident" /\ order[o].slot = NoSlot
        /\ SetOrder(o, new)
        /\ timers' = Synced(o, new)
        /\ alerted' = Unalerted(o, new)
        /\ UNCHANGED <<complaint, asg, refused, underway, ctimers>>

\* resident_cancel_work: the newest offered or scheduled job is cancelled and
\* the complaint ends, or goes back to the pool.
ResidentCancelWork(c, o, repool) ==
    LET new == [order[o] EXCEPT !.status = "cancelled", !.byResident = TRUE]
        cancellable == {"offered", "scheduled"}
    IN  /\ o \in JobsOf(c) /\ order[o].status \in cancellable
        /\ \A p \in JobsOf(c) : p > o => order[p].status \notin cancellable
        /\ \A p \in JobsOf(c) : order[p].status # "in_progress"
        /\ asg' = [asg EXCEPT ![o] = Withdraw(@, {"offered", "accepted"})]
        /\ SetOrder(o, new)
        /\ timers' = Synced(o, new)
        /\ complaint' = [complaint EXCEPT
                            ![c].status = IF repool THEN "open" ELSE "cancelled",
                            ![c].returned = @ \/ repool]
        /\ UNCHANGED <<refused, underway, ctimers, alerted>>

\* What the resident's two verbs find in the complaint they read.
MayConfirm(c) == complaint[c].status = "resolved"
MayReopen(c)  == complaint[c].status \in {"resolved", "closed"}

\* The SELECT and the checks of a call that is overtaken before it writes.
Reads(c, verb) ==
    /\ underway' = underway \union {<<c, verb>>}
    /\ Cardinality(underway') <= MaxOvertaken
    /\ UNCHANGED <<complaint, order, asg, refused, timers, ctimers, alerted>>

ReadToConfirm(c) == MayConfirm(c) /\ Reads(c, "confirm")
ReadToReopen(c)  == MayReopen(c) /\ Reads(c, "reopen")

\* The UPDATE of such a call, by id, whatever the status has become; another
\* like it may be under way still. Or that of a call that nobody got between.
Writes(c, verb, found) ==
    \/ /\ <<c, verb>> \in underway
       /\ underway' \in {underway, underway \ {<<c, verb>>}}
    \/ found /\ UNCHANGED underway

\* confirm_complaint_resolution
ConfirmResolution(c) ==
    /\ Writes(c, "confirm", MayConfirm(c))
    /\ SetComplaint(c, [complaint[c] EXCEPT !.status = "closed"])
    /\ UNCHANGED <<order, asg, refused, timers, alerted>>

\* reopen_complaint: the auto-close timers stay armed.
ReopenComplaint(c) ==
    /\ Writes(c, "reopen", MayReopen(c))
    /\ SetComplaint(c, [complaint[c] EXCEPT !.status = "open", !.reopened = TRUE])
    /\ UNCHANGED <<order, asg, refused, timers, alerted>>

-------------------------------------------------------------------------------
(* The department's and the office's verbs on a complaint.                 *)

\* take_up_complaint: once, and it acknowledges an open complaint.
TakeUpComplaint(c) ==
    /\ complaint[c].status # "none" /\ ~complaint[c].takenUp
    /\ complaint' = [complaint EXCEPT
                        ![c].takenUp = TRUE,
                        ![c].status = IF @ = "open" THEN "acknowledged" ELSE @]
    /\ UNCHANGED <<order, asg, refused, underway, timers, ctimers, alerted>>

\* raise_complaint_priority: one step up, and the live jobs follow.
RaisePriority(c, high) ==
    /\ complaint[c].status # "none" /\ ~complaint[c].high
    /\ complaint' = [complaint EXCEPT ![c].high = high]
    /\ order' = [o \in Orders |->
                    IF o \in LiveJobs(c) THEN [order[o] EXCEPT !.high = high]
                    ELSE order[o]]
    /\ UNCHANGED <<asg, refused, underway, timers, ctimers, alerted>>

\* Mutant of CalledOff: only the booked job is cancelled, not the one on offer.
CalledOffBooked(c) == {o \in JobsOf(c) : order[o].status = "scheduled"}

\* The jobs supervisor_resolve_complaint cancels.
CalledOff(c) == LiveJobs(c)

\* supervisor_resolve_complaint: refused while a job is running; the other
\* live jobs are cancelled and their staff let go.
SupervisorResolve(c) ==
    /\ complaint[c].status \in {"open", "acknowledged", "in_progress"}
    /\ \A o \in JobsOf(c) : order[o].status # "in_progress"
    /\ order' = [o \in Orders |->
                    IF o \in CalledOff(c)
                    THEN [order[o] EXCEPT !.status = "cancelled"] ELSE order[o]]
    /\ asg' = [o \in Orders |->
                  IF o \in CalledOff(c)
                  THEN Withdraw(asg[o], {"offered", "accepted"}) ELSE asg[o]]
    /\ timers' = {t \in timers : t[1] \notin CalledOff(c)}
    /\ SetComplaint(c, [complaint[c] EXCEPT !.status = "resolved"])
    /\ UNCHANGED <<refused, underway, alerted>>

\* update_complaint: the office sets a status by hand, jobs untouched.
UpdateComplaint(c, st) ==
    /\ complaint[c].status \notin {"none", st}
    /\ SetComplaint(c, [complaint[c] EXCEPT !.status = st])
    /\ UNCHANGED <<order, asg, refused, underway, timers, alerted>>

-------------------------------------------------------------------------------
(* The dispatcher: fire_dispatch_task with the handler of each kind.  The  *)
(* handler re-reads the job, and the task is complete when it returns.     *)

Fired(o, kind) == timers \ {<<o, kind>>}

\* The handler found the world moved on, or nothing to write.
Skip(o, kind) ==
    /\ timers' = Fired(o, kind)
    /\ UNCHANGED <<complaint, order, asg, alerted>>

\* The handler told the supervisor that nobody could be found.
Alert(o, kind) ==
    /\ timers' = Fired(o, kind)
    /\ alerted' = alerted \union {o}
    /\ UNCHANGED <<complaint, order, asg>>

\* dispatch_ping_candidates: offers to the best OfferRound candidates, and
\* the thirty minutes after which one of them is booked.
PingCandidates(o, kind, away, picked) ==
    LET able == Candidates(o, order[o].slot, away, refused)
        sent == {w \in picked : asg[o][w].st # "offered"}
    IN  IF order[o].status # "offered" \/ order[o].slot = NoSlot
        THEN picked = {} /\ Skip(o, kind)
        ELSE /\ picked \subseteq able
             /\ \/ Cardinality(picked) = OfferRound
                \/ Cardinality(picked) < OfferRound /\ picked = able
             /\ IF sent = {} THEN Alert(o, kind)
                ELSE /\ asg' = [asg EXCEPT ![o] = [w \in Staff |->
                                   IF w \in sent THEN Row("offered", order[o].slot)
                                   ELSE @[w]]]
                     /\ timers' = Fired(o, kind) \union {<<o, "auto_assign">>}
                     /\ complaint' = Acknowledged(ComplaintOf[o])
                     /\ UNCHANGED <<order, alerted>>

\* dispatch_manual_window: the system takes over a job nobody was asked about.
FireManualWindow(o, away, picked) ==
    /\ <<o, "manual_window">> \in timers
    /\ IF order[o].status = "offered" /\ Holding(o, {"offered", "accepted"}) = {}
       THEN PingCandidates(o, "manual_window", away, picked)
       ELSE picked = {} /\ Skip(o, "manual_window")
    /\ UNCHANGED <<refused, underway, ctimers>>

\* dispatch_auto_assign: the best candidate is booked.
FireAutoAssign(o, away) ==
    LET able == Candidates(o, order[o].slot, away, refused)
    IN  /\ <<o, "auto_assign">> \in timers
        /\ IF order[o].status # "offered" \/ order[o].slot = NoSlot
           THEN Skip(o, "auto_assign")
           ELSE IF able = {} THEN Alert(o, "auto_assign")
           ELSE /\ \E w \in able : Book(o, w, order[o].slot, {"offered"})
                /\ UNCHANGED alerted
        /\ UNCHANGED <<refused, underway, ctimers>>

\* find_first_available_slot books the first hour somebody can take; which
\* hour and who depends on everybody's leave, so any of them may come first.
\* Nobody in fourteen days means everybody is away.
BookFirstAvailable(o) ==
    \E slot \in Slots : \E w \in Candidates(o, slot, {}, refused) :
        Book(o, w, slot, {"offered"})

\* dispatch_resident_timeout on a job still waiting: a proposed time proceeds;
\* with none proposed the first free hour is booked, or the job goes to the
\* board and the supervisor is told.
ProceedUnanswered(o) ==
    LET st  == IF order[o].slot # NoSlot THEN "offered" ELSE "draft"
        new == [order[o] EXCEPT !.status = st]
    IN  \/ /\ SetOrder(o, new)
           /\ timers' = Synced(o, new)
           /\ alerted' = IF st = "draft" THEN alerted \union {o}
                         ELSE Unalerted(o, new)
           /\ UNCHANGED <<complaint, asg>>
        \/ /\ order[o].slot = NoSlot
           /\ BookFirstAvailable(o)
           /\ UNCHANGED alerted

FireResidentTimeout(o) ==
    /\ <<o, "resident_timeout">> \in timers
    /\ IF order[o].status = "awaiting_resident" THEN ProceedUnanswered(o)
       ELSE Skip(o, "resident_timeout")
    /\ UNCHANGED <<refused, underway, ctimers>>

\* The gate of a common-area job: an urgent resident job nobody is on.
UrgentUnallotted(o) ==
    \E u \in Orders \ {o} :
        /\ order[u].kind = "resident" /\ order[u].high
        /\ order[u].status \in {"draft", "awaiting_resident", "offered"}
        /\ Holding(u, {"offered", "accepted"}) = {}

\* dispatch_facility_auto_assign: behind the gate the timer is re-armed for
\* an hour later, on a new row.
FireFacilityAutoAssign(o) ==
    LET eligible == /\ order[o].status = "draft" /\ order[o].kind = "facility"
                    /\ Holding(o, {"offered", "accepted"}) = {}
    IN  /\ <<o, "facility_auto_assign">> \in timers
        /\ \/ /\ ~eligible
              /\ Skip(o, "facility_auto_assign")
           \/ /\ eligible /\ UrgentUnallotted(o)
              /\ UNCHANGED <<complaint, order, asg, timers, alerted>>
           \/ /\ eligible /\ ~UrgentUnallotted(o)
              /\ BookFirstAvailable(o)
              /\ UNCHANGED alerted
           \/ /\ eligible /\ ~UrgentUnallotted(o)
              /\ Alert(o, "facility_auto_assign")
        /\ UNCHANGED <<refused, underway, ctimers>>

\* dispatch_failed_visit_escalation: the manager is told, unless a newer job
\* answers the failure or the complaint has ended.
FireFailedVisitEscalation(o) ==
    LET c == ComplaintOf[o]
        answered == \/ \E p \in JobsOf(c) : p > o /\ order[p].status # "none"
                    \/ complaint[c].status \in {"resolved", "closed"}
    IN  /\ <<o, "failed_visit_escalation">> \in timers
        /\ IF answered THEN Skip(o, "failed_visit_escalation")
           ELSE Alert(o, "failed_visit_escalation")
        /\ UNCHANGED <<refused, underway, ctimers>>

\* dispatch_auto_close: warn, then close, a complaint that is still resolved.
FireAutoClose(c, kind) ==
    /\ <<c, kind>> \in ctimers
    /\ ctimers' = ctimers \ {<<c, kind>>}
    /\ complaint' =
           IF kind = "auto_close" /\ complaint[c].status = "resolved"
           THEN [complaint EXCEPT ![c].status = "closed"] ELSE complaint
    /\ UNCHANGED <<order, asg, refused, underway, timers, alerted>>

\* fail_dispatch_task for the fifth time: the timer retires unfired.
RetireTimer(o, kind) ==
    /\ MayRetire
    /\ <<o, kind>> \in timers
    /\ Skip(o, kind)
    /\ UNCHANGED <<refused, underway, ctimers>>

RetireComplaintTimer(c, kind) ==
    /\ MayRetire
    /\ <<c, kind>> \in ctimers
    /\ ctimers' = ctimers \ {<<c, kind>>}
    /\ UNCHANGED <<complaint, order, asg, refused, underway, timers, alerted>>

-------------------------------------------------------------------------------
SupervisorNext ==
    \E o \in Orders :
        \/ \E kind \in Kinds, slot \in RaiseSlots : CreateWorkOrder(o, kind, slot)
        \/ \E kind \in Kinds, high \in Highs : UpdateWorkOrder(o, kind, high)
        \/ \E slot \in RescheduleSlots : RescheduleWorkOrder(o, slot)
        \/ \E w \in Staff, slot \in RescheduleSlots \union {NoSlot} :
              \/ AssignWorkOrder(o, w, slot)
              \/ ForceAssignWorkOrder(o, w, slot)
              \/ TakeUpWorkOrder(o, w, slot)
        \/ CancelWorkOrder(o)

WorkerNext ==
    \E o \in Orders, w \in Staff :
        \/ ClaimOpenWorkOrder(o, w)
        \/ AcceptOffer(o, w)
        \/ \E away \in Aways : DeclineOffer(o, w, away)
        \/ StartWorkOrder(o, w)
        \/ CompleteWorkOrder(o, w)
        \/ ReportFailure(o, w)

ResidentNext ==
    \/ \E c \in Complaints :
          \/ \E high \in Highs : RaiseComplaint(c, high)
          \/ \E o \in Orders, repool \in BOOLEAN : ResidentCancelWork(c, o, repool)
          \/ ReadToConfirm(c) \/ ConfirmResolution(c)
          \/ ReadToReopen(c) \/ ReopenComplaint(c)
    \/ \E o \in Orders :
          \/ \E confirmed \in BOOLEAN : RespondToSchedule(o, confirmed)
          \/ \E slot \in Slots : ResidentSetsTime(o, slot)

OfficeNext ==
    \E c \in Complaints :
        \/ TakeUpComplaint(c)
        \/ \E high \in Highs : RaisePriority(c, high)
        \/ SupervisorResolve(c)
        \/ \E st \in HandStatuses : UpdateComplaint(c, st)

FireOrder(o) ==
    \/ \E away \in Aways, picked \in SUBSET Members : FireManualWindow(o, away, picked)
    \/ \E away \in Aways : FireAutoAssign(o, away)
    \/ FireResidentTimeout(o)
    \/ FireFacilityAutoAssign(o)
    \/ FireFailedVisitEscalation(o)

DispatcherNext ==
    \/ \E o \in Orders : FireOrder(o)
    \/ \E c \in Complaints, kind \in ComplaintTimer :
          FireAutoClose(c, kind) \/ RetireComplaintTimer(c, kind)
    \/ \E o \in Orders, kind \in OrderTimer : RetireTimer(o, kind)

Next == SupervisorNext \/ WorkerNext \/ ResidentNext \/ OfficeNext \/ DispatcherNext

Spec == Init /\ [][Next]_vars

\* The dispatcher loop never stops polling (app/core/dispatcher.py), so every
\* timer that stays armed is fired in the end.
FairSpec ==
    /\ Spec
    /\ \A o \in Orders :
        /\ WF_vars(\E away \in Aways, picked \in SUBSET Members :
                       FireManualWindow(o, away, picked))
        /\ WF_vars(\E away \in Aways : FireAutoAssign(o, away))
        /\ WF_vars(FireResidentTimeout(o))
        /\ WF_vars(FireFacilityAutoAssign(o))
        /\ WF_vars(FireFailedVisitEscalation(o))
    /\ \A c \in Complaints, kind \in ComplaintTimer : WF_vars(FireAutoClose(c, kind))

-------------------------------------------------------------------------------
(* Properties.                                                             *)

Times == Slots \union {NoSlot}
ComplaintRows ==
    [status : ComplaintStatus \union {"none"}, high : BOOLEAN,
     reopened : BOOLEAN, returned : BOOLEAN, takenUp : BOOLEAN]
OrderRows ==
    [status : OrderStatus \union {"none"}, kind : OrderKind,
     slot : Times, high : BOOLEAN, byResident : BOOLEAN]
AssignmentRows == [st : RowStatus \union {"none"}, slot : Times]

\* Every variable has its type.
TypeOK ==
    /\ complaint \in [Complaints -> ComplaintRows]
    /\ order \in [Orders -> OrderRows]
    /\ asg \in [Orders -> [Staff -> AssignmentRows]]
    /\ refused \subseteq Orders \X Staff
    /\ timers \subseteq Orders \X OrderTimer
    /\ ctimers \subseteq Complaints \X ComplaintTimer
    /\ underway \subseteq Complaints \X UnlockedVerb
    /\ alerted \subseteq Orders

\* A complaint never has two live jobs (create_work_order's third refusal,
\* which no later transition of a job may undermine).
OneLiveJob ==
    \A c \in Complaints : \A o, p \in LiveJobs(c) : o = p

\* The assignment rows agree with the job: exactly one accepted row while it
\* is scheduled or in progress and none at any other time, and an offer stands
\* only on a job that is still looking for somebody (the withdrawals of the
\* nine functions that book, offer, cancel or finish).
HolderMatchesJob ==
    \A o \in Orders :
        /\ \A v, w \in Holding(o, {"accepted"}) : v = w
        /\ Holding(o, {"accepted"}) # {}
               <=> order[o].status \in {"scheduled", "in_progress"}
        /\ Holding(o, {"offered"}) # {}
               => order[o].status \in {"draft", "awaiting_resident", "offered"}

\* Nobody holds two accepted rows at overlapping times: what the overlap
\* checks and the exclusion constraint of work_order_assignments add up to.
NoDoubleBooking ==
    \A w \in Staff : \A o, p \in Orders :
        /\ o # p
        /\ asg[o][w].st = "accepted" /\ asg[p][w].st = "accepted"
        => <<asg[o][w].slot, asg[p][w].slot>> \notin Overlaps

\* "A person cannot be in two places at once, and the schema is where that is
\* said" (0036): but the constraint guards the times of assignment rows, and an
\* offer accepted after its job was moved keeps the time it was made for. Here
\* the times are those of the jobs.
OnePlaceAtATime ==
    \A w \in Staff : \A o, p \in Orders :
        /\ o # p
        /\ asg[o][w].st = "accepted" /\ asg[p][w].st = "accepted"
        => <<order[o].slot, order[p].slot>> \notin Overlaps

\* sync_dispatch_tasks keeps dispatch_tasks in agreement with the job: a job
\* with somebody on it, or over, has no timer; a failed one at most its
\* escalation; a draft at most its automatic booking.
TimersFollowStatus ==
    \A t \in timers :
        LET st == order[t[1]].status
        IN  /\ st \in {"draft", "awaiting_resident", "offered", "failed"}
            /\ st = "failed" => t[2] = "failed_visit_escalation"
            /\ st = "draft" => t[2] = "facility_auto_assign"
            /\ t[2] = "resident_timeout" => st = "awaiting_resident"

\* A job never waits for its resident without the deadline that ends the
\* wait ("awaiting_resident forever", 0037), unless that timer has retired.
AwaitingHasDeadline ==
    \A o \in Orders :
        order[o].status = "awaiting_resident" /\ ~MayRetire
        => <<o, "resident_timeout">> \in timers

\* Work on a complaint that is over, and on one that waits in the pool.
Ended == {"resolved", "closed", "cancelled"}
EndedBusy(c)  == complaint[c].status \in Ended /\ LiveJobs(c) # {}
PooledBusy(c) == complaint[c].returned /\ LiveJobs(c) # {}

\* A confirmation that was overtaken: the complaint it read as resolved is so
\* no longer when it writes, having been reopened, or set back by hand.
ConfirmedLate(c) ==
    complaint[c].status \notin {"resolved", "closed"} /\ ConfirmResolution(c)

\* Nobody comes to work on a complaint that is over ("a job quietly completing
\* on a closed complaint would corrupt the projection", COMPLAINT_ENGINE_PRD.md
\* 8.5) or back in the pool (returned_to_pool_at): no step of anybody brings
\* that about, except a confirmation that was overtaken, which closes the
\* complaint over the job that was raised on it since.
OverIsIdle ==
    [][\A c \in Complaints :
          /\ EndedBusy(c)'  => EndedBusy(c) \/ ConfirmedLate(c)
          /\ PooledBusy(c)' => PooledBusy(c)]_vars

\* An offered job always has a timer left, or its staff have been told that
\* nobody could be found.
NobodyForgotten ==
    \A o \in Orders :
        /\ order[o].status = "offered"
        /\ \A kind \in OrderTimer : <<o, kind>> \notin timers
        => o \in alerted

\* A failed visit that no newer job answers, on a complaint still in play, is
\* waiting to be escalated or has been.
FailedVisitIsSeen ==
    \A o \in Orders :
        LET c == ComplaintOf[o]
        IN  /\ order[o].status = "failed"
            /\ \A p \in JobsOf(c) : p > o => order[p].status = "none"
            /\ complaint[c].status \notin {"resolved", "closed"}
            /\ ~complaint[c].reopened
            => o \in alerted \/ <<o, "failed_visit_escalation">> \in timers

\* A finished job stays finished, and so does what its staff did on it.
FinishedJobsStay ==
    [][\A o \in Orders :
          /\ order[o].status \in {"completed", "cancelled"}
             => order'[o].status = order[o].status /\ asg'[o] = asg[o]
          /\ order[o].status = "failed"
             => order'[o].status \in {"failed", "cancelled"}]_vars

Progress == <<"none", "open", "acknowledged", "in_progress", "resolved", "closed">>
Rank(st) == IF st = "cancelled" THEN 7
            ELSE CHOOSE i \in 1..6 : Progress[i] = st

\* Work on jobs moves a complaint forward only: a step that takes one back
\* touches no job, or is the resident calling the work off.
WorkMovesForward ==
    [][\A c \in Complaints :
          Rank(complaint'[c].status) < Rank(complaint[c].status)
          => \/ UNCHANGED <<order, asg>>
             \/ \E o \in JobsOf(c) : ~order[o].byResident /\ order'[o].byResident]_vars

\* A timer never engages somebody who declined this very job.
EngineRespectsRefusals ==
    [][\A o \in Orders : FireOrder(o) =>
          \A w \in Staff :
              /\ <<o, w>> \in refused
              /\ asg[o][w].st \notin {"offered", "accepted"}
              => asg'[o][w].st \notin {"offered", "accepted"}]_vars

\* Liveness of the engine: a job never waits forever for its resident, an
\* offered job is taken or its staff are told, and a resolved complaint
\* closes unless somebody moves it.
WaitsEnd ==
    /\ \A o \in Orders :
        order[o].status = "awaiting_resident"
        ~> order[o].status # "awaiting_resident"
    /\ \A o \in Orders :
        order[o].status = "offered"
        ~> order[o].status # "offered" \/ o \in alerted
    /\ \A c \in Complaints :
        complaint[c].status = "resolved" ~> complaint[c].status # "resolved"

\* The engine keeps JobBoard's promise: a job has one holder at a time, who
\* alone finishes it, and nothing revives a job that is over.
Phase(o) ==
    CASE order[o].status = "none" -> "absent"
      [] order[o].status \in OrderStatus \ Live -> "over"
      [] Holding(o, {"accepted"}) # {} -> "held"
      [] OTHER -> "looking"
TheOne(o, sts) ==
    IF Holding(o, sts) = {} THEN NoSlot ELSE CHOOSE w \in Holding(o, sts) : TRUE

Board == INSTANCE JobBoard WITH
    Jobs <- Orders, Workers <- Staff, Nobody <- NoSlot,
    phase  <- [o \in Orders |-> Phase(o)],
    holder <- [o \in Orders |-> TheOne(o, {"accepted"})],
    doneBy <- [o \in Orders |-> TheOne(o, {"completed", "failed"})]

KeepsTheBoard == Board!BoardSpec
===============================================================================
