----------------------------- MODULE Timers_proofs -----------------------------
(* Theorems about WorkOrders that relate the dispatch timers to the jobs they *)
(* are armed for: a timer fits the status of its job, a job that waits for    *)
(* its resident has its deadline, a failed visit waits to be escalated, and a *)
(* job on offer is cared for by a timer or by staff who were told.            *)
EXTENDS Board_proofs

-------------------------------------------------------------------------------
(* What a step may do to the timers.                                           *)

Offer(o, st) == IF st = "offered" THEN {<<o, "auto_assign">>} ELSE {}

\* One job is written and sync_dispatch_tasks answers; an offer by hand arms
\* the automatic booking beside that.
JobSynced(o, new) ==
    /\ SetOrder(o, new)
    /\ Synced(o, new) \subseteq timers'
    /\ timers' \subseteq Synced(o, new) \union Offer(o, new.status)
    /\ alerted \ {o} \subseteq alerted'

\* A newer job answers the failure of job o, or its complaint is settled.
Answered(o) ==
    \/ \E p \in JobsOf(ComplaintOf[o]) : p > o /\ order[p].status # "none"
    \/ complaint[ComplaintOf[o]].status \in {"resolved", "closed"}

\* No job changes its status; a timer is spent, or a ping arms the booking of
\* an offered job. Only a timer that may retire is lost to a waiting job, and
\* the escalation of a failed one is spent only once somebody has been told or
\* the failure has been answered.
TimerSpent ==
    /\ \A o \in Orders : order'[o].status = order[o].status
    /\ timers' \subseteq timers \union UNION {Offer(o, order[o].status) : o \in Orders}
    /\ ~MayRetire =>
          \A o \in Orders : order[o].status = "awaiting_resident" =>
              (<<o, "resident_timeout">> \in timers => <<o, "resident_timeout">> \in timers')
    /\ alerted \subseteq alerted'
    /\ ~MayRetire =>
          \A o \in Orders : <<o, "failed_visit_escalation">> \in timers =>
              \/ <<o, "failed_visit_escalation">> \in timers'
              \/ o \in alerted' \/ Answered(o)

SomeJobSynced == \E o \in Orders, new \in OrderRows : JobSynced(o, new)

\* A step that touches neither jobs' statuses nor timers.
LEMMA NothingSpent ==
    ASSUME alerted \subseteq alerted', UNCHANGED timers,
           \A o \in Orders : order'[o].status = order[o].status
    PROVE  TimerSpent
BY DEF TimerSpent

\* A job written together with its timers, and nothing armed besides.
LEMMA PlainlySynced ==
    ASSUME TypeOK, NEW o \in Orders, NEW new \in OrderRows,
           SetOrder(o, new), timers' = Synced(o, new), alerted \ {o} \subseteq alerted'
    PROVE  SomeJobSynced
BY DEF SomeJobSynced, JobSynced

\* The history of alerts starts afresh for the job written only.
LEMMA OthersStayAlerted ==
    ASSUME NEW o, NEW new
    PROVE  alerted \ {o} \subseteq Unalerted(o, new)
BY DEF Unalerted

\* A booking is one job written.
LEMMA BookSynced ==
    ASSUME TypeOK, NEW o \in Orders, NEW w, NEW slot \in Times, NEW ended,
           Book(o, w, slot, ended), UNCHANGED alerted
    PROVE  SomeJobSynced
<1>1. [order[o] EXCEPT !.status = "scheduled", !.slot = slot] \in OrderRows
  BY StatusAndTimeType DEF OrderStatus, Live
<1> QED BY <1>1, PlainlySynced DEF Book

\* The rows written are rows: TypeOK' gives the row of the job that changed.
LEMMA WrittenRow ==
    ASSUME TypeOK, TypeOK', NEW o \in Orders, NEW new, SetOrder(o, new)
    PROVE  new \in OrderRows
BY DEF TypeOK, SetOrder

-------------------------------------------------------------------------------
(* One lemma for the verbs of each person.                                     *)

\* The supervisor's verbs.
LEMMA SupervisorTimers ==
    TypeOK /\ TypeOK' /\ SupervisorNext => SomeJobSynced \/ TimerSpent
<1> SUFFICES ASSUME TypeOK, TypeOK', NEW o \in Orders,
                    \/ \E kind \in Kinds, slot \in RaiseSlots : CreateWorkOrder(o, kind, slot)
                    \/ \E kind \in Kinds, high \in Highs : UpdateWorkOrder(o, kind, high)
                    \/ \E slot \in RescheduleSlots : RescheduleWorkOrder(o, slot)
                    \/ \E w \in Staff, slot \in RescheduleSlots \union {NoSlot} :
                          \/ AssignWorkOrder(o, w, slot)
                          \/ BookOutright(o, w, slot)
                    \/ CancelWorkOrder(o)
             PROVE  SomeJobSynced \/ TimerSpent
  BY DEF SupervisorNext, ForceAssignWorkOrder, TakeUpWorkOrder
<1>1. ASSUME NEW kind, NEW slot, CreateWorkOrder(o, kind, slot)
      PROVE  SomeJobSynced
  BY <1>1, WrittenRow, PlainlySynced, OthersStayAlerted DEF CreateWorkOrder
<1>2. ASSUME NEW kind, NEW high, UpdateWorkOrder(o, kind, high)
      PROVE  TimerSpent
  <2>1. order[o] \in OrderRows
    BY DEF TypeOK
  <2>2. \A p \in Orders : order'[p].status = order[p].status
    BY <1>2, <2>1 DEF UpdateWorkOrder, SetOrder, TypeOK, OrderRows
  <2> QED BY <1>2, <2>2, NothingSpent DEF UpdateWorkOrder
<1>3. ASSUME NEW slot, RescheduleWorkOrder(o, slot)
      PROVE  SomeJobSynced
  BY <1>3, WrittenRow, PlainlySynced, OthersStayAlerted DEF RescheduleWorkOrder
<1>4. ASSUME NEW w, NEW slot, AssignWorkOrder(o, w, slot)
      PROVE  SomeJobSynced
  <2> DEFINE new == [order[o] EXCEPT !.status = "offered", !.slot = TimeFor(o, slot)]
  <2>1. /\ SetOrder(o, new) /\ timers' = Synced(o, new) \union {<<o, "auto_assign">>}
        /\ alerted' = Unalerted(o, new)
    BY <1>4 DEF AssignWorkOrder
  <2>2. new.status = "offered"
    BY DEF TypeOK, OrderRows
  <2> HIDE DEF new
  <2>3. new \in OrderRows
    BY <2>1, WrittenRow
  <2> QED BY <2>1, <2>2, <2>3, OthersStayAlerted DEF SomeJobSynced, JobSynced, Offer
<1>5. ASSUME NEW w, NEW slot \in RescheduleSlots \union {NoSlot}, BookOutright(o, w, slot)
      PROVE  SomeJobSynced
  <2>1. TimeFor(o, slot) \in Times
    BY TimeForType, SlotsAssumption DEF Times
  <2> QED BY <1>5, <2>1, BookSynced DEF BookOutright
<1>6. ASSUME CancelWorkOrder(o)
      PROVE  SomeJobSynced
  BY <1>6, WrittenRow, PlainlySynced DEF CancelWorkOrder
<1> QED BY <1>1, <1>2, <1>3, <1>4, <1>5, <1>6

\* The workers' verbs.
LEMMA WorkerTimers ==
    TypeOK /\ TypeOK' /\ WorkerNext => SomeJobSynced \/ TimerSpent
<1> SUFFICES ASSUME TypeOK, TypeOK', NEW o \in Orders, NEW w \in Staff,
                    \/ ClaimOpenWorkOrder(o, w)
                    \/ AcceptOffer(o, w)
                    \/ \E away \in Aways : DeclineOffer(o, w, away)
                    \/ StartWorkOrder(o, w)
                    \/ CompleteWorkOrder(o, w)
                    \/ ReportFailure(o, w)
             PROVE  SomeJobSynced \/ TimerSpent
  BY DEF WorkerNext
<1>1. ASSUME ClaimOpenWorkOrder(o, w)
      PROVE  SomeJobSynced
  <2>1. order[o].slot \in Times
    BY DEF TypeOK, OrderRows
  <2> QED BY <1>1, <2>1, BookSynced DEF ClaimOpenWorkOrder
<1>2. ASSUME AcceptOffer(o, w)
      PROVE  SomeJobSynced
  BY <1>2, WrittenRow, PlainlySynced DEF AcceptOffer
<1>3. ASSUME NEW away, DeclineOffer(o, w, away)
      PROVE  SomeJobSynced \/ TimerSpent
  <2> DEFINE new == [order[o] EXCEPT !.status = "scheduled"]
  <2>1. \/ SetOrder(o, new) /\ timers' = Synced(o, new)
        \/ UNCHANGED <<order, timers>>
    BY <1>3 DEF DeclineOffer
  <2>2. alerted \subseteq alerted'
    BY <1>3 DEF DeclineOffer
  <2> HIDE DEF new
  <2> QED BY <2>1, <2>2, WrittenRow, PlainlySynced, NothingSpent
<1>4. ASSUME StartWorkOrder(o, w)
      PROVE  SomeJobSynced
  BY <1>4, WrittenRow, PlainlySynced DEF StartWorkOrder
<1>5. ASSUME NEW rowst, NEW st, NEW alerts, Finish(o, w, rowst, st, alerts),
             alerted \ {o} \subseteq alerts
      PROVE  SomeJobSynced
  BY <1>5, WrittenRow, PlainlySynced DEF Finish
<1> QED BY <1>1, <1>2, <1>3, <1>4, <1>5 DEF CompleteWorkOrder, ReportFailure

\* The residents' verbs.
LEMMA ResidentTimers ==
    TypeOK /\ TypeOK' /\ ResidentNext => SomeJobSynced \/ TimerSpent
<1>1. ASSUME TypeOK, TypeOK', NEW c \in Complaints, NEW o \in Orders, NEW repool,
             ResidentCancelWork(c, o, repool)
      PROVE  SomeJobSynced
  BY <1>1, WrittenRow, PlainlySynced DEF ResidentCancelWork
<1>2. ASSUME TypeOK, TypeOK', NEW o \in Orders, NEW confirmed, RespondToSchedule(o, confirmed)
      PROVE  SomeJobSynced
  <2> DEFINE new == IF confirmed THEN [order[o] EXCEPT !.status = "offered"]
                    ELSE [order[o] EXCEPT !.status = "draft", !.slot = NoSlot]
  <2>1. SetOrder(o, new) /\ timers' = Synced(o, new) /\ alerted' = Unalerted(o, new)
    BY <1>2 DEF RespondToSchedule
  <2> HIDE DEF new
  <2> QED BY <1>2, <2>1, WrittenRow, PlainlySynced, OthersStayAlerted
<1>3. ASSUME TypeOK, TypeOK', NEW o \in Orders, NEW slot, ResidentSetsTime(o, slot)
      PROVE  SomeJobSynced
  BY <1>3, WrittenRow, PlainlySynced, OthersStayAlerted DEF ResidentSetsTime
<1>4. ASSUME NEW c \in Complaints,
             \/ \E high \in Highs : RaiseComplaint(c, high)
             \/ ReadToConfirm(c) \/ ConfirmResolution(c)
             \/ ReadToReopen(c) \/ ReopenComplaint(c)
      PROVE  TimerSpent
  BY <1>4, NothingSpent DEF RaiseComplaint, ReadToConfirm, ReadToReopen, Reads,
                            ConfirmResolution, ReopenComplaint
<1> QED BY <1>1, <1>2, <1>3, <1>4 DEF ResidentNext

\* The office's verbs; a supervisor who resolves a complaint calls off all of
\* its live jobs at once and closes their timers.
LEMMA OfficeTimers ==
    TypeOK /\ OfficeNext => TimerSpent \/ \E c \in Complaints : SupervisorResolve(c)
<1>1. ASSUME NEW c \in Complaints,
             TakeUpComplaint(c) \/ \E st \in HandStatuses : UpdateComplaint(c, st)
      PROVE  TimerSpent
  BY <1>1, NothingSpent DEF TakeUpComplaint, UpdateComplaint
<1>2. ASSUME TypeOK, NEW c \in Complaints, NEW high, RaisePriority(c, high)
      PROVE  TimerSpent
  <2>1. \A o \in Orders : order'[o].status = order[o].status
    BY <1>2 DEF RaisePriority, TypeOK, OrderRows
  <2> QED BY <1>2, <2>1, NothingSpent DEF RaisePriority
<1> QED BY <1>1, <1>2 DEF OfficeNext

\* The dispatcher's handlers: a deadline that fires on a job still waiting
\* moves the job on, so only retirement takes a deadline from a waiting job.
LEMMA DispatcherTimers ==
    TypeOK /\ TypeOK' /\ DispatcherNext => SomeJobSynced \/ TimerSpent
<1>1. ASSUME NEW o \in Orders, NEW kind,
             Skip(o, kind) \/ Alert(o, kind),
             kind = "resident_timeout" => order[o].status # "awaiting_resident" \/ MayRetire,
             kind = "failed_visit_escalation" => Alert(o, kind) \/ Answered(o) \/ MayRetire
      PROVE  TimerSpent
  BY <1>1 DEF Skip, Alert, Fired, TimerSpent
<1>2. ASSUME TypeOK, TypeOK', NEW o \in Orders, BookFirstAvailable(o), UNCHANGED alerted
      PROVE  SomeJobSynced
  BY <1>2, BookSynced DEF BookFirstAvailable, Times
<1>3. ASSUME TypeOK, TypeOK', NEW o \in Orders, NEW away, NEW picked,
             FireManualWindow(o, away, picked)
      PROVE  TimerSpent
  <2>1. CASE Skip(o, "manual_window") \/ Alert(o, "manual_window")
    BY <1>1, <2>1
  <2>2. CASE /\ order[o].status = "offered"
             /\ timers' = Fired(o, "manual_window") \union {<<o, "auto_assign">>}
             /\ UNCHANGED <<order, alerted>>
    <3>1. Offer(o, order[o].status) = {<<o, "auto_assign">>}
      BY <2>2 DEF Offer
    <3>2. {<<o, "auto_assign">>} \subseteq UNION {Offer(p, order[p].status) : p \in Orders}
      BY <3>1
    <3> QED BY <2>2, <3>2 DEF TimerSpent, Fired
  <2> QED BY <1>3, <2>1, <2>2 DEF FireManualWindow, PingCandidates
<1>4. ASSUME TypeOK, TypeOK', NEW o \in Orders, NEW away, FireAutoAssign(o, away)
      PROVE  SomeJobSynced \/ TimerSpent
  <2>1. order[o].slot \in Times
    BY <1>4 DEF TypeOK, OrderRows
  <2>2. \/ Skip(o, "auto_assign") \/ Alert(o, "auto_assign")
        \/ (\E w : Book(o, w, order[o].slot, {"offered"})) /\ UNCHANGED alerted
    BY <1>4 DEF FireAutoAssign
  <2> QED BY <1>1, <1>4, <2>1, <2>2, BookSynced
<1>5. ASSUME TypeOK, TypeOK', NEW o \in Orders, FireResidentTimeout(o)
      PROVE  SomeJobSynced \/ TimerSpent
  <2> DEFINE st == IF order[o].slot # NoSlot THEN "offered" ELSE "draft"
             new == [order[o] EXCEPT !.status = st]
  <2>1. \/ order[o].status # "awaiting_resident" /\ Skip(o, "resident_timeout")
        \/ SetOrder(o, new) /\ timers' = Synced(o, new) /\ alerted \ {o} \subseteq alerted'
        \/ BookFirstAvailable(o) /\ UNCHANGED alerted
    BY <1>5, OthersStayAlerted DEF FireResidentTimeout, ProceedUnanswered
  <2> HIDE DEF new
  <2> QED BY <1>1, <1>2, <1>5, <2>1, WrittenRow, PlainlySynced
<1>6. ASSUME TypeOK, TypeOK', NEW o \in Orders, FireFacilityAutoAssign(o)
      PROVE  SomeJobSynced \/ TimerSpent
  <2>1. \/ Skip(o, "facility_auto_assign") \/ Alert(o, "facility_auto_assign")
        \/ UNCHANGED <<order, timers, alerted>>
        \/ BookFirstAvailable(o) /\ UNCHANGED alerted
    BY <1>6 DEF FireFacilityAutoAssign
  <2> QED BY <1>1, <1>2, <1>6, <2>1, NothingSpent
<1>7. ASSUME NEW o \in Orders,
             \/ FireFailedVisitEscalation(o)
             \/ \E kind \in OrderTimer : RetireTimer(o, kind)
      PROVE  TimerSpent
  BY <1>1, <1>7 DEF FireFailedVisitEscalation, RetireTimer, Answered
<1>8. ASSUME NEW c \in Complaints, NEW kind \in ComplaintTimer,
             FireAutoClose(c, kind) \/ RetireComplaintTimer(c, kind)
      PROVE  TimerSpent
  BY <1>8, NothingSpent DEF FireAutoClose, RetireComplaintTimer
<1> QED
  BY <1>3, <1>4, <1>5, <1>6, <1>7, <1>8 DEF DispatcherNext, FireOrder

\* Every step but a complaint's resolution by hand writes one job and syncs its
\* timers, or spends a timer.
LEMMA StepsSync ==
    TypeOK /\ TypeOK' /\ Next =>
        SomeJobSynced \/ TimerSpent \/ \E c \in Complaints : SupervisorResolve(c)
BY SupervisorTimers, WorkerTimers, ResidentTimers, OfficeTimers, DispatcherTimers DEF Next

-------------------------------------------------------------------------------
(* The theorems.                                                               *)

\* What TimersFollowStatus allows a job of status st.
Fits(kind, st) ==
    /\ st \in {"draft", "awaiting_resident", "offered", "failed"}
    /\ st = "failed" => kind = "failed_visit_escalation"
    /\ st = "draft" => kind = "facility_auto_assign"
    /\ kind = "resident_timeout" => st = "awaiting_resident"

\* No timer is ever armed on a job with somebody on it or over, and a timer that
\* is armed is one its status can have: whatever writes a job syncs its timers.
THEOREM TimersFit == Spec => []TimersFollowStatus
<1>1. TimersFollowStatus <=> \A t \in timers : Fits(t[2], order[t[1]].status)
  BY DEF TimersFollowStatus, Fits
<1>2. Init => TimersFollowStatus
  BY DEF Init, TimersFollowStatus
<1>3. TypeOK /\ TypeOK' /\ TimersFollowStatus /\ [Next]_vars => TimersFollowStatus'
  <2> SUFFICES ASSUME TypeOK, TypeOK', TimersFollowStatus, [Next]_vars,
                      NEW t \in timers'
               PROVE  Fits(t[2], order'[t[1]].status)
    BY DEF TimersFollowStatus, Fits
  <2>0. /\ \A u \in timers : Fits(u[2], order[u[1]].status)
        /\ t[1] \in Orders /\ t = <<t[1], t[2]>>
        /\ \A o, st : t \in Offer(o, st) => t[1] = o /\ t[2] = "auto_assign" /\ st = "offered"
    BY <1>1 DEF TypeOK, Offer
  <2>1. CASE UNCHANGED vars
    BY <2>0, <2>1 DEF vars
  <2>2. CASE TimerSpent
    <3>1. order'[t[1]].status = order[t[1]].status
      BY <2>0, <2>2 DEF TimerSpent
    <3>2. t \in timers \/ \E o \in Orders : t \in Offer(o, order[o].status)
      BY <2>2 DEF TimerSpent
    <3> QED BY <2>0, <3>1, <3>2 DEF Fits
  <2>3. ASSUME NEW o \in Orders, NEW new \in OrderRows, JobSynced(o, new)
        PROVE  Fits(t[2], order'[t[1]].status)
    <3>1. /\ order'[o] = new
          /\ \A p \in Orders : p # o => order'[p] = order[p]
      BY <2>3 DEF JobSynced, SetOrder, TypeOK
    <3>2. t \in Kept(o, new) \/ t \in Armed(o, new) \/ t \in Offer(o, new.status)
      BY <2>3 DEF JobSynced, Synced
    <3>3. CASE t \in Offer(o, new.status)
      BY <2>0, <3>1, <3>3 DEF Fits
    <3>4. CASE t \in Armed(o, new)
      BY <3>1, <3>4 DEF Armed, Deadline, Window, Escalation, Timer, NewlyOffered, Fits
    <3>5. CASE t \in Kept(o, new)
      <4>1. t \in timers
        BY <3>5 DEF Kept, Closed
      <4>2. CASE t[1] # o
        BY <2>0, <3>1, <4>1, <4>2
      <4>3. CASE t[1] = o
        <5>1. Fits(t[2], order[o].status)
          BY <2>0, <4>1, <4>3
        <5>2. \/ NewlyOffered(o, new) /\ t[2] # "resident_timeout"
              \/ new.status = order[o].status
              \/ new.status = "awaiting_resident"
          BY <2>0, <3>5, <4>3 DEF Kept, Closed
        <5> QED BY <3>1, <4>3, <5>1, <5>2 DEF Fits, NewlyOffered
      <4> QED BY <4>2, <4>3
    <3> QED BY <3>2, <3>3, <3>4, <3>5
  <2>4. ASSUME NEW c \in Complaints, SupervisorResolve(c)
        PROVE  Fits(t[2], order'[t[1]].status)
    <3>1. t \in timers /\ order'[t[1]] = order[t[1]]
      BY <2>0, <2>4 DEF SupervisorResolve
    <3> QED BY <2>0, <3>1
  <2> QED BY <2>1, <2>2, <2>3, <2>4, StepsSync DEF SomeJobSynced
<1> QED BY <1>2, <1>3, TypeCorrect, PTL DEF Spec

\* A job never waits for its resident without its deadline, unless timers may
\* retire: whatever leaves a job waiting renews it, and when it fires on a job
\* still waiting it moves the job on.
THEOREM WaitsHaveDeadlines == Spec => []AwaitingHasDeadline
<1>1. Init => AwaitingHasDeadline
  BY DEF Init, AwaitingHasDeadline
<1>2. TypeOK /\ TypeOK' /\ AwaitingHasDeadline /\ [Next]_vars => AwaitingHasDeadline'
  <2> SUFFICES ASSUME TypeOK, TypeOK', AwaitingHasDeadline, [Next]_vars, ~MayRetire,
                      NEW p \in Orders, order'[p].status = "awaiting_resident"
               PROVE  <<p, "resident_timeout">> \in timers'
    BY DEF AwaitingHasDeadline
  <2>1. CASE UNCHANGED vars
    BY <2>1 DEF vars, AwaitingHasDeadline
  <2>2. CASE TimerSpent
    BY <2>2 DEF TimerSpent, AwaitingHasDeadline
  <2>3. ASSUME NEW o \in Orders, NEW new \in OrderRows, JobSynced(o, new)
        PROVE  <<p, "resident_timeout">> \in timers'
    <3>1. /\ order'[o] = new
          /\ \A q \in Orders : q # o => order'[q] = order[q]
          /\ Kept(o, new) \union Armed(o, new) \subseteq timers'
      BY <2>3 DEF JobSynced, SetOrder, TypeOK, Synced
    <3>2. CASE p = o
      BY <3>1, <3>2 DEF Armed, Deadline, Timer
    <3>3. CASE p # o
      <4>1. <<p, "resident_timeout">> \in timers
        BY <3>1, <3>3 DEF AwaitingHasDeadline
      <4>2. <<p, "resident_timeout">> \in Kept(o, new)
        BY <3>3, <4>1 DEF Kept, Closed
      <4> QED BY <3>1, <4>2
    <3> QED BY <3>2, <3>3
  <2>4. ASSUME NEW c \in Complaints, SupervisorResolve(c)
        PROVE  <<p, "resident_timeout">> \in timers'
    <3>1. p \notin CalledOff(c)
      BY <2>4 DEF SupervisorResolve, TypeOK, OrderRows
    <3>2. order'[p] = order[p] /\ timers' = {t \in timers : t[1] \notin CalledOff(c)}
      BY <2>4, <3>1 DEF SupervisorResolve
    <3> QED BY <3>1, <3>2 DEF AwaitingHasDeadline
  <2> QED BY <2>1, <2>2, <2>3, <2>4, StepsSync DEF SomeJobSynced
<1> QED BY <1>1, <1>2, TypeCorrect, PTL DEF Spec

-------------------------------------------------------------------------------
(* How a complaint moves, when the office sets no status by hand.              *)

Settled == {"resolved", "closed"}

\* A settled complaint stays settled, unless it is reopened for good.
SettledStays ==
    \A c \in Complaints :
        /\ complaint[c].reopened = TRUE => complaint'[c].reopened = TRUE
        /\ complaint[c].status \in Settled
           => complaint'[c].status \in Settled \/ complaint'[c].reopened = TRUE

\* A step that writes no complaint, or one that is not settled, or reopens it.
LEMMA WriteComplaintSettled ==
    ASSUME TypeOK, NEW c \in Complaints, NEW row,
           complaint' = [complaint EXCEPT ![c] = row],
           row.reopened = complaint[c].reopened \/ row.reopened = TRUE,
           complaint[c].status \in Settled => row.status \in Settled \/ row.reopened = TRUE
    PROVE  SettledStays
BY DEF TypeOK, SettledStays

\* Nothing but the status is written.
LEMMA WriteStatusSettled ==
    ASSUME TypeOK, NEW c \in Complaints, NEW st,
           complaint' = [complaint EXCEPT ![c] = [complaint[c] EXCEPT !.status = st]],
           complaint[c].status \in Settled => st \in Settled
    PROVE  SettledStays
<1> DEFINE row == [complaint[c] EXCEPT !.status = st]
<1>1. row.status = st /\ row.reopened = complaint[c].reopened
  BY DEF TypeOK, ComplaintRows
<1> HIDE DEF row
<1> QED BY <1>1, WriteComplaintSettled DEF row

\* No complaint is written.
LEMMA SameComplaintsSettled ==
    ASSUME UNCHANGED complaint
    PROVE  SettledStays
BY DEF SettledStays

\* The projection trigger moves open complaints only.
LEMMA AcknowledgedSettled ==
    ASSUME TypeOK, NEW c \in Complaints, complaint' = Acknowledged(c)
    PROVE  SettledStays
<1> DEFINE st == IF complaint[c].status = "open" THEN "acknowledged"
                 ELSE complaint[c].status
<1>1. complaint' = [complaint EXCEPT ![c] = [complaint[c] EXCEPT !.status = st]]
  BY DEF Acknowledged, TypeOK
<1>2. complaint[c].status \in Settled => st \in Settled
  BY DEF Settled
<1> HIDE DEF st
<1> QED BY <1>1, <1>2, WriteStatusSettled

\* The supervisor's verbs on jobs, the raise included.
LEMMA SupervisorSettled == TypeOK /\ SupervisorNext => SettledStays
<1> SUFFICES ASSUME TypeOK, NEW o \in Orders,
                    \/ \E kind \in Kinds, slot \in RaiseSlots : CreateWorkOrder(o, kind, slot)
                    \/ \E kind \in Kinds, high \in Highs : UpdateWorkOrder(o, kind, high)
                    \/ \E slot \in RescheduleSlots : RescheduleWorkOrder(o, slot)
                    \/ \E w \in Staff, slot \in RescheduleSlots \union {NoSlot} :
                          \/ AssignWorkOrder(o, w, slot)
                          \/ BookOutright(o, w, slot)
                    \/ CancelWorkOrder(o)
             PROVE  SettledStays
  BY DEF SupervisorNext, ForceAssignWorkOrder, TakeUpWorkOrder
<1>0. \/ UNCHANGED complaint
      \/ complaint' = Acknowledged(ComplaintOf[o])
      \/ complaint' = OutOfPool(ComplaintOf[o])
  BY DEF CreateWorkOrder, UpdateWorkOrder, RescheduleWorkOrder, AssignWorkOrder,
         BookOutright, Book, CancelWorkOrder
<1> DEFINE c == ComplaintOf[o]
           row == [complaint[c] EXCEPT !.returned = FALSE]
<1>1. c \in Complaints
  BY IdsAssumption
<1>2. CASE complaint' = OutOfPool(c)
  <2>1. complaint' = [complaint EXCEPT ![c] = row]
    BY <1>1, <1>2 DEF OutOfPool, TypeOK
  <2>2. row.status = complaint[c].status /\ row.reopened = complaint[c].reopened
    BY <1>1 DEF TypeOK, ComplaintRows
  <2> HIDE DEF row
  <2> QED BY <1>1, <2>1, <2>2, WriteComplaintSettled
<1> QED BY <1>0, <1>1, <1>2, SameComplaintsSettled, AcknowledgedSettled

\* The workers' verbs.
LEMMA WorkerSettled == TypeOK /\ WorkerNext => SettledStays
<1> SUFFICES ASSUME TypeOK, NEW o \in Orders, NEW w \in Staff,
                    \/ ClaimOpenWorkOrder(o, w)
                    \/ AcceptOffer(o, w)
                    \/ \E away \in Aways : DeclineOffer(o, w, away)
                    \/ StartWorkOrder(o, w)
                    \/ CompleteWorkOrder(o, w)
                    \/ ReportFailure(o, w)
             PROVE  SettledStays
  BY DEF WorkerNext
<1> DEFINE c == ComplaintOf[o]
           st == IF complaint[c].status \in {"open", "acknowledged"} THEN "in_progress"
                 ELSE complaint[c].status
<1>0. c \in Complaints
  BY IdsAssumption
<1>1. \/ UNCHANGED complaint
      \/ complaint' = Acknowledged(c)
      \/ complaint' = [complaint EXCEPT ![c] = [complaint[c] EXCEPT !.status = st]]
      \/ complaint' = [complaint EXCEPT ![c] = [complaint[c] EXCEPT !.status = "resolved"]]
  BY <1>0 DEF ClaimOpenWorkOrder, Book, AcceptOffer, DeclineOffer, StartWorkOrder,
              CompleteWorkOrder, SetComplaint, ReportFailure, TypeOK
<1>2. complaint[c].status \in Settled => st \in Settled
  BY DEF Settled
<1> HIDE DEF c, st
<1>3. "resolved" \in Settled
  BY DEF Settled
<1> QED
  BY <1>0, <1>1, <1>2, <1>3, SameComplaintsSettled, AcknowledgedSettled, WriteStatusSettled
     DEF c

\* Work goes on on a settled complaint only after it was reopened, and a
\* confirmation is overtaken by nothing less.
ReopenedFirst ==
    \A c \in Complaints :
        /\ EndedBusy(c) => complaint[c].reopened = TRUE
        /\ <<c, "confirm">> \in underway
           => complaint[c].status \in Settled \/ complaint[c].reopened = TRUE

\* The residents' verbs: work is called off on a complaint with a live job,
\* which is not settled, or was reopened.
LEMMA ResidentSettled == TypeOK /\ ReopenedFirst /\ ResidentNext => SettledStays
<1>1. ASSUME TypeOK, NEW c \in Complaints, NEW high, RaiseComplaint(c, high)
      PROVE  SettledStays
  <2> DEFINE row == [complaint[c] EXCEPT !.status = "open", !.high = high]
  <2>1. complaint' = [complaint EXCEPT ![c] = row] /\ complaint[c].status = "none"
    BY <1>1 DEF RaiseComplaint, TypeOK
  <2>2. row.reopened = complaint[c].reopened
    BY <1>1 DEF TypeOK, ComplaintRows
  <2>3. complaint[c].status \notin Settled
    BY <2>1 DEF Settled
  <2> HIDE DEF row
  <2> QED BY <1>1, <2>1, <2>2, <2>3, WriteComplaintSettled
<1>2. ASSUME TypeOK, ReopenedFirst, NEW c \in Complaints, NEW o \in Orders,
             NEW repool \in BOOLEAN, ResidentCancelWork(c, o, repool)
      PROVE  SettledStays
  <2> DEFINE row == [complaint[c] EXCEPT !.status = IF repool THEN "open" ELSE "cancelled",
                                         !.returned = complaint[c].returned \/ repool]
  <2>1. complaint' = [complaint EXCEPT ![c] = row]
    BY <1>2 DEF ResidentCancelWork, TypeOK
  <2>2. row.reopened = complaint[c].reopened
    BY <1>2 DEF TypeOK, ComplaintRows
  <2>3. o \in LiveJobs(c)
    BY <1>2 DEF ResidentCancelWork, LiveJobs, Live
  <2>4. complaint[c].status \notin Settled \/ complaint[c].reopened = TRUE
    BY <1>2, <2>3 DEF ReopenedFirst, EndedBusy, Ended, Settled
  <2> HIDE DEF row
  <2> QED BY <1>2, <2>1, <2>2, <2>4, WriteComplaintSettled
<1>3. ASSUME TypeOK, NEW c \in Complaints, ConfirmResolution(c)
      PROVE  SettledStays
  <2>1. "closed" \in Settled
    BY DEF Settled
  <2> QED BY <1>3, <2>1, WriteStatusSettled DEF ConfirmResolution, SetComplaint
<1>4. ASSUME TypeOK, NEW c \in Complaints, ReopenComplaint(c)
      PROVE  SettledStays
  <2> DEFINE row == [complaint[c] EXCEPT !.status = "open", !.reopened = TRUE]
  <2>1. complaint' = [complaint EXCEPT ![c] = row]
    BY <1>4 DEF ReopenComplaint, SetComplaint
  <2>2. row.reopened = TRUE
    BY <1>4 DEF TypeOK, ComplaintRows
  <2> HIDE DEF row
  <2> QED BY <1>4, <2>1, <2>2, WriteComplaintSettled
<1>5. ASSUME NEW o \in Orders,
             \/ \E confirmed \in BOOLEAN : RespondToSchedule(o, confirmed)
             \/ \E slot \in Slots : ResidentSetsTime(o, slot)
      PROVE  SettledStays
  BY <1>5, SameComplaintsSettled DEF RespondToSchedule, ResidentSetsTime
<1>6. ASSUME NEW c \in Complaints, ReadToConfirm(c) \/ ReadToReopen(c)
      PROVE  SettledStays
  BY <1>6, SameComplaintsSettled DEF ReadToConfirm, ReadToReopen, Reads
<1> QED BY <1>1, <1>2, <1>3, <1>4, <1>5, <1>6 DEF ResidentNext

\* The office's verbs, but for the status set by hand.
LEMMA OfficeSettled ==
    ASSUME HandStatuses = {}
    PROVE  TypeOK /\ OfficeNext => SettledStays
<1> SUFFICES ASSUME TypeOK, NEW c \in Complaints,
                    \/ TakeUpComplaint(c)
                    \/ \E high \in Highs : RaisePriority(c, high)
                    \/ SupervisorResolve(c)
             PROVE  SettledStays
  BY DEF OfficeNext
<1>1. CASE TakeUpComplaint(c)
  <2> DEFINE st == IF complaint[c].status = "open" THEN "acknowledged"
                   ELSE complaint[c].status
             row == [complaint[c] EXCEPT !.takenUp = TRUE, !.status = st]
  <2>1. complaint' = [complaint EXCEPT ![c] = row]
    BY <1>1 DEF TakeUpComplaint, TypeOK
  <2>2. row.status = st /\ row.reopened = complaint[c].reopened
    BY DEF TypeOK, ComplaintRows
  <2>3. complaint[c].status \in Settled => st \in Settled
    BY DEF Settled
  <2> HIDE DEF row, st
  <2> QED BY <2>1, <2>2, <2>3, WriteComplaintSettled
<1>2. ASSUME NEW high, RaisePriority(c, high)
      PROVE  SettledStays
  <2> DEFINE row == [complaint[c] EXCEPT !.high = high]
  <2>1. complaint' = [complaint EXCEPT ![c] = row]
    BY <1>2 DEF RaisePriority, TypeOK
  <2>2. row.status = complaint[c].status /\ row.reopened = complaint[c].reopened
    BY DEF TypeOK, ComplaintRows
  <2> HIDE DEF row
  <2> QED BY <2>1, <2>2, WriteComplaintSettled
<1>3. CASE SupervisorResolve(c)
  <2>1. "resolved" \in Settled
    BY DEF Settled
  <2> QED BY <1>3, <2>1, WriteStatusSettled DEF SupervisorResolve, SetComplaint
<1> QED BY <1>1, <1>2, <1>3

\* The dispatcher closes what is resolved and acknowledges what is open.
LEMMA DispatcherSettled == TypeOK /\ DispatcherNext => SettledStays
<1>1. ASSUME TypeOK, NEW o \in Orders,
             FireOrder(o) \/ \E kind \in OrderTimer : RetireTimer(o, kind)
      PROVE  SettledStays
  <2>1. UNCHANGED complaint \/ complaint' = Acknowledged(ComplaintOf[o])
    BY <1>1 DEF FireOrder, FireManualWindow, PingCandidates, FireAutoAssign,
                FireResidentTimeout, ProceedUnanswered, BookFirstAvailable,
                FireFacilityAutoAssign, FireFailedVisitEscalation, RetireTimer,
                Book, Skip, Alert
  <2> QED BY <1>1, <2>1, IdsAssumption, SameComplaintsSettled, AcknowledgedSettled
<1>2. ASSUME TypeOK, NEW c \in Complaints, NEW kind \in ComplaintTimer,
             FireAutoClose(c, kind) \/ RetireComplaintTimer(c, kind)
      PROVE  SettledStays
  <2>1. \/ UNCHANGED complaint
        \/ complaint' = [complaint EXCEPT
                            ![c] = [complaint[c] EXCEPT !.status = "closed"]]
    BY <1>2 DEF FireAutoClose, RetireComplaintTimer, TypeOK
  <2>2. "closed" \in Settled
    BY DEF Settled
  <2> QED BY <1>2, <2>1, <2>2, SameComplaintsSettled, WriteStatusSettled
<1> QED BY <1>1, <1>2 DEF DispatcherNext

\* Every step, given that.
LEMMA StepsSettle ==
    ASSUME HandStatuses = {}
    PROVE  TypeOK /\ ReopenedFirst /\ [Next]_vars => SettledStays
BY SupervisorSettled, WorkerSettled, ResidentSettled, OfficeSettled, DispatcherSettled,
   SameComplaintsSettled DEF Next, vars

\* A confirmation that comes under way has read a resolved complaint.
LEMMA ConfirmationsRead ==
    ASSUME [Next]_vars, NEW c \in Complaints, <<c, "confirm">> \in underway'
    PROVE  \/ <<c, "confirm">> \in underway
           \/ complaint[c].status = "resolved" /\ UNCHANGED complaint
<1>1. CASE SupervisorNext
  <2>1. ASSUME NEW o, NEW w, NEW slot, BookOutright(o, w, slot)
        PROVE  underway' = underway
    BY <2>1 DEF BookOutright
  <2>2. ASSUME NEW o, NEW w, NEW slot,
               AssignWorkOrder(o, w, slot) \/ RescheduleWorkOrder(o, slot)
        PROVE  underway' = underway
    BY <2>2 DEF AssignWorkOrder, RescheduleWorkOrder
  <2>3. ASSUME NEW o, NEW kind, NEW x,
               \/ CreateWorkOrder(o, kind, x) \/ UpdateWorkOrder(o, kind, x)
               \/ CancelWorkOrder(o)
        PROVE  underway' = underway
    BY <2>3 DEF CreateWorkOrder, UpdateWorkOrder, CancelWorkOrder
  <2> QED BY <1>1, <2>1, <2>2, <2>3
          DEF SupervisorNext, ForceAssignWorkOrder, TakeUpWorkOrder
<1>2. CASE WorkerNext \/ OfficeNext
  <2>1. ASSUME NEW o, NEW w, NEW away,
               \/ ClaimOpenWorkOrder(o, w) \/ AcceptOffer(o, w) \/ DeclineOffer(o, w, away)
        PROVE  underway' = underway
    BY <2>1 DEF ClaimOpenWorkOrder, AcceptOffer, DeclineOffer
  <2>2. ASSUME NEW o, NEW w,
               \/ StartWorkOrder(o, w) \/ CompleteWorkOrder(o, w) \/ ReportFailure(o, w)
        PROVE  underway' = underway
    BY <2>2 DEF StartWorkOrder, CompleteWorkOrder, ReportFailure, Finish
  <2>3. ASSUME NEW d, NEW x,
               \/ TakeUpComplaint(d) \/ RaisePriority(d, x)
               \/ SupervisorResolve(d) \/ UpdateComplaint(d, x)
        PROVE  underway' = underway
    BY <2>3 DEF TakeUpComplaint, RaisePriority, SupervisorResolve, UpdateComplaint
  <2> QED BY <1>2, <2>1, <2>2, <2>3 DEF WorkerNext, OfficeNext
<1>3. CASE ResidentNext
  <2>1. ASSUME NEW d \in Complaints, ReadToConfirm(d) \/ ReadToReopen(d)
        PROVE  \/ <<c, "confirm">> \in underway
               \/ complaint[c].status = "resolved" /\ UNCHANGED complaint
    BY <2>1 DEF ReadToConfirm, ReadToReopen, Reads, MayConfirm
  <2>2. ASSUME NEW d \in Complaints, ConfirmResolution(d) \/ ReopenComplaint(d)
        PROVE  <<c, "confirm">> \in underway
    BY <2>2 DEF ConfirmResolution, ReopenComplaint, Writes
  <2> QED BY <1>3, <2>1, <2>2 DEF ResidentNext, RaiseComplaint, ResidentCancelWork,
                                  RespondToSchedule, ResidentSetsTime
<1>4. CASE DispatcherNext
  BY <1>4 DEF DispatcherNext, FireOrder, FireManualWindow, FireAutoAssign,
              FireResidentTimeout, FireFacilityAutoAssign, FireFailedVisitEscalation,
              FireAutoClose, RetireTimer, RetireComplaintTimer
<1>5. CASE UNCHANGED vars
  BY <1>5 DEF vars
<1> QED BY <1>1, <1>2, <1>3, <1>4, <1>5 DEF Next

\* While the office sets no status by hand.
LEMMA AlwaysReopenedFirst ==
    ASSUME HandStatuses = {}
    PROVE  Spec => []ReopenedFirst
<1>1. Init => ReopenedFirst
  BY DEF Init, ReopenedFirst, EndedBusy, LiveJobs, JobsOf, Live
<1>2. TypeOK /\ OneLiveJob /\ ReopenedFirst /\ [Next]_vars => ReopenedFirst'
  <2> SUFFICES ASSUME TypeOK, OneLiveJob, ReopenedFirst, [Next]_vars, NEW c \in Complaints
               PROVE  /\ EndedBusy(c)' => complaint'[c].reopened = TRUE
                      /\ <<c, "confirm">> \in underway'
                         => \/ complaint'[c].status \in Settled
                            \/ complaint'[c].reopened = TRUE
    BY DEF ReopenedFirst
  <2>1. SettledStays
    BY StepsSettle
  <2>2. EndedBusy(c)' => EndedBusy(c) \/ ConfirmedLate(c)
    <3>1. HandStatuses \intersect Ended = {}
      OBVIOUS
    <3> QED BY <3>1, StepsStayIdle DEF StaysIdle
  <2>3. ConfirmedLate(c) => complaint[c].reopened = TRUE
    BY DEF ConfirmedLate, ConfirmResolution, Writes, MayConfirm, ReopenedFirst, Settled
  <2>4. complaint[c].reopened = TRUE => complaint'[c].reopened = TRUE
    BY <2>1 DEF SettledStays
  <2>5. EndedBusy(c) => complaint[c].reopened = TRUE
    BY DEF ReopenedFirst
  <2>6. ASSUME <<c, "confirm">> \in underway'
        PROVE  complaint'[c].status \in Settled \/ complaint'[c].reopened = TRUE
    <3>1. CASE <<c, "confirm">> \in underway
      BY <2>1, <3>1 DEF ReopenedFirst, SettledStays
    <3>2. CASE complaint[c].status = "resolved" /\ UNCHANGED complaint
      BY <3>2 DEF Settled
    <3> QED BY <2>6, <3>1, <3>2, ConfirmationsRead
  <2> QED BY <2>2, <2>3, <2>4, <2>5, <2>6
<1> QED BY <1>1, <1>2, TypeCorrect, OneJobAtATime, PTL DEF Spec

-------------------------------------------------------------------------------
(* Failed visits.                                                              *)

\* A job that was raised stays one.
LEMMA RaisedJobsStay ==
    ASSUME Agree, [Next]_vars, NEW o \in Orders, order[o].status # "none"
    PROVE  order'[o].status # "none"
<1>1. CASE Quiet
  BY <1>1 DEF Quiet, Same
<1>2. ASSUME NEW p \in Orders, JobStep(p)
      PROVE  order'[o].status # "none"
  BY <1>2 DEF JobStep, Same, Raised, MovedOn, WrittenOff, FinishedBy, Live, Done
<1> QED BY <1>1, <1>2, StepsOfJobs DEF Agree, SomeJobStep

\* A failed visit that no newer job answers, on a complaint still in play, waits
\* to be escalated or has been. That no status is set by hand is needed: by hand
\* a complaint may leave and return to play around the escalation. So is that
\* timers do not retire.
THEOREM FailuresAreSeen ==
    ASSUME HandStatuses = {}, ~MayRetire
    PROVE  Spec => []FailedVisitIsSeen
<1> DEFINE Inv == TypeOK /\ Agree /\ ReopenedFirst
           Unanswered(o) ==
              /\ order[o].status = "failed"
              /\ \A p \in JobsOf(ComplaintOf[o]) : p > o => order[p].status = "none"
              /\ complaint[ComplaintOf[o]].status \notin Settled
              /\ complaint[ComplaintOf[o]].reopened # TRUE
           Waits(o) == o \in alerted \/ <<o, "failed_visit_escalation">> \in timers
<1>1. TypeOK => (FailedVisitIsSeen <=> \A o \in Orders : Unanswered(o) => Waits(o))
  BY IdsAssumption DEF FailedVisitIsSeen, TypeOK, ComplaintRows, Settled
<1>2. Init => FailedVisitIsSeen
  BY DEF Init, FailedVisitIsSeen
<1>3. Inv /\ Inv' /\ FailedVisitIsSeen /\ [Next]_vars => FailedVisitIsSeen'
  <2> SUFFICES ASSUME Inv, TypeOK', FailedVisitIsSeen, [Next]_vars,
                      NEW o \in Orders, Unanswered(o)'
               PROVE  Waits(o)'
    BY IdsAssumption DEF FailedVisitIsSeen, TypeOK, ComplaintRows, Settled
  <2>1. SettledStays /\ ComplaintOf[o] \in Complaints
    BY IdsAssumption, StepsSettle
  <2>2. ASSUME order[o].status = "failed"
        PROVE  Unanswered(o) /\ Waits(o) /\ ~Answered(o)
    <3>1. /\ complaint[ComplaintOf[o]].status \notin Settled
          /\ complaint[ComplaintOf[o]].reopened # TRUE
      BY <2>1 DEF SettledStays
    <3>2. \A p \in JobsOf(ComplaintOf[o]) : p > o => order[p].status = "none"
      BY RaisedJobsStay DEF JobsOf
    <3>3. Unanswered(o) /\ Waits(o)
      BY <1>1, <2>2, <3>1, <3>2
    <3> QED BY <3>1, <3>2, <3>3 DEF Answered, Settled
  <2>3. CASE UNCHANGED vars
    BY <1>1, <2>3 DEF vars, JobsOf
  <2>4. CASE TimerSpent
    <3>1. /\ \A p \in Orders : order'[p].status = order[p].status
          /\ alerted \subseteq alerted'
          /\ <<o, "failed_visit_escalation">> \in timers =>
                \/ <<o, "failed_visit_escalation">> \in timers'
                \/ o \in alerted' \/ Answered(o)
      BY <2>4 DEF TimerSpent
    <3> QED BY <2>2, <3>1
  <2>5. ASSUME NEW p \in Orders, NEW new \in OrderRows, JobSynced(p, new)
        PROVE  Waits(o)'
    <3>1. /\ order'[p] = new
          /\ \A q \in Orders : q # p => order'[q] = order[q]
          /\ Kept(p, new) \union Armed(p, new) \subseteq timers'
          /\ alerted \ {p} \subseteq alerted'
      BY <2>5 DEF JobSynced, SetOrder, TypeOK, Synced
    <3>2. CASE p = o
      <4>1. new.status = "failed"
        BY <3>1, <3>2
      <4>2. <<o, "failed_visit_escalation">> \in Armed(p, new)
        BY <3>2, <4>1 DEF Armed, Escalation, Timer
      <4> QED BY <3>1, <4>2
    <3>3. CASE p # o
      <4>1. Waits(o)
        BY <2>2, <3>1, <3>3
      <4>2. <<o, "failed_visit_escalation">> \in timers
            => <<o, "failed_visit_escalation">> \in Kept(p, new)
        BY <3>3 DEF Kept, Closed
      <4> QED BY <3>1, <3>3, <4>1, <4>2
    <3> QED BY <3>2, <3>3
  <2>6. ASSUME NEW c \in Complaints, SupervisorResolve(c)
        PROVE  Waits(o)'
    <3>1. \A p \in Orders : order'[p] = order[p] \/ order'[p].status = "cancelled"
      BY <2>6 DEF SupervisorResolve, TypeOK, OrderRows
    <3>2. order[o].status = "failed" /\ order'[o] = order[o]
      BY <3>1
    <3>3. o \notin CalledOff(c)
      BY <3>2 DEF CalledOff, LiveJobs, Live
    <3> QED BY <2>2, <2>6, <3>1, <3>2, <3>3 DEF SupervisorResolve
  <2> QED BY <2>3, <2>4, <2>5, <2>6, StepsSync DEF SomeJobSynced
<1> HIDE DEF Inv
<1> QED BY <1>2, <1>3, AlwaysReopenedFirst, TypeCorrect, AlwaysAgree, PTL DEF Spec, Inv

-------------------------------------------------------------------------------
(* Jobs on offer.                                                              *)

Open == {"offered", "accepted"}

\* A job nobody has been asked for yet has no open row, one that is on offer or
\* proposed to its resident has a time, and one on offer is watched: by its staff,
\* by the automatic booking, or, with nobody asked, by the manual window.
Watched(o) ==
    \/ o \in alerted
    \/ <<o, "auto_assign">> \in timers
    \/ <<o, "manual_window">> \in timers /\ Holding(o, Open) = {}
CaredFor(o) ==
    /\ order[o].status \in {"none", "draft", "awaiting_resident"} => Holding(o, Open) = {}
    /\ order[o].status \in {"awaiting_resident", "offered"} => order[o].slot # NoSlot
    /\ order[o].status = "offered" => Watched(o)
Cared == \A o \in Orders : CaredFor(o)

\* A step that writes one job answers for that job only.
LEMMA OneJobCared ==
    ASSUME TypeOK, Cared, NEW o \in Orders, NEW new, NEW rows,
           SetOrder(o, new), asg' = [asg EXCEPT ![o] = rows],
           Synced(o, new) \subseteq timers', alerted \ {o} \subseteq alerted',
           CaredFor(o)'
    PROVE  Cared'
<1> SUFFICES ASSUME NEW p \in Orders, p # o PROVE CaredFor(p)'
  BY DEF Cared
<1>1. order'[p] = order[p] /\ asg'[p] = asg[p]
  BY DEF TypeOK, SetOrder
<1>2. \A kind : <<p, kind>> \in timers => <<p, kind>> \in timers'
  BY DEF Synced, Kept, Closed
<1> QED BY <1>1, <1>2 DEF Cared, CaredFor, Watched, Holding

\* So does one that leaves the rows alone.
LEMMA OneStatusCared ==
    ASSUME TypeOK, Cared, NEW o \in Orders, NEW new, SetOrder(o, new), UNCHANGED asg,
           Synced(o, new) \subseteq timers', alerted \ {o} \subseteq alerted',
           CaredFor(o)'
    PROVE  Cared'
<1>1. asg' = [asg EXCEPT ![o] = asg[o]]
  BY DEF TypeOK
<1> QED BY <1>1, OneJobCared

\* A job with somebody on it, or over, needs no care.
LEMMA TakenIsCared ==
    ASSUME TypeOK, NEW o \in Orders, NEW new, SetOrder(o, new),
           new.status \in {"scheduled", "in_progress", "completed", "failed", "cancelled"}
    PROVE  CaredFor(o)'
BY DEF TypeOK, SetOrder, CaredFor

\* A job that becomes offered with nobody asked has its manual window.
LEMMA OfferedIsCared ==
    ASSUME TypeOK, NEW o \in Orders, NEW new, SetOrder(o, new), UNCHANGED asg,
           Synced(o, new) \subseteq timers',
           order[o].status # "offered", Holding(o, Open) = {},
           new.status = "offered", new.slot # NoSlot
    PROVE  CaredFor(o)'
<1>1. <<o, "manual_window">> \in timers'
  BY DEF Synced, Armed, Window, Timer, NewlyOffered
<1>2. order'[o] = new
  BY DEF TypeOK, SetOrder
<1> QED BY <1>1, <1>2 DEF CaredFor, Watched, Holding

\* A timer goes; if it watched a job on offer, somebody else does.
LEMMA FiredIsCared ==
    ASSUME Cared, NEW o \in Orders, NEW kind, UNCHANGED <<order, asg>>,
           timers' = Fired(o, kind), alerted \subseteq alerted',
           order[o].status = "offered" =>
              \/ kind \notin {"auto_assign", "manual_window"}
              \/ o \in alerted'
              \/ kind = "manual_window" /\ Holding(o, Open) # {}
    PROVE  Cared'
<1> SUFFICES ASSUME NEW p \in Orders PROVE CaredFor(p)'
  BY DEF Cared
<1>1. CASE p # o
  BY <1>1 DEF Cared, CaredFor, Watched, Holding, Fired
<1>2. CASE p = o
  BY <1>2 DEF Cared, CaredFor, Watched, Holding, Fired
<1> QED BY <1>1, <1>2

\* Jobs keep their times, their rows and their timers.
LEMMA SameJobsCared ==
    ASSUME Cared, UNCHANGED <<asg, timers>>, alerted \subseteq alerted',
           \A o \in Orders : order'[o].status = order[o].status /\ order'[o].slot = order[o].slot
    PROVE  Cared'
BY DEF Cared, CaredFor, Watched, Holding

\* Booking a job.
LEMMA BookCared ==
    ASSUME TypeOK, Cared, NEW o \in Orders, NEW w, NEW slot, NEW ended,
           Book(o, w, slot, ended), UNCHANGED alerted
    PROVE  Cared'
<1> DEFINE new == [order[o] EXCEPT !.status = "scheduled", !.slot = slot]
           rows == [Withdraw(asg[o], ended) EXCEPT ![w] = Row("accepted", slot)]
<1>1. SetOrder(o, new) /\ timers' = Synced(o, new) /\ asg' = [asg EXCEPT ![o] = rows]
  BY DEF Book, TypeOK
<1>2. new.status = "scheduled"
  BY DEF TypeOK, OrderRows
<1> HIDE DEF new, rows
<1> QED BY <1>1, <1>2, TakenIsCared, OneJobCared

\* A job written together with its timers becomes taken or over.
LEMMA TakenKeepsCare ==
    ASSUME TypeOK, Cared, NEW o \in Orders, NEW new, NEW rows,
           SetOrder(o, new), asg' = [asg EXCEPT ![o] = rows],
           timers' = Synced(o, new), alerted \ {o} \subseteq alerted',
           new.status \in {"scheduled", "in_progress", "completed", "failed", "cancelled"}
    PROVE  Cared'
BY TakenIsCared, OneJobCared

\* The supervisor's verbs, with no job moved while somebody has an offer of it
\* and none raised without a time.
LEMMA SupervisorCared ==
    ASSUME NoSlot \notin RaiseSlots
    PROVE  TypeOK /\ Cared /\ SupervisorNext /\ ~MovedUnderOffer => Cared'
<1> SUFFICES ASSUME TypeOK, Cared, ~MovedUnderOffer, NEW o \in Orders,
                    \/ \E kind \in Kinds, slot \in RaiseSlots : CreateWorkOrder(o, kind, slot)
                    \/ \E kind \in Kinds, high \in Highs : UpdateWorkOrder(o, kind, high)
                    \/ \E slot \in RescheduleSlots : RescheduleWorkOrder(o, slot)
                    \/ \E w \in Staff, slot \in RescheduleSlots \union {NoSlot} :
                          \/ AssignWorkOrder(o, w, slot)
                          \/ BookOutright(o, w, slot)
                    \/ CancelWorkOrder(o)
             PROVE  Cared'
  BY DEF SupervisorNext, ForceAssignWorkOrder, TakeUpWorkOrder
<1>1. ASSUME NEW kind, NEW slot \in RaiseSlots, CreateWorkOrder(o, kind, slot)
      PROVE  Cared'
  <2> DEFINE new == [status |-> IF kind = "resident" THEN "awaiting_resident"
                                ELSE IF slot = NoSlot THEN "draft" ELSE "offered",
                     kind |-> kind, slot |-> slot,
                     high |-> complaint[ComplaintOf[o]].high, byResident |-> FALSE]
  <2>1. /\ order[o].status = "none" /\ SetOrder(o, new) /\ timers' = Synced(o, new)
        /\ alerted' = Unalerted(o, new) /\ UNCHANGED asg
    BY <1>1 DEF CreateWorkOrder
  <2>2. new.slot # NoSlot /\ new.status \in {"awaiting_resident", "offered"}
    BY <1>1
  <2>3. Holding(o, Open) = {}
    BY <2>1 DEF Cared, CaredFor
  <2> HIDE DEF new
  <2>4. CaredFor(o)'
    <3>1. CASE new.status = "offered"
      BY <2>1, <2>2, <2>3, <3>1, OfferedIsCared
    <3>2. CASE new.status = "awaiting_resident"
      <4>1. order'[o] = new
        BY <2>1 DEF SetOrder, TypeOK
      <4> QED BY <2>1, <2>2, <2>3, <3>2, <4>1 DEF CaredFor, Holding
    <3> QED BY <2>2, <3>1, <3>2
  <2> QED BY <2>1, <2>4, OneStatusCared, OthersStayAlerted
<1>2. ASSUME NEW kind, NEW high, UpdateWorkOrder(o, kind, high)
      PROVE  Cared'
  <2>1. \A p \in Orders : order'[p].status = order[p].status /\ order'[p].slot = order[p].slot
    BY <1>2 DEF UpdateWorkOrder, SetOrder, TypeOK, OrderRows
  <2> QED BY <1>2, <2>1, SameJobsCared DEF UpdateWorkOrder
<1>3. ASSUME NEW w, NEW slot, AssignWorkOrder(o, w, slot)
      PROVE  Cared'
  <2> DEFINE at == TimeFor(o, slot)
             new == [order[o] EXCEPT !.status = "offered", !.slot = at]
             rows == [Withdraw(asg[o], Open) EXCEPT ![w] = Row("offered", at)]
  <2>1. /\ at # NoSlot /\ SetOrder(o, new) /\ asg' = [asg EXCEPT ![o] = rows]
        /\ timers' = Synced(o, new) \union {<<o, "auto_assign">>}
        /\ alerted' = Unalerted(o, new)
    BY <1>3 DEF AssignWorkOrder, TypeOK, Open
  <2>2. new.status = "offered" /\ new.slot = at
    BY DEF TypeOK, OrderRows
  <2> HIDE DEF new, rows, at
  <2>3. order'[o] = new
    BY <2>1 DEF SetOrder, TypeOK
  <2>4. CaredFor(o)'
    BY <2>1, <2>2, <2>3 DEF CaredFor, Watched
  <2> QED BY <2>1, <2>4, OneJobCared, OthersStayAlerted
<1>4. ASSUME NEW w, NEW slot, BookOutright(o, w, slot)
      PROVE  Cared'
  BY <1>4, BookCared DEF BookOutright
<1>5. ASSUME CancelWorkOrder(o)
      PROVE  Cared'
  <2> DEFINE new == [order[o] EXCEPT !.status = "cancelled"]
             rows == Withdraw(asg[o], Open)
  <2>1. /\ SetOrder(o, new) /\ asg' = [asg EXCEPT ![o] = rows]
        /\ timers' = Synced(o, new) /\ UNCHANGED alerted
    BY <1>5 DEF CancelWorkOrder, TypeOK, Open
  <2>2. new.status = "cancelled"
    BY DEF TypeOK, OrderRows
  <2> HIDE DEF new, rows
  <2> QED BY <2>1, <2>2, TakenKeepsCare
<1>6. ASSUME NEW slot \in RescheduleSlots, RescheduleWorkOrder(o, slot)
      PROVE  Cared'
  <2> DEFINE holder == Holding(o, {"accepted"})
             new == [order[o] EXCEPT
                        !.slot = slot,
                        !.status = IF holder # {} THEN "scheduled"
                                   ELSE IF order[o].kind = "resident"
                                   THEN "awaiting_resident" ELSE "offered"]
             rows == [w \in Staff |-> IF w \in holder THEN Row("accepted", slot) ELSE asg[o][w]]
  <2>1. /\ SetOrder(o, new) /\ asg' = [asg EXCEPT ![o] = rows] /\ timers' = Synced(o, new)
        /\ alerted' = Unalerted(o, new)
    BY <1>6 DEF RescheduleWorkOrder, TypeOK
  <2>2. /\ new.slot = slot /\ slot # NoSlot
        /\ new.status \in {"scheduled", "awaiting_resident", "offered"}
        /\ holder # {} => new.status = "scheduled"
    BY SlotsAssumption DEF TypeOK, OrderRows
  <2>3. holder = {} => Holding(o, Open) = {} /\ UNCHANGED asg
    <3>1. Holding(o, {"offered"}) = {}
      BY <1>6 DEF MovedUnderOffer
    <3>2. holder = {} => rows = asg[o]
      BY DEF TypeOK
    <3> HIDE DEF rows
    <3> QED BY <2>1, <3>1, <3>2 DEF TypeOK, Holding, Open
  <2>4. order'[o] = new
    BY <2>1 DEF SetOrder, TypeOK
  <2> HIDE DEF new, rows, holder
  <2>5. CASE holder # {}
    BY <2>1, <2>2, <2>5, TakenIsCared, OneJobCared, OthersStayAlerted
  <2>6. ASSUME holder = {} PROVE CaredFor(o)'
    <3>1. CASE new.status \in {"scheduled", "awaiting_resident"}
      BY <2>2, <2>3, <2>4, <2>6, <3>1 DEF CaredFor, Holding
    <3>2. CASE new.status = "offered" /\ NewlyOffered(o, new)
      <4>1. <<o, "manual_window">> \in timers'
        BY <2>1, <3>2 DEF Synced, Armed, Window, Timer
      <4> QED BY <2>2, <2>3, <2>4, <2>6, <4>1 DEF CaredFor, Watched, Holding
    <3>3. CASE new.status = "offered" /\ ~NewlyOffered(o, new)
      <4>1. order[o].status = "offered" /\ alerted' = alerted /\ timers \subseteq timers'
        BY <2>1, <3>3 DEF NewlyOffered, Unalerted, Synced, Kept
      <4> QED BY <2>2, <2>3, <2>4, <2>6, <3>3, <4>1 DEF Cared, CaredFor, Watched, Holding
    <3> QED BY <2>2, <3>1, <3>2, <3>3
  <2>7. CASE holder = {}
    BY <2>1, <2>6, <2>7, OneJobCared, OthersStayAlerted
  <2> QED BY <2>5, <2>7
<1> QED BY <1>1, <1>2, <1>3, <1>4, <1>5, <1>6

\* The workers' verbs: a decline leaves the automatic booking armed.
LEMMA WorkerCared == TypeOK /\ Cared /\ WorkerNext => Cared'
<1> SUFFICES ASSUME TypeOK, Cared, NEW o \in Orders, NEW w \in Staff,
                    \/ ClaimOpenWorkOrder(o, w)
                    \/ AcceptOffer(o, w)
                    \/ \E away \in Aways : DeclineOffer(o, w, away)
                    \/ StartWorkOrder(o, w)
                    \/ CompleteWorkOrder(o, w)
                    \/ ReportFailure(o, w)
             PROVE  Cared'
  BY DEF WorkerNext
<1>1. CASE ClaimOpenWorkOrder(o, w)
  BY <1>1, BookCared DEF ClaimOpenWorkOrder
<1>2. CASE AcceptOffer(o, w)
  <2> DEFINE new == [order[o] EXCEPT !.status = "scheduled"]
             rows == [Withdraw(asg[o], Open) EXCEPT ![w] = Row("accepted", asg[o][w].slot)]
  <2>1. /\ SetOrder(o, new) /\ asg' = [asg EXCEPT ![o] = rows]
        /\ timers' = Synced(o, new) /\ UNCHANGED alerted
    BY <1>2 DEF AcceptOffer, TypeOK, Open
  <2>2. new.status = "scheduled"
    BY DEF TypeOK, OrderRows
  <2> HIDE DEF new, rows
  <2> QED BY <2>1, <2>2, TakenKeepsCare
<1>3. ASSUME NEW away, DeclineOffer(o, w, away)
      PROVE  Cared'
  <2> DEFINE new  == [order[o] EXCEPT !.status = "scheduled"]
             rows == [asg[o] EXCEPT ![w] = Row("declined", NoSlot)]
             forced(f) == [Withdraw(rows, {"offered"}) EXCEPT
                              ![f] = Row("accepted", order[o].slot)]
  <2>1. alerted \subseteq alerted' /\ asg[o][w].st = "offered"
    BY <1>3 DEF DeclineOffer
  <2>2. \/ \E f : /\ asg' = [asg EXCEPT ![o] = forced(f)]
                  /\ SetOrder(o, new) /\ timers' = Synced(o, new)
        \/ asg' = [asg EXCEPT ![o] = rows] /\ UNCHANGED <<order, timers>>
    BY <1>3 DEF DeclineOffer
  <2>3. new.status = "scheduled"
    BY DEF TypeOK, OrderRows
  <2>4. ASSUME NEW f, asg' = [asg EXCEPT ![o] = forced(f)],
               SetOrder(o, new), timers' = Synced(o, new)
        PROVE  Cared'
    <3> HIDE DEF new, forced
    <3> QED BY <2>1, <2>3, <2>4, TakenKeepsCare
  <2>5. ASSUME asg' = [asg EXCEPT ![o] = rows], UNCHANGED <<order, timers>>,
               NEW p \in Orders
        PROVE  CaredFor(p)'
    <3>1. CASE p # o
      <4>1. asg'[p] = asg[p]
        BY <2>5, <3>1 DEF TypeOK
      <4> QED BY <2>1, <2>5, <4>1 DEF Cared, CaredFor, Watched, Holding
    <3>2. CASE p = o
      <4>1. CaredFor(o) /\ Holding(o, Open) # {}
        BY <2>1 DEF Cared, Holding, Open
      <4> QED BY <2>1, <2>5, <3>2, <4>1 DEF CaredFor, Watched
    <3> QED BY <3>1, <3>2
  <2> QED BY <2>2, <2>4, <2>5 DEF Cared
<1>4. CASE StartWorkOrder(o, w)
  <2> DEFINE new == [order[o] EXCEPT !.status = "in_progress"]
  <2>1. /\ SetOrder(o, new) /\ UNCHANGED asg
        /\ timers' = Synced(o, new) /\ UNCHANGED alerted
    BY <1>4 DEF StartWorkOrder
  <2>2. new.status = "in_progress"
    BY DEF TypeOK, OrderRows
  <2> HIDE DEF new
  <2> QED BY <2>1, <2>2, TakenIsCared, OneStatusCared
<1>5. ASSUME NEW rowst, NEW st \in {"completed", "failed"}, NEW alerts,
             Finish(o, w, rowst, st, alerts), alerted \ {o} \subseteq alerts
      PROVE  Cared'
  <2> DEFINE new == [order[o] EXCEPT !.status = st]
             rows == [asg[o] EXCEPT ![w] = Row(rowst, NoSlot)]
  <2>1. /\ SetOrder(o, new) /\ asg' = [asg EXCEPT ![o] = rows]
        /\ timers' = Synced(o, new) /\ alerted' = alerts
    BY <1>5 DEF Finish, TypeOK
  <2>2. new.status = st
    BY DEF TypeOK, OrderRows
  <2> HIDE DEF new, rows
  <2> QED BY <1>5, <2>1, <2>2, TakenKeepsCare
<1>6. CompleteWorkOrder(o, w) \/ ReportFailure(o, w) => Cared'
  BY <1>5 DEF CompleteWorkOrder, ReportFailure
<1> QED BY <1>1, <1>2, <1>3, <1>4, <1>6

\* The residents' verbs: a proposed time that is confirmed stands, so nothing is
\* left for the resident to set.
LEMMA ResidentCared == TypeOK /\ Cared /\ ResidentNext => Cared'
<1>1. ASSUME TypeOK, Cared, NEW c \in Complaints, NEW o \in Orders, NEW repool,
             ResidentCancelWork(c, o, repool)
      PROVE  Cared'
  <2> DEFINE new == [order[o] EXCEPT !.status = "cancelled", !.byResident = TRUE]
             rows == Withdraw(asg[o], Open)
  <2>1. /\ SetOrder(o, new) /\ asg' = [asg EXCEPT ![o] = rows]
        /\ timers' = Synced(o, new) /\ UNCHANGED alerted
    BY <1>1 DEF ResidentCancelWork, TypeOK, Open
  <2>2. new.status = "cancelled"
    BY <1>1 DEF TypeOK, OrderRows
  <2> HIDE DEF new, rows
  <2> QED BY <1>1, <2>1, <2>2, TakenKeepsCare
<1>2. ASSUME TypeOK, Cared, NEW o \in Orders, NEW confirmed, RespondToSchedule(o, confirmed)
      PROVE  Cared'
  <2> DEFINE new == IF confirmed THEN [order[o] EXCEPT !.status = "offered"]
                    ELSE [order[o] EXCEPT !.status = "draft", !.slot = NoSlot]
  <2>1. /\ SetOrder(o, new) /\ timers' = Synced(o, new) /\ UNCHANGED asg
        /\ alerted' = Unalerted(o, new) /\ order[o].status = "awaiting_resident"
    BY <1>2 DEF RespondToSchedule
  <2>2. \/ new.status = "offered" /\ new.slot = order[o].slot
        \/ new.status = "draft"
    BY <1>2 DEF TypeOK, OrderRows
  <2>3. Holding(o, Open) = {} /\ order[o].slot # NoSlot
    BY <1>2, <2>1 DEF Cared, CaredFor
  <2> HIDE DEF new
  <2>4. CaredFor(o)'
    <3>1. CASE new.status = "offered" /\ new.slot = order[o].slot
      BY <1>2, <2>1, <2>3, <3>1, OfferedIsCared
    <3>2. CASE new.status = "draft"
      <4>1. order'[o] = new
        BY <1>2, <2>1 DEF SetOrder, TypeOK
      <4> QED BY <2>1, <2>3, <3>2, <4>1 DEF CaredFor, Holding
    <3> QED BY <2>2, <3>1, <3>2
  <2> QED BY <1>2, <2>1, <2>4, OneStatusCared, OthersStayAlerted
<1>3. ASSUME Cared, NEW o \in Orders, NEW slot, ResidentSetsTime(o, slot)
      PROVE  FALSE
  BY <1>3 DEF Cared, CaredFor, ResidentSetsTime
<1>4. ASSUME Cared, NEW c \in Complaints,
             \/ \E high \in Highs : RaiseComplaint(c, high)
             \/ ReadToConfirm(c) \/ ConfirmResolution(c)
             \/ ReadToReopen(c) \/ ReopenComplaint(c)
      PROVE  Cared'
  BY <1>4, SameJobsCared DEF RaiseComplaint, ReadToConfirm, ReadToReopen, Reads,
                             ConfirmResolution, ReopenComplaint
<1> QED BY <1>1, <1>2, <1>3, <1>4 DEF ResidentNext

\* The office's verbs.
LEMMA OfficeCared == TypeOK /\ Cared /\ OfficeNext => Cared'
<1>1. ASSUME Cared, NEW c \in Complaints,
             TakeUpComplaint(c) \/ \E st \in HandStatuses : UpdateComplaint(c, st)
      PROVE  Cared'
  BY <1>1, SameJobsCared DEF TakeUpComplaint, UpdateComplaint
<1>2. ASSUME TypeOK, Cared, NEW c \in Complaints, NEW high, RaisePriority(c, high)
      PROVE  Cared'
  <2>1. \A o \in Orders : order'[o].status = order[o].status /\ order'[o].slot = order[o].slot
    BY <1>2 DEF RaisePriority, TypeOK, OrderRows
  <2> QED BY <1>2, <2>1, SameJobsCared DEF RaisePriority
<1>3. ASSUME TypeOK, Cared, NEW c \in Complaints, SupervisorResolve(c), NEW o \in Orders
      PROVE  CaredFor(o)'
  <2>1. CASE o \in CalledOff(c)
    <3>1. order'[o].status = "cancelled"
      BY <1>3, <2>1 DEF SupervisorResolve, TypeOK, OrderRows
    <3> QED BY <3>1 DEF CaredFor
  <2>2. CASE o \notin CalledOff(c)
    <3>1. /\ order'[o] = order[o] /\ asg'[o] = asg[o] /\ alerted' = alerted
          /\ \A kind : <<o, kind>> \in timers => <<o, kind>> \in timers'
      BY <1>3, <2>2 DEF SupervisorResolve
    <3> QED BY <1>3, <3>1 DEF Cared, CaredFor, Watched, Holding
  <2> QED BY <2>1, <2>2
<1> QED BY <1>1, <1>2, <1>3 DEF OfficeNext, Cared

\* The dispatcher's handlers: the manual window ends in offers, with the
\* automatic booking armed, or with the staff told.
LEMMA DispatcherCared ==
    ASSUME ~MayRetire
    PROVE  TypeOK /\ Cared /\ DispatcherNext => Cared'
<1>1. ASSUME Cared, NEW o \in Orders, NEW kind, Alert(o, kind)
      PROVE  Cared'
  BY <1>1, FiredIsCared DEF Alert
<1>2. ASSUME Cared, NEW o \in Orders, NEW kind, Skip(o, kind),
             order[o].status = "offered" =>
                \/ kind \notin {"auto_assign", "manual_window"}
                \/ kind = "manual_window" /\ Holding(o, Open) # {}
      PROVE  Cared'
  BY <1>2, FiredIsCared DEF Skip
<1>3. ASSUME TypeOK, Cared, NEW o \in Orders, BookFirstAvailable(o), UNCHANGED alerted
      PROVE  Cared'
  BY <1>3, BookCared DEF BookFirstAvailable
<1>4. ASSUME TypeOK, Cared, NEW o \in Orders, NEW away, NEW picked,
             FireManualWindow(o, away, picked)
      PROVE  Cared'
  <2>1. order[o].status = "offered" => order[o].slot # NoSlot
    BY <1>4 DEF Cared, CaredFor
  <2>2. CASE order[o].status = "offered" /\ Holding(o, Open) = {}
    <3>1. PingCandidates(o, "manual_window", away, picked)
      BY <1>4, <2>2 DEF FireManualWindow, Open
    <3>2. CASE Alert(o, "manual_window")
      BY <1>1, <1>4, <3>2
    <3>3. ASSUME NEW rows, asg' = [asg EXCEPT ![o] = rows],
                 timers' = Fired(o, "manual_window") \union {<<o, "auto_assign">>},
                 UNCHANGED <<order, alerted>>, NEW p \in Orders
          PROVE  CaredFor(p)'
      <4>1. CASE p = o
        BY <2>1, <2>2, <3>3, <4>1 DEF CaredFor, Watched
      <4>2. CASE p # o
        <5>1. asg'[p] = asg[p]
          BY <1>4, <3>3, <4>2 DEF TypeOK
        <5> QED BY <1>4, <3>3, <4>2, <5>1 DEF Cared, CaredFor, Watched, Holding, Fired
      <4> QED BY <4>1, <4>2
    <3> DEFINE sent == {w \in picked : asg[o][w].st # "offered"}
               rows == [w \in Staff |-> IF w \in sent THEN Row("offered", order[o].slot)
                                        ELSE asg[o][w]]
    <3>4. \/ Alert(o, "manual_window")
          \/ /\ asg' = [asg EXCEPT ![o] = rows]
             /\ timers' = Fired(o, "manual_window") \union {<<o, "auto_assign">>}
             /\ UNCHANGED <<order, alerted>>
      BY <2>1, <2>2, <3>1 DEF PingCandidates
    <3> HIDE DEF rows
    <3> QED BY <3>2, <3>3, <3>4 DEF Cared
  <2>3. CASE ~(order[o].status = "offered" /\ Holding(o, Open) = {})
    <3>1. Skip(o, "manual_window")
      BY <1>4, <2>3 DEF FireManualWindow, Open
    <3> QED BY <1>2, <1>4, <2>3, <3>1
  <2> QED BY <2>2, <2>3
<1>5. ASSUME TypeOK, Cared, NEW o \in Orders, NEW away, FireAutoAssign(o, away)
      PROVE  Cared'
  <2>1. order[o].status = "offered" => order[o].slot # NoSlot
    BY <1>5 DEF Cared, CaredFor
  <2>2. \/ order[o].status # "offered" /\ Skip(o, "auto_assign")
        \/ Alert(o, "auto_assign")
        \/ (\E w : Book(o, w, order[o].slot, {"offered"})) /\ UNCHANGED alerted
    BY <1>5, <2>1 DEF FireAutoAssign
  <2> QED BY <1>1, <1>2, <1>5, <2>2, BookCared
<1>6. ASSUME TypeOK, Cared, NEW o \in Orders, FireResidentTimeout(o)
      PROVE  Cared'
  <2> DEFINE new == [order[o] EXCEPT !.status = "offered"]
  <2>1. CASE order[o].status = "awaiting_resident"
    <3>1. order[o].slot # NoSlot /\ Holding(o, Open) = {}
      BY <1>6, <2>1 DEF Cared, CaredFor
    <3>2. /\ SetOrder(o, new) /\ timers' = Synced(o, new) /\ UNCHANGED asg
          /\ alerted' = Unalerted(o, new)
      BY <1>6, <2>1, <3>1 DEF FireResidentTimeout, ProceedUnanswered
    <3>3. new.status = "offered" /\ new.slot = order[o].slot
      BY <1>6 DEF TypeOK, OrderRows
    <3> HIDE DEF new
    <3>4. CaredFor(o)'
      BY <1>6, <2>1, <3>1, <3>2, <3>3, OfferedIsCared
    <3> QED BY <1>6, <3>2, <3>4, OneStatusCared, OthersStayAlerted
  <2>2. CASE order[o].status # "awaiting_resident"
    <3>1. Skip(o, "resident_timeout")
      BY <1>6, <2>2 DEF FireResidentTimeout
    <3> QED BY <1>2, <1>6, <3>1
  <2> QED BY <2>1, <2>2
<1>7. ASSUME TypeOK, Cared, NEW o \in Orders, FireFacilityAutoAssign(o)
      PROVE  Cared'
  <2>1. \/ Skip(o, "facility_auto_assign") \/ Alert(o, "facility_auto_assign")
        \/ UNCHANGED <<order, asg, timers, alerted>>
        \/ BookFirstAvailable(o) /\ UNCHANGED alerted
    BY <1>7 DEF FireFacilityAutoAssign
  <2> QED BY <1>1, <1>2, <1>3, <1>7, <2>1, SameJobsCared
<1>8. ASSUME Cared, NEW o \in Orders, FireFailedVisitEscalation(o)
      PROVE  Cared'
  BY <1>1, <1>2, <1>8 DEF FireFailedVisitEscalation
<1>9. ASSUME Cared, NEW c \in Complaints, NEW kind, FireAutoClose(c, kind)
      PROVE  Cared'
  BY <1>9, SameJobsCared DEF FireAutoClose
<1> QED
  BY <1>4, <1>5, <1>6, <1>7, <1>8, <1>9
     DEF DispatcherNext, FireOrder, RetireTimer, RetireComplaintTimer

\* A job on offer always has somebody or something to take care of it, as long as
\* no job is moved to another time while somebody has an offer of it: it would lose
\* its alert while an offer that nothing times out stands. The two assumptions rule
\* out the other ways in which the code does forget: a job raised without a time can
\* be confirmed without one, and then the window finds nobody to ask and tells
\* nobody; a retired timer is gone.
THEOREM OffersAreCaredFor ==
    ASSUME NoSlot \notin RaiseSlots, ~MayRetire
    PROVE  Spec /\ [][~MovedUnderOffer]_vars => []NobodyForgotten
<1>1. Init => Cared
  BY DEF Init, Cared, CaredFor, Holding, Open, NoRow
<1>2. TypeOK /\ Cared /\ [Next]_vars /\ [~MovedUnderOffer]_vars => Cared'
  <2>1. UNCHANGED vars /\ Cared => Cared'
    BY SameJobsCared DEF vars
  <2> QED BY <2>1, SupervisorCared, WorkerCared, ResidentCared, OfficeCared,
             DispatcherCared DEF Next
<1>3. Cared => NobodyForgotten
  BY DEF Cared, CaredFor, Watched, NobodyForgotten, OrderTimer
<1> QED BY <1>1, <1>2, <1>3, TypeCorrect, PTL DEF Spec

================================================================================
