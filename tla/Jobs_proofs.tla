------------------------------ MODULE Jobs_proofs ------------------------------
(* Theorems about WorkOrders that relate several jobs, or a complaint and its  *)
(* jobs: two accepted rows of one worker never overlap, nor do their jobs but  *)
(* for one verb; a complaint never has two live jobs; and nothing ends it, or  *)
(* sends it back to the pool, beside a live job, but for a confirmation that   *)
(* was overtaken.                                                              *)
EXTENDS WorkOrders_proofs

-------------------------------------------------------------------------------
(* No double booking.                                                          *)

\* Every row that `rows` accepts on job o stood there before, or was checked
\* against the worker's other jobs.
Checked(o, rows) ==
    \A w \in Staff :
        rows[w].st = "accepted"
        => rows[w] = asg[o][w] \/ ~Booked(w, rows[w].slot, o)

\* A step that writes the rows of one job, checked, books nobody twice.
LEMMA CheckedRowsSafe ==
    ASSUME TypeOK, NoDoubleBooking, NEW o \in Orders, NEW rows,
           asg' = [asg EXCEPT ![o] = rows], Checked(o, rows)
    PROVE  NoDoubleBooking'
<1> SUFFICES ASSUME NEW w \in Staff, NEW p \in Orders, NEW q \in Orders, p # q,
                    asg'[p][w].st = "accepted", asg'[q][w].st = "accepted",
                    <<asg'[p][w].slot, asg'[q][w].slot>> \in Overlaps
             PROVE  FALSE
  BY DEF NoDoubleBooking
<1>1. /\ asg'[o] = rows
      /\ \A r \in Orders : r # o => asg'[r] = asg[r]
  BY DEF TypeOK
<1>2. <<asg'[q][w].slot, asg'[p][w].slot>> \in Overlaps
  BY OverlapsAssumption
<1>3. CASE p # o /\ q # o
  BY <1>1, <1>3 DEF NoDoubleBooking
<1>4. CASE p = o
  <2>1. rows[w] # asg[o][w]
    BY <1>1, <1>4 DEF NoDoubleBooking
  <2>2. ~Booked(w, rows[w].slot, o)
    BY <1>1, <1>4, <2>1 DEF Checked
  <2> QED BY <1>1, <1>2, <1>4, <2>2 DEF Booked
<1>5. CASE q = o
  <2>1. rows[w] # asg[o][w]
    BY <1>1, <1>5 DEF NoDoubleBooking
  <2>2. ~Booked(w, rows[w].slot, o)
    BY <1>1, <1>5, <2>1 DEF Checked
  <2> QED BY <1>1, <1>5, <2>2 DEF Booked
<1> QED BY <1>3, <1>4, <1>5

\* A booking of somebody who is free, or at no time at all.
LEMMA BookSafe ==
    ASSUME TypeOK, NoDoubleBooking, NEW o \in Orders, NEW w \in Staff, NEW slot,
           NEW ended, Book(o, w, slot, ended), ~Booked(w, slot, o)
    PROVE  NoDoubleBooking'
<1> DEFINE rows == [Withdraw(asg[o], ended) EXCEPT ![w] = Row("accepted", slot)]
<1>1. asg' = [asg EXCEPT ![o] = rows]
  BY DEF Book
<1>2. Checked(o, rows)
  BY DEF Checked, Withdraw, Row
<1> HIDE DEF rows
<1> QED BY <1>1, <1>2, CheckedRowsSafe

\* A step that leaves every assignment row alone.
LEMMA SameRowsSafe ==
    ASSUME NoDoubleBooking, UNCHANGED asg
    PROVE  NoDoubleBooking'
BY DEF NoDoubleBooking

\* Nobody is booked at no time: null overlaps nothing, to all but Blocked.
LEMMA NullIsFree ==
    ASSUME NEW w, NEW o
    PROVE  ~Booked(w, NoSlot, o)
BY SlotsAssumption, OverlapsAssumption DEF Booked

\* The supervisor's overlap test is at least as strict as the others.
LEMMA UnblockedIsFree ==
    ASSUME NEW w, NEW o, NEW slot, ~Blocked(w, slot, o)
    PROVE  ~Booked(w, slot, o)
BY DEF Booked, Blocked

\* Whoever the candidate query returns is on the roster and free.
LEMMA CandidatesAreFree ==
    ASSUME NEW o, NEW slot, NEW away, NEW no, NEW w \in Candidates(o, slot, away, no)
    PROVE  w \in Staff /\ ~Booked(w, slot, o)
BY DEF Candidates, Staff

\* Withdrawing rows accepts nobody.
LEMMA WithdrawChecked ==
    ASSUME NEW o \in Orders, NEW sts
    PROVE  Checked(o, Withdraw(asg[o], sts))
BY DEF Checked, Withdraw, Row

\* The supervisor's verbs book nobody twice.
LEMMA SupervisorSafe == TypeOK /\ NoDoubleBooking /\ SupervisorNext => NoDoubleBooking'
<1> SUFFICES ASSUME TypeOK, NoDoubleBooking, NEW o \in Orders,
                    \/ \E kind \in Kinds, slot \in RaiseSlots : CreateWorkOrder(o, kind, slot)
                    \/ \E kind \in Kinds, high \in Highs : UpdateWorkOrder(o, kind, high)
                    \/ \E slot \in RescheduleSlots : RescheduleWorkOrder(o, slot)
                    \/ \E w \in Staff, slot \in RescheduleSlots \union {NoSlot} :
                          \/ AssignWorkOrder(o, w, slot)
                          \/ ForceAssignWorkOrder(o, w, slot)
                          \/ TakeUpWorkOrder(o, w, slot)
                    \/ CancelWorkOrder(o)
             PROVE  NoDoubleBooking'
  BY DEF SupervisorNext
<1>1. ASSUME NEW kind, NEW slot, CreateWorkOrder(o, kind, slot)
      PROVE  NoDoubleBooking'
  BY <1>1, SameRowsSafe DEF CreateWorkOrder
<1>2. ASSUME NEW kind, NEW high, UpdateWorkOrder(o, kind, high)
      PROVE  NoDoubleBooking'
  BY <1>2, SameRowsSafe DEF UpdateWorkOrder
<1>3. ASSUME NEW slot, RescheduleWorkOrder(o, slot)
      PROVE  NoDoubleBooking'
  <2> DEFINE holder == Holding(o, {"accepted"})
             rows == [w \in Staff |-> IF w \in holder THEN Row("accepted", slot)
                                      ELSE asg[o][w]]
  <2>1. asg' = [asg EXCEPT ![o] = rows] /\ \A w \in holder : ~Booked(w, slot, o)
    BY <1>3 DEF RescheduleWorkOrder
  <2>2. Checked(o, rows)
    BY <2>1 DEF Checked, Row
  <2> HIDE DEF rows
  <2> QED BY <2>1, <2>2, CheckedRowsSafe
<1>4. ASSUME NEW w \in Staff, NEW slot, AssignWorkOrder(o, w, slot)
      PROVE  NoDoubleBooking'
  <2> DEFINE rows == [Withdraw(asg[o], {"offered", "accepted"}) EXCEPT
                         ![w] = Row("offered", TimeFor(o, slot))]
  <2>1. asg' = [asg EXCEPT ![o] = rows]
    BY <1>4 DEF AssignWorkOrder
  <2>2. Checked(o, rows)
    BY DEF Checked, Withdraw, Row
  <2> HIDE DEF rows
  <2> QED BY <2>1, <2>2, CheckedRowsSafe
<1>5. ASSUME NEW w \in Staff, NEW slot, BookOutright(o, w, slot)
      PROVE  NoDoubleBooking'
  <2> DEFINE at == TimeFor(o, slot)
  <2>1. Book(o, w, at, {"offered", "accepted"}) /\ (at # NoSlot => ~Blocked(w, at, o))
    BY <1>5 DEF BookOutright
  <2> HIDE DEF at
  <2>2. ~Booked(w, at, o)
    BY <2>1, NullIsFree, UnblockedIsFree
  <2> QED BY <2>1, <2>2, BookSafe
<1>6. ASSUME CancelWorkOrder(o)
      PROVE  NoDoubleBooking'
  BY <1>6, WithdrawChecked, CheckedRowsSafe DEF CancelWorkOrder
<1> QED
  BY <1>1, <1>2, <1>3, <1>4, <1>5, <1>6 DEF ForceAssignWorkOrder, TakeUpWorkOrder

\* Nor do the workers' own claims and acceptances, or a forced booking.
LEMMA WorkerSafe == TypeOK /\ NoDoubleBooking /\ WorkerNext => NoDoubleBooking'
<1> SUFFICES ASSUME TypeOK, NoDoubleBooking, NEW o \in Orders, NEW w \in Staff,
                    \/ ClaimOpenWorkOrder(o, w)
                    \/ AcceptOffer(o, w)
                    \/ \E away \in Aways : DeclineOffer(o, w, away)
                    \/ StartWorkOrder(o, w)
                    \/ CompleteWorkOrder(o, w)
                    \/ ReportFailure(o, w)
             PROVE  NoDoubleBooking'
  BY DEF WorkerNext
<1>1. ASSUME ClaimOpenWorkOrder(o, w)
      PROVE  NoDoubleBooking'
  BY <1>1, BookSafe DEF ClaimOpenWorkOrder
<1>2. ASSUME AcceptOffer(o, w)
      PROVE  NoDoubleBooking'
  <2> DEFINE rows == [Withdraw(asg[o], {"offered", "accepted"}) EXCEPT
                         ![w] = Row("accepted", asg[o][w].slot)]
  <2>1. asg' = [asg EXCEPT ![o] = rows] /\ ~Booked(w, asg[o][w].slot, o)
    BY <1>2 DEF AcceptOffer
  <2>2. Checked(o, rows)
    BY <2>1 DEF Checked, Withdraw, Row
  <2> HIDE DEF rows
  <2> QED BY <2>1, <2>2, CheckedRowsSafe
<1>3. ASSUME NEW away \in Aways, DeclineOffer(o, w, away)
      PROVE  NoDoubleBooking'
  <2> DEFINE rows == [asg[o] EXCEPT ![w] = Row("declined", NoSlot)]
             forced(f) == [Withdraw(rows, {"offered"}) EXCEPT
                              ![f] = Row("accepted", order[o].slot)]
  <2>1. \/ \E f \in Forceable(o, away) : asg' = [asg EXCEPT ![o] = forced(f)]
        \/ asg' = [asg EXCEPT ![o] = rows]
    BY <1>3 DEF DeclineOffer
  <2>2. asg[o] \in [Staff -> AssignmentRows]
    BY DEF TypeOK
  <2>3. \A v \in Staff : rows[v].st = "accepted" => rows[v] = asg[o][v]
    BY <2>2 DEF Row
  <2>4. Checked(o, rows)
    BY <2>3 DEF Checked
  <2>5. ASSUME NEW f \in Forceable(o, away)
        PROVE  Checked(o, forced(f))
    <3>1. f \in Staff /\ ~Booked(f, order[o].slot, o)
      BY CandidatesAreFree DEF Forceable
    <3> HIDE DEF rows
    <3> QED BY <2>3, <3>1 DEF Checked, Withdraw, Row
  <2> HIDE DEF rows, forced
  <2> QED BY <2>1, <2>4, <2>5, CheckedRowsSafe
<1>4. ASSUME StartWorkOrder(o, w)
      PROVE  NoDoubleBooking'
  BY <1>4, SameRowsSafe DEF StartWorkOrder
<1>5. ASSUME NEW st, st # "accepted", NEW ost, NEW alerts, Finish(o, w, st, ost, alerts)
      PROVE  NoDoubleBooking'
  <2> DEFINE rows == [asg[o] EXCEPT ![w] = Row(st, NoSlot)]
  <2>1. asg' = [asg EXCEPT ![o] = rows]
    BY <1>5 DEF Finish, TypeOK
  <2>2. Checked(o, rows)
    BY <1>5 DEF Checked, Row, TypeOK
  <2> HIDE DEF rows
  <2> QED BY <2>1, <2>2, CheckedRowsSafe
<1> QED BY <1>1, <1>2, <1>3, <1>4, <1>5 DEF CompleteWorkOrder, ReportFailure

\* A resident only ever calls bookings off.
LEMMA ResidentSafe == TypeOK /\ NoDoubleBooking /\ ResidentNext => NoDoubleBooking'
<1>1. ASSUME TypeOK, NoDoubleBooking, NEW c, NEW o \in Orders, NEW repool,
             ResidentCancelWork(c, o, repool)
      PROVE  NoDoubleBooking'
  BY <1>1, WithdrawChecked, CheckedRowsSafe DEF ResidentCancelWork
<1>2. ASSUME ResidentNext
      PROVE  \/ UNCHANGED asg
             \/ \E c \in Complaints, o \in Orders, repool \in BOOLEAN :
                   ResidentCancelWork(c, o, repool)
  BY <1>2 DEF ResidentNext, RaiseComplaint, ReadToConfirm, ReadToReopen, Reads,
              ConfirmResolution, ReopenComplaint,
              RespondToSchedule, ResidentSetsTime
<1> QED BY <1>1, <1>2, SameRowsSafe

\* So does a supervisor who resolves the complaint.
LEMMA OfficeSafe == TypeOK /\ NoDoubleBooking /\ OfficeNext => NoDoubleBooking'
<1>1. ASSUME TypeOK, NoDoubleBooking, NEW c, SupervisorResolve(c)
      PROVE  NoDoubleBooking'
  <2>1. \A o \in Orders, w \in Staff :
           asg'[o][w].st = "accepted" => asg'[o][w] = asg[o][w]
    BY <1>1 DEF SupervisorResolve, Withdraw, Row
  <2> QED BY <1>1, <2>1 DEF NoDoubleBooking
<1>2. ASSUME OfficeNext
      PROVE  UNCHANGED asg \/ \E c \in Complaints : SupervisorResolve(c)
  BY <1>2 DEF OfficeNext, TakeUpComplaint, RaisePriority, UpdateComplaint
<1> QED BY <1>1, <1>2, SameRowsSafe

\* The handlers book whom the candidate query returned, in the same step.
LEMMA DispatcherSafe == TypeOK /\ NoDoubleBooking /\ DispatcherNext => NoDoubleBooking'
<1>1. ASSUME TypeOK, NoDoubleBooking, NEW o \in Orders, BookFirstAvailable(o)
      PROVE  NoDoubleBooking'
  BY <1>1, CandidatesAreFree, BookSafe DEF BookFirstAvailable
<1>2. ASSUME TypeOK, NoDoubleBooking, NEW o \in Orders, NEW away, NEW picked,
             FireManualWindow(o, away, picked)
      PROVE  NoDoubleBooking'
  <2> DEFINE sent == {w \in picked : asg[o][w].st # "offered"}
             rows == [w \in Staff |-> IF w \in sent THEN Row("offered", order[o].slot)
                                      ELSE asg[o][w]]
  <2>1. UNCHANGED asg \/ asg' = [asg EXCEPT ![o] = rows]
    BY <1>2 DEF FireManualWindow, PingCandidates, Skip, Alert
  <2>2. Checked(o, rows)
    BY DEF Checked, Row
  <2> HIDE DEF rows
  <2> QED BY <1>2, <2>1, <2>2, SameRowsSafe, CheckedRowsSafe
<1>3. ASSUME TypeOK, NoDoubleBooking, NEW o \in Orders, NEW away, FireAutoAssign(o, away)
      PROVE  NoDoubleBooking'
  <2>1. \/ UNCHANGED asg
        \/ \E w \in Candidates(o, order[o].slot, away, refused) :
              Book(o, w, order[o].slot, {"offered"})
    BY <1>3 DEF FireAutoAssign, Skip, Alert
  <2> QED BY <1>3, <2>1, SameRowsSafe, CandidatesAreFree, BookSafe
<1>4. ASSUME NEW o \in Orders,
             FireResidentTimeout(o) \/ FireFacilityAutoAssign(o)
      PROVE  UNCHANGED asg \/ BookFirstAvailable(o)
  BY <1>4 DEF FireResidentTimeout, FireFacilityAutoAssign, ProceedUnanswered, Skip, Alert
<1>5. ASSUME NEW o \in Orders,
             \/ FireFailedVisitEscalation(o)
             \/ \E kind \in OrderTimer : RetireTimer(o, kind)
      PROVE  UNCHANGED asg
  BY <1>5 DEF FireFailedVisitEscalation, RetireTimer, Skip, Alert
<1>6. ASSUME NEW c \in Complaints, NEW kind \in ComplaintTimer,
             FireAutoClose(c, kind) \/ RetireComplaintTimer(c, kind)
      PROVE  UNCHANGED asg
  BY <1>6 DEF FireAutoClose, RetireComplaintTimer
<1> QED
  BY <1>1, <1>2, <1>3, <1>4, <1>5, <1>6, SameRowsSafe DEF DispatcherNext, FireOrder

\* No worker ever holds two accepted rows at overlapping times, for any number
\* of complaints and any symmetric overlap relation: the overlap tests of the
\* functions, which read different times and treat null differently, are
\* together as good as one.
THEOREM BookedOnce == Spec => []NoDoubleBooking
<1>1. Init => NoDoubleBooking
  BY DEF Init, NoDoubleBooking, NoRow
<1>2. TypeOK /\ NoDoubleBooking /\ [Next]_vars => NoDoubleBooking'
  <2>1. NoDoubleBooking /\ UNCHANGED vars => NoDoubleBooking'
    BY DEF NoDoubleBooking, vars
  <2> QED
    BY <2>1, SupervisorSafe, WorkerSafe, ResidentSafe, OfficeSafe, DispatcherSafe
    DEF Next
<1> QED BY <1>1, <1>2, TypeCorrect, PTL DEF Spec

-------------------------------------------------------------------------------
(* Where the times of jobs and of their rows part: in one verb only.           *)

\* A job is rescheduled while somebody has an offer of it.
MovedUnderOffer ==
    \E o \in Orders, slot \in RescheduleSlots :
        RescheduleWorkOrder(o, slot) /\ Holding(o, {"offered"}) # {}

\* Offers and bookings carry their job's time, and a job that waits for its
\* resident is offered to nobody: whatever time is agreed on, no offer is left
\* behind at another.
TimesFit(rows, job) ==
    /\ \A v \in Staff : rows[v].st \in {"offered", "accepted"} => rows[v].slot = job.slot
    /\ job.status = "awaiting_resident" => \A v \in Staff : rows[v].st # "offered"

TimesAgree == \A o \in Orders : TimesFit(asg[o], order[o])

\* A step that writes one job and its rows has only that job to answer for.
LEMMA OneJobTimed ==
    ASSUME TypeOK, TimesAgree, NEW o \in Orders, NEW new, NEW rows,
           SetOrder(o, new), asg' = [asg EXCEPT ![o] = rows], TimesFit(rows, new)
    PROVE  TimesAgree'
<1>1. ASSUME NEW p \in Orders
      PROVE  TimesFit(asg'[p], order'[p])
  <2>1. CASE p = o
    BY <2>1 DEF TypeOK, SetOrder
  <2>2. CASE p # o
    BY <2>2 DEF TypeOK, SetOrder, TimesAgree
  <2> QED BY <2>1, <2>2
<1> QED BY <1>1 DEF TimesAgree, TimesFit

\* A step that writes no row, and of jobs neither time nor status.
LEMMA SameTimesAgree ==
    ASSUME TimesAgree, UNCHANGED asg,
           \A o \in Orders : /\ order'[o].status = order[o].status
                             /\ order'[o].slot = order[o].slot
    PROVE  TimesAgree'
BY DEF TimesAgree, TimesFit

\* What is written of a job that keeps its time: rows it had, or rows that
\* carry that time. Its resident is asked of a job nobody has an offer of.
LEMMA KeptTimeFits ==
    ASSUME TypeOK, TimesAgree, NEW o \in Orders, NEW st, NEW rows,
           st # "awaiting_resident",
           \A v \in Staff : rows[v].st \in {"offered", "accepted"}
               => rows[v] = asg[o][v] \/ rows[v].slot = order[o].slot
    PROVE  TimesFit(rows, [order[o] EXCEPT !.status = st])
<1>1. order[o] \in OrderRows /\ TimesFit(asg[o], order[o])
  BY DEF TypeOK, TimesAgree
<1> QED BY <1>1 DEF TimesFit, OrderRows

\* A booking puts one accepted row in, at the job's new time, and leaves no
\* other that stands.
LEMMA BookTimed ==
    ASSUME TypeOK, HolderMatchesJob, TimesAgree, NEW o \in Orders, NEW w \in Staff,
           NEW slot, NEW ended, Book(o, w, slot, ended), "offered" \in ended,
           \/ "accepted" \in ended
           \/ order[o].status \in {"draft", "awaiting_resident", "offered"}
    PROVE  TimesAgree'
<1> DEFINE new == [order[o] EXCEPT !.status = "scheduled", !.slot = slot]
           rows == [Withdraw(asg[o], ended) EXCEPT ![w] = Row("accepted", slot)]
<1>1. asg[o] \in [Staff -> AssignmentRows] /\ new.status = "scheduled" /\ new.slot = slot
  BY DEF TypeOK, OrderRows
<1>2. "accepted" \in ended \/ \A v \in Staff : asg[o][v].st # "accepted"
  BY HolderIsRowsFit DEF RowsFit
<1>3. \A v \in Staff : rows[v].st \in {"offered", "accepted"} => rows[v].slot = slot
  BY <1>1, <1>2 DEF Withdraw, Row
<1>4. SetOrder(o, new) /\ asg' = [asg EXCEPT ![o] = rows]
  BY DEF Book
<1>5. TimesFit(rows, new)
  <2> HIDE DEF rows, new
  <2> QED BY <1>1, <1>3 DEF TimesFit
<1> HIDE DEF new, rows
<1> QED BY <1>4, <1>5, OneJobTimed

\* What is called off leaves no row that stands.
LEMMA WithdrawnTimed ==
    ASSUME NEW rows \in [Staff -> AssignmentRows], NEW job, job.status = "cancelled"
    PROVE  TimesFit(Withdraw(rows, {"offered", "accepted"}), job)
BY DEF TimesFit, Withdraw, Row

\* The supervisor's verbs write the job's time into every row they write; a
\* job that is moved takes its holder along, and no offer is left behind where
\* there was none.
LEMMA SupervisorTimed ==
    TypeOK /\ HolderMatchesJob /\ TimesAgree /\ SupervisorNext /\ ~MovedUnderOffer
        => TimesAgree'
<1> SUFFICES ASSUME TypeOK, HolderMatchesJob, TimesAgree, ~MovedUnderOffer,
                    NEW o \in Orders,
                    \/ \E kind \in Kinds, slot \in RaiseSlots : CreateWorkOrder(o, kind, slot)
                    \/ \E kind \in Kinds, high \in Highs : UpdateWorkOrder(o, kind, high)
                    \/ \E slot \in RescheduleSlots : RescheduleWorkOrder(o, slot)
                    \/ \E w \in Staff, slot \in RescheduleSlots \union {NoSlot} :
                          \/ AssignWorkOrder(o, w, slot)
                          \/ ForceAssignWorkOrder(o, w, slot)
                          \/ TakeUpWorkOrder(o, w, slot)
                    \/ CancelWorkOrder(o)
             PROVE  TimesAgree'
  BY DEF SupervisorNext
<1>0. /\ asg[o] \in [Staff -> AssignmentRows] /\ asg = [asg EXCEPT ![o] = asg[o]]
      /\ order[o] \in OrderRows
      /\ RowsFit(asg[o], order[o].status)
      /\ TimesFit(asg[o], order[o])
  BY HolderIsRowsFit DEF TypeOK, TimesAgree
<1>1. ASSUME NEW kind \in Kinds, NEW slot \in RaiseSlots, CreateWorkOrder(o, kind, slot)
      PROVE  TimesAgree'
  <2> DEFINE new == [status |-> IF kind = "resident" THEN "awaiting_resident"
                                ELSE IF slot = NoSlot THEN "draft" ELSE "offered",
                     kind |-> kind, slot |-> slot,
                     high |-> complaint[ComplaintOf[o]].high, byResident |-> FALSE]
  <2>1. SetOrder(o, new) /\ asg' = asg /\ order[o].status = "none"
    BY <1>1 DEF CreateWorkOrder
  <2> HIDE DEF new
  <2>2. TimesFit(asg[o], new)
    BY <1>0, <2>1 DEF RowsFit, TimesFit
  <2> QED BY <1>0, <2>1, <2>2, OneJobTimed
<1>2. ASSUME NEW kind \in Kinds, NEW high \in Highs, UpdateWorkOrder(o, kind, high)
      PROVE  TimesAgree'
  <2>1. \A p \in Orders : order'[p].status = order[p].status /\ order'[p].slot = order[p].slot
    BY <1>0, <1>2 DEF UpdateWorkOrder, SetOrder, TypeOK, OrderRows
  <2> QED BY <1>2, <2>1, SameTimesAgree DEF UpdateWorkOrder
<1>3. ASSUME NEW slot \in RescheduleSlots, RescheduleWorkOrder(o, slot)
      PROVE  TimesAgree'
  <2> DEFINE holder == Holding(o, {"accepted"})
             st == IF holder # {} THEN "scheduled"
                   ELSE IF order[o].kind = "resident" THEN "awaiting_resident"
                   ELSE "offered"
             new == [order[o] EXCEPT !.slot = slot, !.status = st]
             rows == [w \in Staff |-> IF w \in holder THEN Row("accepted", slot)
                                      ELSE asg[o][w]]
  <2>1. SetOrder(o, new) /\ asg' = [asg EXCEPT ![o] = rows]
    BY <1>3 DEF RescheduleWorkOrder
  <2>2. new.slot = slot
    BY <1>0 DEF OrderRows
  <2>3. \A w \in Staff : asg[o][w].st # "offered"
    BY <1>3 DEF MovedUnderOffer, Holding
  <2>4. \A w \in Staff : /\ rows[w].st # "offered"
                         /\ rows[w].st = "accepted" => rows[w].slot = slot
    BY <2>3 DEF Holding, Row
  <2>5. TimesFit(rows, new)
    <3> HIDE DEF rows, new
    <3> QED BY <2>2, <2>4 DEF TimesFit
  <2> HIDE DEF new, rows, st
  <2> QED BY <2>1, <2>5, OneJobTimed
<1>4. ASSUME NEW w \in Staff, NEW slot, AssignWorkOrder(o, w, slot)
      PROVE  TimesAgree'
  <2> DEFINE at == TimeFor(o, slot)
             new == [order[o] EXCEPT !.status = "offered", !.slot = at]
             rows == [Withdraw(asg[o], {"offered", "accepted"}) EXCEPT
                         ![w] = Row("offered", at)]
  <2>1. SetOrder(o, new) /\ asg' = [asg EXCEPT ![o] = rows]
    BY <1>4 DEF AssignWorkOrder
  <2>2. new.status = "offered" /\ new.slot = at
    BY <1>0 DEF OrderRows
  <2>3. \A v \in Staff : rows[v].st \in {"offered", "accepted"} => rows[v].slot = at
    <3> HIDE DEF at
    <3> QED BY <1>0 DEF Withdraw, Row
  <2>4. TimesFit(rows, new)
    <3> HIDE DEF rows, new, at
    <3> QED BY <2>2, <2>3 DEF TimesFit
  <2> HIDE DEF new, rows
  <2> QED BY <2>1, <2>4, OneJobTimed
<1>5. ASSUME NEW w \in Staff, NEW slot, BookOutright(o, w, slot)
      PROVE  TimesAgree'
  BY <1>5, BookTimed DEF BookOutright
<1>6. ASSUME CancelWorkOrder(o)
      PROVE  TimesAgree'
  <2> DEFINE new == [order[o] EXCEPT !.status = "cancelled"]
  <2>1. /\ SetOrder(o, new)
        /\ asg' = [asg EXCEPT ![o] = Withdraw(asg[o], {"offered", "accepted"})]
    BY <1>6 DEF CancelWorkOrder
  <2>2. new.status = "cancelled"
    BY <1>0 DEF OrderRows
  <2> HIDE DEF new
  <2> QED BY <1>0, <2>1, <2>2, WithdrawnTimed, OneJobTimed
<1> QED
  BY <1>1, <1>2, <1>3, <1>4, <1>5, <1>6 DEF ForceAssignWorkOrder, TakeUpWorkOrder

\* A worker takes the job at the time it has: an offer accepted carries it.
LEMMA WorkerTimed ==
    TypeOK /\ HolderMatchesJob /\ TimesAgree /\ WorkerNext => TimesAgree'
<1> SUFFICES ASSUME TypeOK, HolderMatchesJob, TimesAgree, NEW o \in Orders, NEW w \in Staff,
                    \/ ClaimOpenWorkOrder(o, w)
                    \/ AcceptOffer(o, w)
                    \/ \E away \in Aways : DeclineOffer(o, w, away)
                    \/ StartWorkOrder(o, w)
                    \/ CompleteWorkOrder(o, w)
                    \/ ReportFailure(o, w)
             PROVE  TimesAgree'
  BY DEF WorkerNext
<1>0. /\ asg[o] \in [Staff -> AssignmentRows] /\ asg = [asg EXCEPT ![o] = asg[o]]
      /\ order[o] \in OrderRows
      /\ TimesFit(asg[o], order[o])
  BY DEF TypeOK, TimesAgree
<1>2. ASSUME ClaimOpenWorkOrder(o, w)
      PROVE  TimesAgree'
  BY <1>2, BookTimed DEF ClaimOpenWorkOrder
<1>3. ASSUME AcceptOffer(o, w)
      PROVE  TimesAgree'
  <2> DEFINE new == [order[o] EXCEPT !.status = "scheduled"]
             rows == [Withdraw(asg[o], {"offered", "accepted"}) EXCEPT
                         ![w] = Row("accepted", asg[o][w].slot)]
  <2>1. SetOrder(o, new) /\ asg' = [asg EXCEPT ![o] = rows] /\ asg[o][w].st = "offered"
    BY <1>3 DEF AcceptOffer
  <2>2. asg[o][w].slot = order[o].slot
    BY <1>0, <2>1 DEF TimesFit
  <2>3. \A v \in Staff : rows[v].st \in {"offered", "accepted"}
            => rows[v].slot = order[o].slot
    BY <1>0, <2>2 DEF Withdraw, Row
  <2> HIDE DEF rows
  <2>4. TimesFit(rows, new)
    BY <2>3, KeptTimeFits
  <2> HIDE DEF new
  <2> QED BY <2>1, <2>4, OneJobTimed
<1>4. ASSUME NEW away \in Aways, DeclineOffer(o, w, away)
      PROVE  TimesAgree'
  <2> DEFINE new == [order[o] EXCEPT !.status = "scheduled"]
             rows == [asg[o] EXCEPT ![w] = Row("declined", NoSlot)]
             forced(f) == [Withdraw(rows, {"offered"}) EXCEPT
                              ![f] = Row("accepted", order[o].slot)]
  <2>1. \/ \E f \in Forceable(o, away) :
              asg' = [asg EXCEPT ![o] = forced(f)] /\ SetOrder(o, new)
        \/ asg' = [asg EXCEPT ![o] = rows] /\ UNCHANGED order
    BY <1>4 DEF DeclineOffer
  <2>2. \A v \in Staff : /\ rows[v] \in AssignmentRows
                         /\ rows[v] = asg[o][v] \/ rows[v].st = "declined"
    BY <1>0 DEF Row, AssignmentRows, RowStatus, Times
  <2>3. rows \in [Staff -> AssignmentRows]
    BY <1>0, <2>2
  <2>4. CASE \E f \in Forceable(o, away) :
                asg' = [asg EXCEPT ![o] = forced(f)] /\ SetOrder(o, new)
    <3>1. PICK f \in Forceable(o, away) :
             asg' = [asg EXCEPT ![o] = forced(f)] /\ SetOrder(o, new)
      BY <2>4
    <3>2. f \in Staff
      BY DEF Forceable, Candidates, Staff
    <3> HIDE DEF rows
    <3>3. \A v \in Staff : forced(f)[v].st \in {"offered", "accepted"}
              => forced(f)[v] = asg[o][v] \/ forced(f)[v].slot = order[o].slot
      BY <2>2, <2>3, <3>2 DEF Withdraw, Row
    <3> HIDE DEF forced
    <3>4. TimesFit(forced(f), new)
      BY <3>3, KeptTimeFits
    <3> HIDE DEF new
    <3> QED BY <3>1, <3>4, OneJobTimed
  <2>5. CASE asg' = [asg EXCEPT ![o] = rows] /\ UNCHANGED order
    <3> HIDE DEF rows
    <3>1. TimesFit(rows, order[o])
      BY <1>0, <2>2 DEF TimesFit
    <3>2. SetOrder(o, order[o])
      BY <2>5 DEF SetOrder, TypeOK
    <3> QED BY <2>5, <3>1, <3>2, OneJobTimed
  <2> QED BY <2>1, <2>4, <2>5
<1>5. ASSUME StartWorkOrder(o, w)
      PROVE  TimesAgree'
  <2> DEFINE new == [order[o] EXCEPT !.status = "in_progress"]
  <2>1. SetOrder(o, new) /\ asg' = asg
    BY <1>5 DEF StartWorkOrder
  <2>2. TimesFit(asg[o], new)
    BY KeptTimeFits
  <2> HIDE DEF new
  <2> QED BY <1>0, <2>1, <2>2, OneJobTimed
<1>6. ASSUME NEW st, st \in {"completed", "failed"}, NEW alerts,
             MayFinish(o, w), Finish(o, w, st, st, alerts)
      PROVE  TimesAgree'
  <2> DEFINE new == [order[o] EXCEPT !.status = st]
             rows == [asg[o] EXCEPT ![w] = Row(st, NoSlot)]
  <2>1. SetOrder(o, new) /\ asg' = [asg EXCEPT ![o] = rows]
    BY <1>6 DEF Finish, TypeOK
  <2>2. \A v \in Staff : rows[v] = asg[o][v] \/ rows[v].st \notin {"offered", "accepted"}
    BY <1>0, <1>6 DEF Row
  <2> HIDE DEF rows
  <2>3. TimesFit(rows, new)
    BY <1>6, <2>2, KeptTimeFits
  <2> HIDE DEF new
  <2> QED BY <2>1, <2>3, OneJobTimed
<1> QED
  BY <1>2, <1>3, <1>4, <1>5, <1>6 DEF CompleteWorkOrder, ReportFailure

\* A resident agrees on a time when nobody has an offer.
LEMMA ResidentTimed ==
    TypeOK /\ HolderMatchesJob /\ TimesAgree /\ ResidentNext => TimesAgree'
<1> SUFFICES ASSUME TypeOK, HolderMatchesJob, TimesAgree, ResidentNext
             PROVE  TimesAgree'
  OBVIOUS
<1>0. \A o \in Orders : /\ asg[o] \in [Staff -> AssignmentRows]
                        /\ asg = [asg EXCEPT ![o] = asg[o]]
                        /\ order[o] \in OrderRows
                        /\ RowsFit(asg[o], order[o].status)
                        /\ TimesFit(asg[o], order[o])
  BY HolderIsRowsFit DEF TypeOK, TimesAgree
<1>1. ASSUME NEW c \in Complaints,
             \/ \E high \in Highs : RaiseComplaint(c, high)
             \/ ReadToConfirm(c) \/ ConfirmResolution(c)
             \/ ReadToReopen(c) \/ ReopenComplaint(c)
      PROVE  TimesAgree'
  BY <1>1, SameTimesAgree DEF RaiseComplaint, ReadToConfirm, ReadToReopen, Reads,
                              ConfirmResolution, ReopenComplaint
<1>2. ASSUME NEW c \in Complaints, NEW o \in Orders, NEW repool \in BOOLEAN,
             ResidentCancelWork(c, o, repool)
      PROVE  TimesAgree'
  <2> DEFINE new == [order[o] EXCEPT !.status = "cancelled", !.byResident = TRUE]
  <2>1. /\ SetOrder(o, new)
        /\ asg' = [asg EXCEPT ![o] = Withdraw(asg[o], {"offered", "accepted"})]
    BY <1>2 DEF ResidentCancelWork
  <2>2. new.status = "cancelled"
    BY <1>0 DEF OrderRows
  <2>3. TimesFit(Withdraw(asg[o], {"offered", "accepted"}), new)
    BY <1>0, <2>2, WithdrawnTimed
  <2> HIDE DEF new
  <2> QED BY <2>1, <2>3, OneJobTimed
<1>3. ASSUME NEW o \in Orders, NEW new, SetOrder(o, new), asg' = asg,
             order[o].status = "awaiting_resident"
      PROVE  TimesAgree'
  <2>1. \A v \in Staff : asg[o][v].st \notin {"offered", "accepted"}
    BY <1>0, <1>3 DEF RowsFit, TimesFit
  <2>2. TimesFit(asg[o], new)
    BY <2>1 DEF TimesFit
  <2> QED BY <1>0, <1>3, <2>2, OneJobTimed
<1>4. ASSUME NEW o \in Orders,
             \/ \E confirmed \in BOOLEAN : RespondToSchedule(o, confirmed)
             \/ \E slot \in Slots : ResidentSetsTime(o, slot)
      PROVE  TimesAgree'
  BY <1>3, <1>4 DEF RespondToSchedule, ResidentSetsTime
<1> QED BY <1>1, <1>2, <1>4 DEF ResidentNext

\* The office moves no job.
LEMMA OfficeTimed == TypeOK /\ TimesAgree /\ OfficeNext => TimesAgree'
<1> SUFFICES ASSUME TypeOK, TimesAgree, NEW c \in Complaints,
                    \/ TakeUpComplaint(c)
                    \/ \E high \in Highs : RaisePriority(c, high)
                    \/ SupervisorResolve(c)
                    \/ \E st \in HandStatuses : UpdateComplaint(c, st)
             PROVE  TimesAgree'
  BY DEF OfficeNext
<1>1. CASE TakeUpComplaint(c) \/ \E st \in HandStatuses : UpdateComplaint(c, st)
  BY <1>1, SameTimesAgree DEF TakeUpComplaint, UpdateComplaint
<1>2. ASSUME NEW high \in Highs, RaisePriority(c, high)
      PROVE  TimesAgree'
  <2>1. \A o \in Orders : order'[o].status = order[o].status /\ order'[o].slot = order[o].slot
    BY <1>2 DEF RaisePriority, TypeOK, OrderRows
  <2> QED BY <1>2, <2>1, SameTimesAgree DEF RaisePriority
<1>3. CASE SupervisorResolve(c)
  <2>1. ASSUME NEW o \in Orders
        PROVE  TimesFit(asg'[o], order'[o])
    <3>1. CASE o \in CalledOff(c)
      <4>1. asg'[o] = Withdraw(asg[o], {"offered", "accepted"})
        BY <1>3, <3>1 DEF SupervisorResolve
      <4>2. order'[o].status = "cancelled"
        BY <1>3, <3>1 DEF SupervisorResolve, TypeOK, OrderRows
      <4>3. asg[o] \in [Staff -> AssignmentRows]
        BY DEF TypeOK
      <4> QED BY <4>1, <4>2, <4>3, WithdrawnTimed
    <3>2. CASE o \notin CalledOff(c)
      <4>1. asg'[o] = asg[o] /\ order'[o] = order[o]
        BY <1>3, <3>2 DEF SupervisorResolve
      <4> QED BY <4>1 DEF TimesAgree
    <3> QED BY <3>1, <3>2
  <2> QED BY <2>1 DEF TimesAgree, TimesFit
<1> QED BY <1>1, <1>2, <1>3

\* The handlers offer a job, and book it, at the time they set.
LEMMA DispatcherTimed ==
    TypeOK /\ HolderMatchesJob /\ TimesAgree /\ DispatcherNext => TimesAgree'
<1> SUFFICES ASSUME TypeOK, HolderMatchesJob, TimesAgree, DispatcherNext
             PROVE  TimesAgree'
  OBVIOUS
<1>0. \A o \in Orders : /\ asg[o] \in [Staff -> AssignmentRows]
                        /\ asg = [asg EXCEPT ![o] = asg[o]]
                        /\ order[o] \in OrderRows
                        /\ TimesFit(asg[o], order[o])
  BY DEF TypeOK, TimesAgree
<1>1. ASSUME UNCHANGED <<order, asg>>
      PROVE  TimesAgree'
  BY <1>1, SameTimesAgree
<1>2. ASSUME NEW o \in Orders, NEW slot, NEW away, NEW w \in Candidates(o, slot, away, refused),
             Book(o, w, slot, {"offered"}),
             order[o].status \in {"draft", "awaiting_resident", "offered"}
      PROVE  TimesAgree'
  <2>1. w \in Staff
    BY DEF Candidates, Staff
  <2> QED BY <1>2, <2>1, BookTimed
<1>3. ASSUME NEW o \in Orders, NEW away, NEW picked \in SUBSET Members,
             FireManualWindow(o, away, picked)
      PROVE  TimesAgree'
  <2> DEFINE sent == {w \in picked : asg[o][w].st # "offered"}
             rows == [w \in Staff |-> IF w \in sent THEN Row("offered", order[o].slot)
                                      ELSE asg[o][w]]
  <2>1. \/ UNCHANGED <<order, asg>>
        \/ /\ order[o].status = "offered"
           /\ asg' = [asg EXCEPT ![o] = rows] /\ UNCHANGED order
    BY <1>3 DEF FireManualWindow, PingCandidates, Skip, Alert
  <2>2. CASE /\ order[o].status = "offered"
             /\ asg' = [asg EXCEPT ![o] = rows] /\ UNCHANGED order
    <3>1. \A v \in Staff : rows[v] = asg[o][v] \/ rows[v].slot = order[o].slot
      BY DEF Row
    <3> HIDE DEF rows
    <3>2. TimesFit(rows, order[o])
      BY <1>0, <2>2, <3>1 DEF TimesFit
    <3>3. SetOrder(o, order[o])
      BY <2>2 DEF SetOrder, TypeOK
    <3> QED BY <2>2, <3>2, <3>3, OneJobTimed
  <2> QED BY <1>1, <2>1, <2>2
<1>4. ASSUME NEW o \in Orders, NEW away, FireAutoAssign(o, away)
      PROVE  TimesAgree'
  BY <1>1, <1>2, <1>4 DEF FireAutoAssign, Skip, Alert
<1>5. ASSUME NEW o \in Orders, FireResidentTimeout(o)
      PROVE  TimesAgree'
  <2> DEFINE st == IF order[o].slot # NoSlot THEN "offered" ELSE "draft"
             new == [order[o] EXCEPT !.status = st]
  <2>1. \/ UNCHANGED <<order, asg>>
        \/ /\ order[o].status = "awaiting_resident"
           /\ BookFirstAvailable(o)
        \/ SetOrder(o, new) /\ asg' = asg
    BY <1>5 DEF FireResidentTimeout, ProceedUnanswered, Skip
  <2>2. CASE SetOrder(o, new) /\ asg' = asg
    <3>1. TimesFit(asg[o], new)
      BY KeptTimeFits
    <3> HIDE DEF new
    <3> QED BY <1>0, <2>2, <3>1, OneJobTimed
  <2> QED BY <1>1, <1>2, <2>1, <2>2 DEF BookFirstAvailable
<1>6. ASSUME NEW o \in Orders, FireFacilityAutoAssign(o)
      PROVE  TimesAgree'
  <2>1. \/ UNCHANGED <<order, asg>>
        \/ order[o].status = "draft" /\ BookFirstAvailable(o)
    BY <1>6 DEF FireFacilityAutoAssign, Skip, Alert
  <2> QED BY <1>1, <1>2, <2>1 DEF BookFirstAvailable
<1>7. ASSUME NEW o \in Orders,
             \/ FireFailedVisitEscalation(o)
             \/ \E kind \in OrderTimer : RetireTimer(o, kind)
      PROVE  TimesAgree'
  BY <1>1, <1>7 DEF FireFailedVisitEscalation, RetireTimer, Skip, Alert
<1>8. ASSUME NEW c \in Complaints, NEW kind \in ComplaintTimer,
             FireAutoClose(c, kind) \/ RetireComplaintTimer(c, kind)
      PROVE  TimesAgree'
  BY <1>1, <1>8 DEF FireAutoClose, RetireComplaintTimer
<1> QED
  BY <1>3, <1>4, <1>5, <1>6, <1>7, <1>8 DEF DispatcherNext, FireOrder

\* As long as nobody reschedules a job from under an offer, no person is in two
\* places at once, by the times of the jobs: everything else that moves a job,
\* the resident's answers, a supervisor's booking at another time and the
\* automatic ones, takes the rows along. That one verb is where the claim of
\* 0036 is lost (claim_one_place), however the others interleave.
THEOREM OnePlaceUnlessMovedUnderOffer ==
    Spec /\ [][~MovedUnderOffer]_vars => []OnePlaceAtATime
<1>1. Init => TimesAgree
  BY DEF Init, TimesAgree, TimesFit, NoRow
<1>2. TypeOK /\ HolderMatchesJob /\ TimesAgree /\ [Next]_vars /\ [~MovedUnderOffer]_vars
      => TimesAgree'
  <2>1. TimesAgree /\ UNCHANGED vars => TimesAgree'
    BY DEF TimesAgree, TimesFit, vars
  <2> QED
    BY <2>1, SupervisorTimed, WorkerTimed, ResidentTimed, OfficeTimed, DispatcherTimed
    DEF Next
<1>3. NoDoubleBooking /\ TimesAgree => OnePlaceAtATime
  <2> SUFFICES ASSUME NoDoubleBooking, TimesAgree,
                      NEW w \in Staff, NEW o \in Orders, NEW p \in Orders, o # p,
                      asg[o][w].st = "accepted", asg[p][w].st = "accepted"
               PROVE  <<order[o].slot, order[p].slot>> \notin Overlaps
    BY DEF OnePlaceAtATime
  <2>1. asg[o][w].slot = order[o].slot /\ asg[p][w].slot = order[p].slot
    BY DEF TimesAgree, TimesFit
  <2> QED BY <2>1 DEF NoDoubleBooking
<1> QED BY <1>1, <1>2, <1>3, TypeCorrect, HolderAgrees, BookedOnce, PTL DEF Spec

-------------------------------------------------------------------------------
(* Which steps bring a job to life.                                            *)

\* No job is live after the step that was not live before.
NothingRevived == \A o \in Orders : order'[o].status \in Live => order[o].status \in Live

SomethingRaised ==
    \E o \in Orders : \E kind \in Kinds, slot \in RaiseSlots : CreateWorkOrder(o, kind, slot)

\* A step that writes a live job was taken on a live job.
LEMMA SetOrderRevivesNothing ==
    ASSUME TypeOK, NEW o \in Orders, NEW new, SetOrder(o, new),
           order[o].status \in Live \/ new.status \notin Live
    PROVE  NothingRevived
BY DEF TypeOK, SetOrder, NothingRevived

\* Bookings are made on live jobs.
LEMMA BookRevivesNothing ==
    ASSUME TypeOK, NEW o \in Orders, NEW w, NEW slot, NEW ended,
           Book(o, w, slot, ended), order[o].status \in Live
    PROVE  NothingRevived
BY SetOrderRevivesNothing DEF Book

\* A step that writes no job.
LEMMA SameOrdersReviveNothing ==
    ASSUME UNCHANGED order
    PROVE  NothingRevived
BY DEF NothingRevived

\* Each verb but the raise is guarded by a live job, or ends one.
LEMMA SupervisorRevives ==
    TypeOK /\ SupervisorNext => NothingRevived \/ SomethingRaised
<1> SUFFICES ASSUME TypeOK, NEW o \in Orders,
                    \/ \E kind \in Kinds, high \in Highs : UpdateWorkOrder(o, kind, high)
                    \/ \E slot \in RescheduleSlots : RescheduleWorkOrder(o, slot)
                    \/ \E w \in Staff, slot \in RescheduleSlots \union {NoSlot} :
                          \/ AssignWorkOrder(o, w, slot)
                          \/ ForceAssignWorkOrder(o, w, slot)
                          \/ TakeUpWorkOrder(o, w, slot)
                    \/ CancelWorkOrder(o)
             PROVE  NothingRevived
  BY DEF SupervisorNext, SomethingRaised
<1>1. ASSUME NEW kind, NEW high, UpdateWorkOrder(o, kind, high)
      PROVE  NothingRevived
  BY <1>1 DEF UpdateWorkOrder, SetOrder, NothingRevived, TypeOK, OrderRows
<1>2. ASSUME NEW slot, RescheduleWorkOrder(o, slot)
      PROVE  NothingRevived
  BY <1>2, SetOrderRevivesNothing DEF RescheduleWorkOrder
<1>3. ASSUME NEW w, NEW slot, AssignWorkOrder(o, w, slot)
      PROVE  NothingRevived
  BY <1>3, SetOrderRevivesNothing DEF AssignWorkOrder
<1>4. ASSUME NEW w, NEW slot, BookOutright(o, w, slot)
      PROVE  NothingRevived
  BY <1>4, BookRevivesNothing DEF BookOutright
<1>5. ASSUME CancelWorkOrder(o)
      PROVE  NothingRevived
  <2>1. [order[o] EXCEPT !.status = "cancelled"].status \notin Live
    BY DEF TypeOK, OrderRows, Live
  <2> QED BY <1>5, <2>1, SetOrderRevivesNothing DEF CancelWorkOrder
<1> QED
  BY <1>1, <1>2, <1>3, <1>4, <1>5 DEF ForceAssignWorkOrder, TakeUpWorkOrder

\* The workers' verbs act on live jobs, a forced booking included.
LEMMA WorkerRevives == TypeOK /\ WorkerNext => NothingRevived
<1> SUFFICES ASSUME TypeOK, NEW o \in Orders, NEW w \in Staff,
                    \/ ClaimOpenWorkOrder(o, w)
                    \/ AcceptOffer(o, w)
                    \/ \E away \in Aways : DeclineOffer(o, w, away)
                    \/ StartWorkOrder(o, w)
                    \/ CompleteWorkOrder(o, w)
                    \/ ReportFailure(o, w)
             PROVE  NothingRevived
  BY DEF WorkerNext
<1>1. ASSUME ClaimOpenWorkOrder(o, w)
      PROVE  NothingRevived
  BY <1>1, BookRevivesNothing DEF ClaimOpenWorkOrder, Live
<1>2. ASSUME AcceptOffer(o, w)
      PROVE  NothingRevived
  BY <1>2, SetOrderRevivesNothing DEF AcceptOffer, Live
<1>3. ASSUME NEW away, DeclineOffer(o, w, away)
      PROVE  NothingRevived
  <2>1. \/ UNCHANGED order
        \/ /\ Forceable(o, away) # {}
           /\ SetOrder(o, [order[o] EXCEPT !.status = "scheduled"])
    BY <1>3 DEF DeclineOffer
  <2>2. Forceable(o, away) # {} => order[o].status \in Live
    BY DEF Forceable
  <2> QED BY <2>1, <2>2, SameOrdersReviveNothing, SetOrderRevivesNothing
<1>4. ASSUME StartWorkOrder(o, w)
      PROVE  NothingRevived
  BY <1>4, SetOrderRevivesNothing DEF StartWorkOrder, Live
<1>5. ASSUME NEW st, NEW alerts, MayFinish(o, w), Finish(o, w, st, st, alerts)
      PROVE  NothingRevived
  BY <1>5, SetOrderRevivesNothing DEF MayFinish, Finish, Live
<1> QED BY <1>1, <1>2, <1>3, <1>4, <1>5 DEF CompleteWorkOrder, ReportFailure

\* The residents' verbs act on live jobs.
LEMMA ResidentRevives == TypeOK /\ ResidentNext => NothingRevived
<1>1. ASSUME TypeOK, NEW c \in Complaints, NEW o \in Orders, NEW repool,
             ResidentCancelWork(c, o, repool)
      PROVE  NothingRevived
  BY <1>1, SetOrderRevivesNothing DEF ResidentCancelWork, Live
<1>2. ASSUME TypeOK, NEW o \in Orders,
             \/ \E confirmed \in BOOLEAN : RespondToSchedule(o, confirmed)
             \/ \E slot \in Slots : ResidentSetsTime(o, slot)
      PROVE  NothingRevived
  BY <1>2, SetOrderRevivesNothing DEF RespondToSchedule, ResidentSetsTime, Live
<1>3. ASSUME NEW c \in Complaints,
             \/ \E high \in Highs : RaiseComplaint(c, high)
             \/ ReadToConfirm(c) \/ ConfirmResolution(c)
             \/ ReadToReopen(c) \/ ReopenComplaint(c)
      PROVE  NothingRevived
  BY <1>3, SameOrdersReviveNothing DEF RaiseComplaint, ReadToConfirm, ReadToReopen, Reads,
                                       ConfirmResolution, ReopenComplaint
<1> QED BY <1>1, <1>2, <1>3 DEF ResidentNext

\* The office's verbs revive nothing, whatever status it sets.
LEMMA OfficeRevives == TypeOK /\ OfficeNext => NothingRevived
<1> SUFFICES ASSUME TypeOK, NEW c \in Complaints,
                    \/ TakeUpComplaint(c)
                    \/ \E high \in Highs : RaisePriority(c, high)
                    \/ SupervisorResolve(c)
                    \/ \E st \in HandStatuses : UpdateComplaint(c, st)
             PROVE  NothingRevived
  BY DEF OfficeNext
<1>1. CASE TakeUpComplaint(c) \/ \E st \in HandStatuses : UpdateComplaint(c, st)
  BY <1>1, SameOrdersReviveNothing DEF TakeUpComplaint, UpdateComplaint
<1>2. ASSUME NEW high, RaisePriority(c, high)
      PROVE  NothingRevived
  BY <1>2 DEF RaisePriority, NothingRevived, TypeOK, OrderRows
<1>3. CASE SupervisorResolve(c)
  BY <1>3 DEF SupervisorResolve, CalledOff, LiveJobs, NothingRevived
<1> QED BY <1>1, <1>2, <1>3

\* The handlers read the job again and act on a live one.
LEMMA DispatcherRevives == TypeOK /\ DispatcherNext => NothingRevived
<1>1. ASSUME TypeOK, NEW o \in Orders, BookFirstAvailable(o), order[o].status \in Live
      PROVE  NothingRevived
  BY <1>1, BookRevivesNothing DEF BookFirstAvailable
<1>2. ASSUME TypeOK, NEW o \in Orders, NEW away, FireAutoAssign(o, away)
      PROVE  NothingRevived
  <2>1. \/ UNCHANGED order
        \/ /\ order[o].status = "offered"
           /\ \E w : Book(o, w, order[o].slot, {"offered"})
    BY <1>2 DEF FireAutoAssign, Skip, Alert
  <2> QED BY <1>2, <2>1, SameOrdersReviveNothing, BookRevivesNothing DEF Live
<1>3. ASSUME TypeOK, NEW o \in Orders, FireResidentTimeout(o)
      PROVE  NothingRevived
  <2>1. \/ UNCHANGED order
        \/ /\ order[o].status = "awaiting_resident"
           /\ BookFirstAvailable(o) \/ \E new : SetOrder(o, new)
    BY <1>3 DEF FireResidentTimeout, ProceedUnanswered, Skip
  <2> QED BY <1>1, <1>3, <2>1, SameOrdersReviveNothing, SetOrderRevivesNothing DEF Live
<1>4. ASSUME TypeOK, NEW o \in Orders, FireFacilityAutoAssign(o)
      PROVE  NothingRevived
  <2>1. UNCHANGED order \/ (order[o].status = "draft" /\ BookFirstAvailable(o))
    BY <1>4 DEF FireFacilityAutoAssign, Skip, Alert
  <2> QED BY <1>1, <1>4, <2>1, SameOrdersReviveNothing DEF Live
<1>5. ASSUME NEW o \in Orders,
             \/ \E away \in Aways, picked \in SUBSET Members :
                   FireManualWindow(o, away, picked)
             \/ FireFailedVisitEscalation(o)
             \/ \E kind \in OrderTimer : RetireTimer(o, kind)
      PROVE  NothingRevived
  <2>1. UNCHANGED order
    BY <1>5 DEF FireManualWindow, PingCandidates, FireFailedVisitEscalation,
                RetireTimer, Skip, Alert
  <2> QED BY <2>1, SameOrdersReviveNothing
<1>6. ASSUME NEW c \in Complaints, NEW kind \in ComplaintTimer,
             FireAutoClose(c, kind) \/ RetireComplaintTimer(c, kind)
      PROVE  NothingRevived
  BY <1>6, SameOrdersReviveNothing DEF FireAutoClose, RetireComplaintTimer
<1> QED BY <1>2, <1>3, <1>4, <1>5, <1>6 DEF DispatcherNext, FireOrder

\* Only raising a job brings one to life: nothing revives a job that is over.
LEMMA OnlyRaisingRevives == TypeOK /\ Next => NothingRevived \/ SomethingRaised
BY SupervisorRevives, WorkerRevives, ResidentRevives, OfficeRevives, DispatcherRevives
   DEF Next

-------------------------------------------------------------------------------
\* A complaint never has two live jobs, with any number of jobs raised on it
\* and the office setting its status by hand at any moment.
THEOREM OneJobAtATime == Spec => []OneLiveJob
<1>1. Init => OneLiveJob
  BY DEF Init, OneLiveJob, LiveJobs, JobsOf, Live
<1>2. TypeOK /\ OneLiveJob /\ [Next]_vars => OneLiveJob'
  <2> SUFFICES ASSUME TypeOK, OneLiveJob, [Next]_vars
               PROVE  OneLiveJob'
    OBVIOUS
  <2>1. CASE UNCHANGED vars
    BY <2>1 DEF OneLiveJob, LiveJobs, JobsOf, vars
  <2>2. CASE NothingRevived
    BY <2>2 DEF NothingRevived, OneLiveJob, LiveJobs, JobsOf
  <2>3. ASSUME NEW o \in Orders, NEW kind, NEW slot, CreateWorkOrder(o, kind, slot)
        PROVE  OneLiveJob'
    <3>1. LiveJobs(ComplaintOf[o]) = {}
      BY <2>3 DEF CreateWorkOrder, MayRaise
    <3>2. \A p \in Orders : p # o => order'[p] = order[p]
      BY <2>3 DEF CreateWorkOrder, SetOrder, TypeOK
    <3>3. \A c \in Complaints : \A p, q \in LiveJobs(c)' : p = q
      BY <3>1, <3>2 DEF OneLiveJob, LiveJobs, JobsOf
    <3> QED BY <3>3 DEF OneLiveJob
  <2> QED BY <2>1, <2>2, <2>3, OnlyRaisingRevives DEF SomethingRaised
<1> QED BY <1>1, <1>2, TypeCorrect, PTL DEF Spec

-------------------------------------------------------------------------------
(* Which steps end a complaint or send it back to the pool.                    *)

\* A complaint that the step ends, or sends back, has no live job after it,
\* unless a confirmation that was overtaken ends it.
EndsIdle ==
    \A c \in Complaints :
        /\ complaint'[c].status \in Ended
           => \/ complaint[c].status \in Ended \/ LiveJobs(c)' = {}
              \/ ConfirmedLate(c)
        /\ complaint'[c].returned = TRUE
           => complaint[c].returned = TRUE \/ LiveJobs(c)' = {}

\* A step that writes no complaint.
LEMMA SameComplaintsIdle ==
    ASSUME UNCHANGED complaint
    PROVE  EndsIdle
BY DEF EndsIdle

\* One complaint is written, and the step answers for it.
LEMMA WriteComplaintIdle ==
    ASSUME TypeOK, NEW c \in Complaints, NEW row,
           complaint' = [complaint EXCEPT ![c] = row],
           row.status \in Ended => complaint[c].status \in Ended \/ LiveJobs(c)' = {},
           row.returned = TRUE => complaint[c].returned = TRUE \/ LiveJobs(c)' = {}
    PROVE  EndsIdle
BY DEF TypeOK, EndsIdle

\* The same for a step that writes nothing but the status.
LEMMA WriteStatusIdle ==
    ASSUME TypeOK, NEW c \in Complaints, NEW st,
           complaint' = [complaint EXCEPT ![c] = [complaint[c] EXCEPT !.status = st]],
           st \in Ended => complaint[c].status \in Ended \/ LiveJobs(c)' = {}
    PROVE  EndsIdle
<1> DEFINE row == [complaint[c] EXCEPT !.status = st]
<1>1. row.status = st /\ row.returned = complaint[c].returned
  BY DEF TypeOK, ComplaintRows
<1> HIDE DEF row
<1> QED BY <1>1, WriteComplaintIdle DEF row

\* The projection trigger never ends a complaint.
LEMMA AcknowledgedIdle ==
    ASSUME TypeOK, NEW c \in Complaints, complaint' = Acknowledged(c)
    PROVE  EndsIdle
<1> DEFINE st == IF complaint[c].status = "open" THEN "acknowledged"
                 ELSE complaint[c].status
<1>1. complaint' = [complaint EXCEPT ![c] = [complaint[c] EXCEPT !.status = st]]
  BY DEF Acknowledged, TypeOK
<1>2. st \in Ended => complaint[c].status \in Ended
  BY DEF Ended
<1> HIDE DEF st
<1> QED BY <1>1, <1>2, WriteStatusIdle

\* The supervisor's verbs on jobs at most acknowledge the complaint.
LEMMA SupervisorIdle == TypeOK /\ SupervisorNext => EndsIdle \/ SomethingRaised
<1> SUFFICES ASSUME TypeOK, NEW o \in Orders,
                    \/ \E kind \in Kinds, high \in Highs : UpdateWorkOrder(o, kind, high)
                    \/ \E slot \in RescheduleSlots : RescheduleWorkOrder(o, slot)
                    \/ \E w \in Staff, slot \in RescheduleSlots \union {NoSlot} :
                          \/ AssignWorkOrder(o, w, slot)
                          \/ ForceAssignWorkOrder(o, w, slot)
                          \/ TakeUpWorkOrder(o, w, slot)
                    \/ CancelWorkOrder(o)
             PROVE  EndsIdle
  BY DEF SupervisorNext, SomethingRaised
<1>1. UNCHANGED complaint \/ complaint' = Acknowledged(ComplaintOf[o])
  BY DEF UpdateWorkOrder, RescheduleWorkOrder, AssignWorkOrder, ForceAssignWorkOrder,
         TakeUpWorkOrder, BookOutright, Book, CancelWorkOrder
<1> QED BY <1>1, IdsAssumption, SameComplaintsIdle, AcknowledgedIdle

\* The last live job to complete resolves the complaint, no other does.
LEMMA WorkerIdle == TypeOK /\ WorkerNext => EndsIdle
<1> SUFFICES ASSUME TypeOK, NEW o \in Orders, NEW w \in Staff,
                    \/ ClaimOpenWorkOrder(o, w)
                    \/ AcceptOffer(o, w)
                    \/ \E away \in Aways : DeclineOffer(o, w, away)
                    \/ StartWorkOrder(o, w)
                    \/ CompleteWorkOrder(o, w)
                    \/ ReportFailure(o, w)
             PROVE  EndsIdle
  BY DEF WorkerNext
<1> DEFINE c == ComplaintOf[o]
<1>0. c \in Complaints
  BY IdsAssumption
<1>1. CASE \/ ClaimOpenWorkOrder(o, w) \/ AcceptOffer(o, w)
           \/ \E away \in Aways : DeclineOffer(o, w, away)
           \/ ReportFailure(o, w)
  <2>1. UNCHANGED complaint \/ complaint' = Acknowledged(c)
    BY <1>1 DEF ClaimOpenWorkOrder, Book, AcceptOffer, DeclineOffer, ReportFailure
  <2> QED BY <1>0, <2>1, SameComplaintsIdle, AcknowledgedIdle
<1>2. CASE StartWorkOrder(o, w)
  <2> DEFINE st == IF complaint[c].status \in {"open", "acknowledged"} THEN "in_progress"
                   ELSE complaint[c].status
  <2>1. complaint' = [complaint EXCEPT ![c] = [complaint[c] EXCEPT !.status = st]]
    BY <1>0, <1>2 DEF StartWorkOrder, TypeOK
  <2>2. st \in Ended => complaint[c].status \in Ended
    BY DEF Ended
  <2> HIDE DEF st
  <2> QED BY <1>0, <2>1, <2>2, WriteStatusIdle
<1>3. CASE CompleteWorkOrder(o, w)
  <2>1. CASE UNCHANGED complaint
    BY <2>1, SameComplaintsIdle
  <2>2. CASE /\ LiveJobs(c) \subseteq {o}
             /\ SetComplaint(c, [complaint[c] EXCEPT !.status = "resolved"])
    <3>1. SetOrder(o, [order[o] EXCEPT !.status = "completed"])
      BY <1>3 DEF CompleteWorkOrder, Finish
    <3>2. order'[o].status = "completed" /\ \A p \in Orders : p # o => order'[p] = order[p]
      BY <3>1 DEF SetOrder, TypeOK, OrderRows
    <3>3. LiveJobs(c)' = {}
      BY <2>2, <3>2 DEF LiveJobs, JobsOf, Live
    <3> QED BY <1>0, <2>2, <3>3, WriteStatusIdle DEF SetComplaint
  <2> QED BY <1>3, <2>1, <2>2 DEF CompleteWorkOrder
<1> QED BY <1>1, <1>2, <1>3

\* A resident who calls off one job calls off the only live one.
LEMMA ResidentIdle == TypeOK /\ OneLiveJob /\ ResidentNext => EndsIdle
<1>1. ASSUME TypeOK, NEW c \in Complaints, NEW high, RaiseComplaint(c, high)
      PROVE  EndsIdle
  <2> DEFINE row == [complaint[c] EXCEPT !.status = "open", !.high = high]
  <2>1. complaint' = [complaint EXCEPT ![c] = row]
    BY <1>1 DEF RaiseComplaint, TypeOK
  <2>2. row.status = "open" /\ row.returned = complaint[c].returned
    BY <1>1 DEF TypeOK, ComplaintRows
  <2> HIDE DEF row
  <2> QED BY <1>1, <2>1, <2>2, WriteComplaintIdle DEF Ended
<1>2. ASSUME TypeOK, OneLiveJob, NEW c \in Complaints, NEW o \in Orders,
             NEW repool \in BOOLEAN, ResidentCancelWork(c, o, repool)
      PROVE  EndsIdle
  <2> DEFINE st == IF repool THEN "open" ELSE "cancelled"
             pooled == complaint[c].returned \/ repool
             row == [complaint[c] EXCEPT !.status = st, !.returned = pooled]
  <2>1. complaint' = [complaint EXCEPT ![c] = row]
    BY <1>2 DEF ResidentCancelWork, TypeOK
  <2>2. o \in LiveJobs(c)
    BY <1>2 DEF ResidentCancelWork, LiveJobs, Live
  <2>3. \A p \in LiveJobs(c) : p = o
    BY <1>2, <2>2 DEF OneLiveJob
  <2>4. SetOrder(o, [order[o] EXCEPT !.status = "cancelled", !.byResident = TRUE])
    BY <1>2 DEF ResidentCancelWork
  <2>5. order'[o].status = "cancelled" /\ \A p \in Orders : p # o => order'[p] = order[p]
    BY <1>2, <2>4 DEF SetOrder, TypeOK, OrderRows
  <2>6. LiveJobs(c)' = {}
    BY <2>3, <2>5 DEF LiveJobs, JobsOf, Live
  <2> HIDE DEF row
  <2> QED BY <1>2, <2>1, <2>6, WriteComplaintIdle
<1>3. ASSUME TypeOK, NEW c \in Complaints, ConfirmResolution(c)
      PROVE  EndsIdle
  <2>1. complaint' = [complaint EXCEPT ![c] = [complaint[c] EXCEPT !.status = "closed"]]
    BY <1>3 DEF ConfirmResolution, SetComplaint
  <2>2. CASE complaint[c].status \in {"resolved", "closed"}
    BY <1>3, <2>1, <2>2, WriteStatusIdle DEF Ended
  <2>3. CASE complaint[c].status \notin {"resolved", "closed"}
    <3>1. ConfirmedLate(c)
      BY <1>3, <2>3 DEF ConfirmedLate
    <3>2. complaint'[c].returned = complaint[c].returned
      BY <1>3, <2>1 DEF TypeOK, ComplaintRows
    <3>3. \A d \in Complaints : d # c => complaint'[d] = complaint[d]
      BY <1>3, <2>1 DEF TypeOK
    <3> QED BY <3>1, <3>2, <3>3 DEF EndsIdle
  <2> QED BY <2>2, <2>3
<1>4. ASSUME TypeOK, NEW c \in Complaints, ReopenComplaint(c)
      PROVE  EndsIdle
  <2> DEFINE row == [complaint[c] EXCEPT !.status = "open", !.reopened = TRUE]
  <2>1. complaint' = [complaint EXCEPT ![c] = row]
    BY <1>4 DEF ReopenComplaint, SetComplaint
  <2>2. row.status = "open" /\ row.returned = complaint[c].returned
    BY <1>4 DEF TypeOK, ComplaintRows
  <2> HIDE DEF row
  <2> QED BY <1>4, <2>1, <2>2, WriteComplaintIdle DEF Ended
<1>5. ASSUME NEW o \in Orders,
             \/ \E confirmed \in BOOLEAN : RespondToSchedule(o, confirmed)
             \/ \E slot \in Slots : ResidentSetsTime(o, slot)
      PROVE  EndsIdle
  BY <1>5, SameComplaintsIdle DEF RespondToSchedule, ResidentSetsTime
<1>6. ASSUME NEW c \in Complaints, ReadToConfirm(c) \/ ReadToReopen(c)
      PROVE  EndsIdle
  BY <1>6, SameComplaintsIdle DEF ReadToConfirm, ReadToReopen, Reads
<1> QED BY <1>1, <1>2, <1>3, <1>4, <1>5, <1>6 DEF ResidentNext

\* The office may end a complaint by hand beside its jobs; a setting of
\* HandStatuses without the ended ones keeps the complaint to its jobs.
LEMMA OfficeIdle ==
    ASSUME HandStatuses \intersect Ended = {}
    PROVE  TypeOK /\ OfficeNext => EndsIdle
<1> SUFFICES ASSUME TypeOK, NEW c \in Complaints,
                    \/ TakeUpComplaint(c)
                    \/ \E high \in Highs : RaisePriority(c, high)
                    \/ SupervisorResolve(c)
                    \/ \E st \in HandStatuses : UpdateComplaint(c, st)
             PROVE  EndsIdle
  BY DEF OfficeNext
<1>1. CASE TakeUpComplaint(c)
  <2> DEFINE st == IF complaint[c].status = "open" THEN "acknowledged"
                   ELSE complaint[c].status
             row == [complaint[c] EXCEPT !.takenUp = TRUE, !.status = st]
  <2>1. complaint' = [complaint EXCEPT ![c] = row]
    BY <1>1 DEF TakeUpComplaint, TypeOK
  <2>2. row.status = st /\ row.returned = complaint[c].returned
    BY DEF TypeOK, ComplaintRows
  <2>3. st \in Ended => complaint[c].status \in Ended
    BY DEF Ended
  <2> HIDE DEF row, st
  <2> QED BY <2>1, <2>2, <2>3, WriteComplaintIdle
<1>2. ASSUME NEW high, RaisePriority(c, high)
      PROVE  EndsIdle
  <2> DEFINE row == [complaint[c] EXCEPT !.high = high]
  <2>1. complaint' = [complaint EXCEPT ![c] = row]
    BY <1>2 DEF RaisePriority, TypeOK
  <2>2. row.status = complaint[c].status /\ row.returned = complaint[c].returned
    BY DEF TypeOK, ComplaintRows
  <2> HIDE DEF row
  <2> QED BY <2>1, <2>2, WriteComplaintIdle
<1>3. CASE SupervisorResolve(c)
  <2>1. \A o \in LiveJobs(c) : order'[o].status = "cancelled"
    BY <1>3 DEF SupervisorResolve, CalledOff, LiveJobs, JobsOf, TypeOK, OrderRows
  <2>2. \A o \in Orders : o \notin LiveJobs(c) => order'[o] = order[o]
    BY <1>3 DEF SupervisorResolve, CalledOff
  <2>3. LiveJobs(c)' = {}
    BY <2>1, <2>2 DEF LiveJobs, JobsOf, Live
  <2> QED BY <1>3, <2>3, WriteStatusIdle DEF SupervisorResolve, SetComplaint
<1>4. ASSUME NEW st \in HandStatuses, UpdateComplaint(c, st)
      PROVE  EndsIdle
  BY <1>4, WriteStatusIdle DEF UpdateComplaint, SetComplaint
<1> QED BY <1>1, <1>2, <1>3, <1>4

\* The handlers end nothing but what is resolved already.
LEMMA DispatcherIdle == TypeOK /\ DispatcherNext => EndsIdle
<1>1. ASSUME TypeOK, NEW o \in Orders,
             FireOrder(o) \/ \E kind \in OrderTimer : RetireTimer(o, kind)
      PROVE  EndsIdle
  <2>1. UNCHANGED complaint \/ complaint' = Acknowledged(ComplaintOf[o])
    BY <1>1 DEF FireOrder, FireManualWindow, PingCandidates, FireAutoAssign,
                FireResidentTimeout, ProceedUnanswered, BookFirstAvailable,
                FireFacilityAutoAssign, FireFailedVisitEscalation, RetireTimer,
                Book, Skip, Alert
  <2> QED BY <1>1, <2>1, IdsAssumption, SameComplaintsIdle, AcknowledgedIdle
<1>2. ASSUME TypeOK, NEW c \in Complaints, NEW kind \in ComplaintTimer,
             FireAutoClose(c, kind) \/ RetireComplaintTimer(c, kind)
      PROVE  EndsIdle
  <2>1. \/ UNCHANGED complaint
        \/ /\ complaint[c].status = "resolved"
           /\ complaint' = [complaint EXCEPT
                               ![c] = [complaint[c] EXCEPT !.status = "closed"]]
    BY <1>2 DEF FireAutoClose, RetireComplaintTimer, TypeOK
  <2> QED BY <1>2, <2>1, SameComplaintsIdle, WriteStatusIdle DEF Ended
<1> QED BY <1>1, <1>2 DEF DispatcherNext

\* What a step does to work on complaints that are over, or in the pool.
StaysIdle ==
    \A c \in Complaints :
        /\ EndedBusy(c)'  => EndedBusy(c) \/ ConfirmedLate(c)
        /\ PooledBusy(c)' => PooledBusy(c)

\* By OneLiveJob a resident who calls off one job calls off all, and a job is
\* only raised on a complaint in play, which leaves the pool.
LEMMA StepsStayIdle ==
    ASSUME HandStatuses \intersect Ended = {}
    PROVE  TypeOK /\ OneLiveJob /\ [Next]_vars => StaysIdle
<1> SUFFICES ASSUME TypeOK, OneLiveJob, [Next]_vars
             PROVE  StaysIdle
  OBVIOUS
<1>0. \A c \in Complaints : /\ complaint[c].returned \in BOOLEAN
                            /\ complaint'[c].returned \in BOOLEAN
  <2>1. TypeOK'
    BY TypeStep
  <2> QED BY <2>1 DEF TypeOK, ComplaintRows
<1>1. CASE UNCHANGED vars
  BY <1>1 DEF StaysIdle, EndedBusy, PooledBusy, LiveJobs, JobsOf, vars
<1>2. CASE EndsIdle /\ NothingRevived
  <2> SUFFICES ASSUME NEW c \in Complaints, LiveJobs(c)' # {}
               PROVE  /\ complaint'[c].status \in Ended
                         => EndedBusy(c) \/ ConfirmedLate(c)
                      /\ complaint'[c].returned => PooledBusy(c)
    BY DEF StaysIdle, EndedBusy, PooledBusy
  <2>1. LiveJobs(c) # {}
    BY <1>2 DEF NothingRevived, LiveJobs, JobsOf
  <2> QED BY <1>0, <1>2, <2>1 DEF EndsIdle, EndedBusy, PooledBusy
<1>3. ASSUME NEW o \in Orders, NEW kind, NEW slot, CreateWorkOrder(o, kind, slot)
      PROVE  StaysIdle
  <2> DEFINE d == ComplaintOf[o]
             row == [complaint[d] EXCEPT !.returned = FALSE]
  <2>1. /\ complaint' = [complaint EXCEPT ![d] = row]
        /\ complaint[d].status \notin Ended
        /\ SetOrder(o, order'[o])
    BY <1>3 DEF CreateWorkOrder, MayRaise, OutOfPool, SetOrder, TypeOK, Ended
  <2>2. row.status = complaint[d].status /\ row.returned = FALSE
    BY IdsAssumption DEF TypeOK, ComplaintRows
  <2>3. ~EndedBusy(d)' /\ ~PooledBusy(d)'
    BY <2>1, <2>2, IdsAssumption DEF TypeOK, EndedBusy, PooledBusy
  <2>4. ASSUME NEW c \in Complaints, c # d
        PROVE  (EndedBusy(c)' => EndedBusy(c)) /\ (PooledBusy(c)' => PooledBusy(c))
    <3>1. complaint'[c] = complaint[c]
      BY <2>1, <2>4 DEF TypeOK
    <3>2. \A p \in JobsOf(c) : order'[p] = order[p]
      BY <2>1, <2>4 DEF JobsOf, SetOrder, TypeOK
    <3>3. LiveJobs(c)' = LiveJobs(c)
      BY <3>2 DEF LiveJobs, JobsOf
    <3> QED BY <3>1, <3>3 DEF EndedBusy, PooledBusy
  <2> QED BY <2>3, <2>4 DEF StaysIdle
<1>4. CASE Next
  BY <1>2, <1>3, <1>4, SupervisorIdle, WorkerIdle, ResidentIdle, OfficeIdle,
     DispatcherIdle, SupervisorRevives, WorkerRevives, ResidentRevives, OfficeRevives,
     DispatcherRevives DEF Next, SomethingRaised
<1> QED BY <1>1, <1>4

\* Nobody comes to work on a complaint that is over or back in the pool, as
\* long as the office ends none by hand, and except by a confirmation that a
\* reopening has overtaken.
THEOREM EndedAndPooledAreIdle ==
    ASSUME HandStatuses \intersect Ended = {}
    PROVE  Spec => OverIsIdle
<1>1. TypeOK /\ OneLiveJob /\ [Next]_vars =>
         [\A c \in Complaints :
             /\ EndedBusy(c)'  => EndedBusy(c) \/ ConfirmedLate(c)
             /\ PooledBusy(c)' => PooledBusy(c)]_vars
  BY StepsStayIdle DEF StaysIdle
<1> QED BY <1>1, TypeCorrect, OneJobAtATime, PTL DEF Spec, OverIsIdle

\* So, where no confirmation is overtaken, no complaint that is over or back in
\* the pool ever has a live job: the lock that confirm_complaint_resolution does
\* not take is all that is missing.
THEOREM IdleUnlessOvertaken ==
    ASSUME HandStatuses \intersect Ended = {}
    PROVE  Spec /\ [][\A c \in Complaints : ~ConfirmedLate(c)]_vars
           => [](\A c \in Complaints : ~EndedBusy(c) /\ ~PooledBusy(c))
<1> DEFINE Idle == \A c \in Complaints : ~EndedBusy(c) /\ ~PooledBusy(c)
           OnTime == \A c \in Complaints : ~ConfirmedLate(c)
<1>1. Init => Idle
  BY DEF Init, EndedBusy, PooledBusy, LiveJobs, JobsOf, Live
<1>2. TypeOK /\ OneLiveJob /\ Idle /\ [Next]_vars /\ [OnTime]_vars => Idle'
  <2>1. CASE UNCHANGED vars
    BY <2>1 DEF EndedBusy, PooledBusy, LiveJobs, JobsOf, vars
  <2>2. CASE OnTime
    BY <2>2, StepsStayIdle DEF StaysIdle
  <2> QED BY <2>1, <2>2
<1> HIDE DEF Idle, OnTime
<1> QED BY <1>1, <1>2, TypeCorrect, OneJobAtATime, PTL DEF Spec, Idle, OnTime
================================================================================
