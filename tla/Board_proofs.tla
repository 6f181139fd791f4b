----------------------------- MODULE Board_proofs ------------------------------
(* Theorems about WorkOrders that say what a single step may do to a job: the *)
(* engine implements JobBoard, finished jobs stay finished, and the engine    *)
(* respects refusals.                                                         *)
EXTENDS Jobs_proofs

-------------------------------------------------------------------------------
(* What a step may do to jobs and their rows.                                  *)

Done == {"completed", "failed"}

Same(o) == order'[o].status = order[o].status /\ asg'[o] = asg[o]

Quiet == \A o \in Orders : Same(o)

\* The job o comes into being; is moved on or called off while live, with no
\* work reported on it; is called off after it failed; or is finished by the one
\* who holds it.
Raised(o) ==
    order[o].status = "none" /\ order'[o].status \in Live /\ asg'[o] = asg[o]
MovedOn(o) ==
    /\ order[o].status \in Live /\ order'[o].status \in Live \union {"cancelled"}
    /\ \A w \in Staff : asg'[o][w].st \in Done => asg[o][w].st \in Done
WrittenOff(o) ==
    order[o].status = "failed" /\ order'[o].status = "cancelled" /\ asg'[o] = asg[o]
FinishedBy(o, w) ==
    /\ asg[o][w].st = "accepted" /\ order[o].status \in Live
    /\ order'[o].status \in Done
    /\ asg'[o] = [asg[o] EXCEPT ![w] = Row(order'[o].status, NoSlot)]

JobStep(o) ==
    /\ \A p \in Orders \ {o} : Same(p)
    /\ Raised(o) \/ MovedOn(o) \/ WrittenOff(o) \/ \E w \in Staff : FinishedBy(o, w)

SomeJobStep == \E o \in Orders : JobStep(o)

\* A step that writes one job leaves the others alone.
LEMMA JobWritten ==
    ASSUME TypeOK, NEW o \in Orders, NEW new, NEW rows,
           SetOrder(o, new), asg' = [asg EXCEPT ![o] = rows]
    PROVE  /\ order'[o] = new /\ asg'[o] = rows
           /\ \A p \in Orders \ {o} : Same(p)
BY DEF TypeOK, SetOrder, Same

\* A step on a live job that reports no work done.
LEMMA LiveJobWritten ==
    ASSUME TypeOK, NEW o \in Orders, NEW new, NEW rows,
           SetOrder(o, new), asg' = [asg EXCEPT ![o] = rows],
           order[o].status \in Live, new.status \in Live \union {"cancelled"},
           \A w \in Staff : rows[w].st \in Done => asg[o][w].st \in Done
    PROVE  SomeJobStep
<1>1. order'[o] = new /\ asg'[o] = rows /\ \A p \in Orders \ {o} : Same(p)
  BY JobWritten
<1>2. MovedOn(o)
  BY <1>1 DEF MovedOn
<1> QED BY <1>1, <1>2 DEF SomeJobStep, JobStep

\* So is one that leaves the rows alone.
LEMMA LiveStatusWritten ==
    ASSUME TypeOK, NEW o \in Orders, NEW new, SetOrder(o, new), UNCHANGED asg,
           order[o].status \in Live, new.status \in Live
    PROVE  SomeJobStep
<1>1. asg' = [asg EXCEPT ![o] = asg[o]]
  BY DEF TypeOK
<1> QED BY <1>1, LiveJobWritten

\* Withdrawing rows and putting one in reports no work done.
LEMMA NoWorkReported ==
    ASSUME NEW rows \in [Staff -> AssignmentRows], NEW sts, NEW w \in Staff, NEW slot,
           NEW st, st \notin Done, NEW v \in Staff
    PROVE  /\ Withdraw(rows, sts)[v].st \in Done => rows[v].st \in Done
           /\ [Withdraw(rows, sts) EXCEPT ![w] = Row(st, slot)][v].st \in Done
              => rows[v].st \in Done
BY DEF Withdraw, Row, Done

\* A booking is made on a live job.
LEMMA BookSteps ==
    ASSUME TypeOK, NEW o \in Orders, NEW w \in Staff, NEW slot, NEW ended,
           Book(o, w, slot, ended), order[o].status \in Live
    PROVE  SomeJobStep
<1> DEFINE new == [order[o] EXCEPT !.status = "scheduled", !.slot = slot]
           rows == [Withdraw(asg[o], ended) EXCEPT ![w] = Row("accepted", slot)]
<1>1. SetOrder(o, new) /\ asg' = [asg EXCEPT ![o] = rows]
  BY DEF Book
<1>2. asg[o] \in [Staff -> AssignmentRows] /\ order[o] \in OrderRows
  BY DEF TypeOK
<1>3. new.status \in Live
  BY <1>2 DEF OrderRows, Live
<1>4. \A v \in Staff : rows[v].st \in Done => asg[o][v].st \in Done
  BY <1>2, NoWorkReported DEF Done
<1> HIDE DEF new, rows
<1> QED BY <1>1, <1>3, <1>4, LiveJobWritten

\* A step that leaves jobs' statuses and rows alone.
LEMMA SameIsQuiet ==
    ASSUME UNCHANGED asg, \A o \in Orders : order'[o].status = order[o].status
    PROVE  Quiet
BY DEF Quiet, Same

-------------------------------------------------------------------------------
(* One lemma for the verbs of each person.                                     *)

\* The supervisor's verbs.
LEMMA SupervisorSteps == TypeOK /\ HolderMatchesJob /\ SupervisorNext => SomeJobStep \/ Quiet
<1> SUFFICES ASSUME TypeOK, HolderMatchesJob, NEW o \in Orders,
                    \/ \E kind \in Kinds, slot \in RaiseSlots : CreateWorkOrder(o, kind, slot)
                    \/ \E kind \in Kinds, high \in Highs : UpdateWorkOrder(o, kind, high)
                    \/ \E slot \in RescheduleSlots : RescheduleWorkOrder(o, slot)
                    \/ \E w \in Staff, slot \in RescheduleSlots \union {NoSlot} :
                          \/ AssignWorkOrder(o, w, slot)
                          \/ BookOutright(o, w, slot)
                    \/ CancelWorkOrder(o)
             PROVE  SomeJobStep \/ Quiet
  BY DEF SupervisorNext, ForceAssignWorkOrder, TakeUpWorkOrder
<1>0. /\ asg[o] \in [Staff -> AssignmentRows] /\ asg = [asg EXCEPT ![o] = asg[o]]
      /\ order[o] \in OrderRows
      /\ RowsFit(asg[o], order[o].status)
  BY HolderIsRowsFit DEF TypeOK
<1>1. ASSUME NEW kind, NEW slot, CreateWorkOrder(o, kind, slot)
      PROVE  SomeJobStep
  <2> DEFINE new == [status |-> IF kind = "resident" THEN "awaiting_resident"
                                ELSE IF slot = NoSlot THEN "draft" ELSE "offered",
                     kind |-> kind, slot |-> slot,
                     high |-> complaint[ComplaintOf[o]].high, byResident |-> FALSE]
  <2>1. SetOrder(o, new) /\ asg' = asg /\ order[o].status = "none"
    BY <1>1 DEF CreateWorkOrder
  <2>2. new.status \in Live
    BY DEF Live
  <2> HIDE DEF new
  <2>3. Raised(o) /\ \A p \in Orders \ {o} : Same(p)
    BY <1>0, <2>1, <2>2, JobWritten DEF Raised
  <2> QED BY <2>3 DEF SomeJobStep, JobStep
<1>2. ASSUME NEW kind, NEW high, UpdateWorkOrder(o, kind, high)
      PROVE  Quiet
  <2>1. \A p \in Orders : order'[p].status = order[p].status
    BY <1>0, <1>2 DEF UpdateWorkOrder, SetOrder, TypeOK, OrderRows
  <2> QED BY <1>2, <2>1, SameIsQuiet DEF UpdateWorkOrder
<1>3. ASSUME NEW slot, RescheduleWorkOrder(o, slot)
      PROVE  SomeJobStep
  <2> DEFINE holder == Holding(o, {"accepted"})
             st == IF holder # {} THEN "scheduled"
                   ELSE IF order[o].kind = "resident" THEN "awaiting_resident"
                   ELSE "offered"
             new == [order[o] EXCEPT !.slot = slot, !.status = st]
             rows == [w \in Staff |-> IF w \in holder THEN Row("accepted", slot)
                                      ELSE asg[o][w]]
  <2>1. /\ SetOrder(o, new) /\ asg' = [asg EXCEPT ![o] = rows]
        /\ order[o].status \in Live
    BY <1>3 DEF RescheduleWorkOrder
  <2>2. new.status \in Live
    BY <1>0 DEF OrderRows, Live
  <2>3. \A w \in Staff : rows[w].st \in Done => asg[o][w].st \in Done
    BY DEF Row, Done
  <2> HIDE DEF new, rows
  <2> QED BY <2>1, <2>2, <2>3, LiveJobWritten
<1>4. ASSUME NEW w \in Staff, NEW slot, AssignWorkOrder(o, w, slot)
      PROVE  SomeJobStep
  <2> DEFINE at == TimeFor(o, slot)
             new == [order[o] EXCEPT !.status = "offered", !.slot = at]
             rows == [Withdraw(asg[o], {"offered", "accepted"}) EXCEPT
                         ![w] = Row("offered", at)]
  <2>1. /\ SetOrder(o, new) /\ asg' = [asg EXCEPT ![o] = rows]
        /\ order[o].status \in Live
    BY <1>4 DEF AssignWorkOrder
  <2>2. new.status \in Live
    BY <1>0 DEF OrderRows, Live
  <2>3. \A v \in Staff : rows[v].st \in Done => asg[o][v].st \in Done
    BY <1>0, NoWorkReported DEF Done
  <2> HIDE DEF new, rows
  <2> QED BY <2>1, <2>2, <2>3, LiveJobWritten
<1>5. ASSUME NEW w \in Staff, NEW slot, BookOutright(o, w, slot)
      PROVE  SomeJobStep
  BY <1>5, BookSteps DEF BookOutright
<1>6. ASSUME CancelWorkOrder(o)
      PROVE  SomeJobStep
  <2> DEFINE new == [order[o] EXCEPT !.status = "cancelled"]
             rows == Withdraw(asg[o], {"offered", "accepted"})
  <2>1. /\ SetOrder(o, new) /\ asg' = [asg EXCEPT ![o] = rows]
        /\ order[o].status \in Live \union {"failed"}
    BY <1>6 DEF CancelWorkOrder, MayCancel
  <2>2. new.status = "cancelled"
    BY <1>0 DEF OrderRows
  <2>3. CASE order[o].status \in Live
    <3>1. \A v \in Staff : rows[v].st \in Done => asg[o][v].st \in Done
      BY <1>0 DEF Done, Withdraw, Row
    <3> HIDE DEF new, rows
    <3> QED BY <2>1, <2>2, <2>3, <3>1, LiveJobWritten
  <2>4. CASE order[o].status = "failed"
    <3>1. rows = asg[o]
      BY <1>0, <2>4 DEF RowsFit, Withdraw
    <3> HIDE DEF new, rows
    <3>2. WrittenOff(o) /\ \A p \in Orders \ {o} : Same(p)
      BY <2>1, <2>2, <2>4, <3>1, JobWritten DEF WrittenOff
    <3> QED BY <3>2 DEF SomeJobStep, JobStep
  <2> QED BY <2>1, <2>3, <2>4
<1> QED BY <1>1, <1>2, <1>3, <1>4, <1>5, <1>6

\* The workers' verbs: an offer stands on a live job only, and whoever reports
\* work holds the job.
LEMMA WorkerSteps == TypeOK /\ HolderMatchesJob /\ WorkerNext => SomeJobStep \/ Quiet
<1> SUFFICES ASSUME TypeOK, HolderMatchesJob, NEW o \in Orders, NEW w \in Staff,
                    \/ ClaimOpenWorkOrder(o, w)
                    \/ AcceptOffer(o, w)
                    \/ \E away \in Aways : DeclineOffer(o, w, away)
                    \/ StartWorkOrder(o, w)
                    \/ CompleteWorkOrder(o, w)
                    \/ ReportFailure(o, w)
             PROVE  SomeJobStep \/ Quiet
  BY DEF WorkerNext
<1>0. /\ asg[o] \in [Staff -> AssignmentRows] /\ asg = [asg EXCEPT ![o] = asg[o]]
      /\ order[o] \in OrderRows
      /\ RowsFit(asg[o], order[o].status)
  BY HolderIsRowsFit DEF TypeOK
<1>1. \A st : [order[o] EXCEPT !.status = st].status = st
  BY <1>0 DEF OrderRows
<1>2. ASSUME ClaimOpenWorkOrder(o, w)
      PROVE  SomeJobStep
  BY <1>2, BookSteps DEF ClaimOpenWorkOrder, Live
<1>3. ASSUME AcceptOffer(o, w)
      PROVE  SomeJobStep
  <2> DEFINE new == [order[o] EXCEPT !.status = "scheduled"]
             rows == [Withdraw(asg[o], {"offered", "accepted"}) EXCEPT
                         ![w] = Row("accepted", asg[o][w].slot)]
  <2>1. /\ SetOrder(o, new) /\ asg' = [asg EXCEPT ![o] = rows]
        /\ order[o].status = "offered"
    BY <1>3 DEF AcceptOffer
  <2>2. \A v \in Staff : rows[v].st \in Done => asg[o][v].st \in Done
    BY <1>0, NoWorkReported DEF Done
  <2>3. new.status \in Live /\ order[o].status \in Live
    BY <1>1, <2>1 DEF Live
  <2> HIDE DEF new, rows
  <2> QED BY <2>1, <2>2, <2>3, LiveJobWritten
<1>4. ASSUME NEW away \in Aways, DeclineOffer(o, w, away)
      PROVE  SomeJobStep
  <2> DEFINE new == [order[o] EXCEPT !.status = "scheduled"]
             rows == [asg[o] EXCEPT ![w] = Row("declined", NoSlot)]
             forced(f) == [Withdraw(rows, {"offered"}) EXCEPT
                              ![f] = Row("accepted", order[o].slot)]
  <2>1. /\ asg[o][w].st = "offered"
        /\ \/ \E f \in Forceable(o, away) :
                 asg' = [asg EXCEPT ![o] = forced(f)] /\ SetOrder(o, new)
           \/ asg' = [asg EXCEPT ![o] = rows] /\ UNCHANGED order
    BY <1>4 DEF DeclineOffer
  <2>2. order[o].status \in Live
    BY <1>0, <2>1 DEF RowsFit, Live
  <2>3. /\ rows \in [Staff -> AssignmentRows]
        /\ \A v \in Staff : rows[v].st \in Done => asg[o][v].st \in Done
    BY <1>0 DEF Row, AssignmentRows, RowStatus, Times, Done
  <2>4. ASSUME NEW f \in Forceable(o, away),
               asg' = [asg EXCEPT ![o] = forced(f)], SetOrder(o, new)
        PROVE  SomeJobStep
    <3>1. f \in Staff
      BY DEF Forceable, Candidates, Staff
    <3>2. new.status \in Live
      BY <1>1 DEF Live
    <3> HIDE DEF rows
    <3>3. \A v \in Staff : forced(f)[v].st \in Done => asg[o][v].st \in Done
      BY <2>3, <3>1, NoWorkReported DEF Done
    <3> HIDE DEF forced, new
    <3> QED BY <2>2, <2>4, <3>2, <3>3, LiveJobWritten
  <2>5. CASE asg' = [asg EXCEPT ![o] = rows] /\ UNCHANGED order
    <3>1. SetOrder(o, order[o])
      BY <2>5 DEF SetOrder, TypeOK
    <3> HIDE DEF rows
    <3> QED BY <2>2, <2>3, <2>5, <3>1, LiveJobWritten
  <2> QED BY <2>1, <2>4, <2>5
<1>5. ASSUME StartWorkOrder(o, w)
      PROVE  SomeJobStep
  <2>1. "in_progress" \in Live /\ "scheduled" \in Live
    BY DEF Live
  <2> QED BY <1>1, <1>5, <2>1, LiveStatusWritten DEF StartWorkOrder
<1>6. ASSUME NEW st, st \in Done, NEW alerts, MayFinish(o, w), Finish(o, w, st, st, alerts)
      PROVE  SomeJobStep
  <2> DEFINE new == [order[o] EXCEPT !.status = st]
             rows == [asg[o] EXCEPT ![w] = Row(st, NoSlot)]
  <2>1. SetOrder(o, new) /\ asg' = [asg EXCEPT ![o] = rows]
    BY <1>6 DEF Finish, TypeOK
  <2>2. new.status = st
    BY <1>1
  <2> HIDE DEF new
  <2>3. /\ order'[o] = new /\ asg'[o] = rows
        /\ \A p \in Orders \ {o} : Same(p)
    BY <2>1, JobWritten
  <2>4. FinishedBy(o, w)
    BY <1>6, <2>2, <2>3 DEF FinishedBy, MayFinish, Live
  <2> QED BY <2>3, <2>4 DEF SomeJobStep, JobStep
<1> QED
  BY <1>2, <1>3, <1>4, <1>5, <1>6 DEF CompleteWorkOrder, ReportFailure, Done

\* The residents' verbs.
LEMMA ResidentSteps == TypeOK /\ ResidentNext => SomeJobStep \/ Quiet
<1>1. ASSUME TypeOK, NEW c \in Complaints, NEW o \in Orders, NEW repool,
             ResidentCancelWork(c, o, repool)
      PROVE  SomeJobStep
  <2> DEFINE new == [order[o] EXCEPT !.status = "cancelled", !.byResident = TRUE]
             rows == Withdraw(asg[o], {"offered", "accepted"})
  <2>1. /\ SetOrder(o, new) /\ asg' = [asg EXCEPT ![o] = rows]
        /\ order[o].status \in Live
    BY <1>1 DEF ResidentCancelWork, Live
  <2>2. new.status = "cancelled"
    BY <1>1 DEF TypeOK, OrderRows
  <2>3. \A v \in Staff : rows[v].st \in Done => asg[o][v].st \in Done
    BY <1>1 DEF Done, Withdraw, Row
  <2> HIDE DEF new, rows
  <2> QED BY <1>1, <2>1, <2>2, <2>3, LiveJobWritten
<1>2. ASSUME TypeOK, NEW o \in Orders,
             \/ \E confirmed \in BOOLEAN : RespondToSchedule(o, confirmed)
             \/ \E slot \in Slots : ResidentSetsTime(o, slot)
      PROVE  SomeJobStep
  <2>1. PICK new : SetOrder(o, new) /\ new.status \in {"offered", "draft"}
    <3>1. order[o] \in OrderRows
      BY <1>2 DEF TypeOK
    <3>2. /\ [order[o] EXCEPT !.status = "offered"].status = "offered"
          /\ \A slot : /\ [order[o] EXCEPT !.status = "offered", !.slot = slot].status = "offered"
                       /\ [order[o] EXCEPT !.status = "draft", !.slot = slot].status = "draft"
      BY <3>1 DEF OrderRows
    <3> QED BY <1>2, <3>2 DEF RespondToSchedule, ResidentSetsTime
  <2>2. order[o].status \in Live /\ UNCHANGED asg
    BY <1>2 DEF RespondToSchedule, ResidentSetsTime, Live
  <2>3. new.status \in Live
    BY <2>1 DEF Live
  <2> QED BY <1>2, <2>1, <2>2, <2>3, LiveStatusWritten
<1>3. ASSUME NEW c \in Complaints,
             \/ \E high \in Highs : RaiseComplaint(c, high)
             \/ ReadToConfirm(c) \/ ConfirmResolution(c)
             \/ ReadToReopen(c) \/ ReopenComplaint(c)
      PROVE  Quiet
  BY <1>3, SameIsQuiet DEF RaiseComplaint, ReadToConfirm, ReadToReopen, Reads,
                           ConfirmResolution, ReopenComplaint
<1> QED BY <1>1, <1>2, <1>3 DEF ResidentNext

\* The office's verbs: a resolution by hand calls off all live jobs of the
\* complaint, which by OneLiveJob is one job at most.
LEMMA OfficeSteps == TypeOK /\ OneLiveJob /\ OfficeNext => SomeJobStep \/ Quiet
<1>1. ASSUME NEW c \in Complaints,
             TakeUpComplaint(c) \/ \E st \in HandStatuses : UpdateComplaint(c, st)
      PROVE  Quiet
  BY <1>1, SameIsQuiet DEF TakeUpComplaint, UpdateComplaint
<1>2. ASSUME TypeOK, NEW c \in Complaints, NEW high, RaisePriority(c, high)
      PROVE  Quiet
  <2>1. \A o \in Orders : order'[o].status = order[o].status
    BY <1>2 DEF RaisePriority, TypeOK, OrderRows
  <2> QED BY <1>2, <2>1, SameIsQuiet DEF RaisePriority
<1>3. ASSUME TypeOK, OneLiveJob, NEW c \in Complaints, SupervisorResolve(c)
      PROVE  SomeJobStep \/ Quiet
  <2>1. \A o \in Orders \ CalledOff(c) : Same(o)
    BY <1>3 DEF SupervisorResolve, Same
  <2>2. ASSUME NEW o \in CalledOff(c)
        PROVE  JobStep(o)
    <3>1. o \in Orders /\ order[o].status \in Live
      BY DEF CalledOff, LiveJobs, JobsOf
    <3>2. order'[o].status = "cancelled"
      BY <1>3, <3>1 DEF SupervisorResolve, TypeOK, OrderRows
    <3>3. \A v \in Staff : asg'[o][v].st \in Done => asg[o][v].st \in Done
      BY <1>3, <3>1 DEF SupervisorResolve, Withdraw, Row, Done
    <3>4. \A p \in Orders \ {o} : p \notin CalledOff(c)
      BY <1>3 DEF CalledOff, OneLiveJob
    <3> QED BY <2>1, <3>1, <3>2, <3>3, <3>4 DEF JobStep, MovedOn
  <2>3. CalledOff(c) \subseteq Orders
    BY DEF CalledOff, LiveJobs, JobsOf
  <2> QED BY <2>1, <2>2, <2>3 DEF SomeJobStep, Quiet
<1> QED BY <1>1, <1>2, <1>3 DEF OfficeNext

\* The dispatcher's handlers read the job again and write a live one only.
LEMMA DispatcherSteps == TypeOK /\ DispatcherNext => SomeJobStep \/ Quiet
<1>1. ASSUME UNCHANGED <<order, asg>>
      PROVE  Quiet
  BY <1>1, SameIsQuiet
<1>2. ASSUME TypeOK, NEW o \in Orders, BookFirstAvailable(o), order[o].status \in Live
      PROVE  SomeJobStep
  <2>1. PICK slot \in Slots : \E w \in Candidates(o, slot, {}, refused) :
                                 Book(o, w, slot, {"offered"})
    BY <1>2 DEF BookFirstAvailable
  <2>2. \A w \in Candidates(o, slot, {}, refused) : w \in Staff
    BY DEF Candidates, Staff
  <2> QED BY <1>2, <2>1, <2>2, BookSteps
<1>3. ASSUME TypeOK, NEW o \in Orders, NEW away, NEW picked \in SUBSET Members,
             FireManualWindow(o, away, picked)
      PROVE  SomeJobStep \/ Quiet
  <2> DEFINE sent == {w \in picked : asg[o][w].st # "offered"}
             rows == [w \in Staff |-> IF w \in sent THEN Row("offered", order[o].slot)
                                      ELSE asg[o][w]]
  <2>1. \/ UNCHANGED <<order, asg>>
        \/ /\ order[o].status = "offered"
           /\ asg' = [asg EXCEPT ![o] = rows] /\ UNCHANGED order
    BY <1>3 DEF FireManualWindow, PingCandidates, Skip, Alert
  <2>2. CASE /\ order[o].status = "offered"
             /\ asg' = [asg EXCEPT ![o] = rows] /\ UNCHANGED order
    <3>1. \A w \in Staff : rows[w].st \in Done => asg[o][w].st \in Done
      BY DEF Row, Done
    <3>2. SetOrder(o, order[o]) /\ order[o].status \in Live
      BY <1>3, <2>2 DEF SetOrder, TypeOK, Live
    <3> HIDE DEF rows
    <3> QED BY <1>3, <2>2, <3>1, <3>2, LiveJobWritten
  <2> QED BY <1>1, <2>1, <2>2
<1>4. ASSUME TypeOK, NEW o \in Orders, NEW away, FireAutoAssign(o, away)
      PROVE  SomeJobStep \/ Quiet
  <2>1. \/ UNCHANGED <<order, asg>>
        \/ /\ order[o].status \in Live
           /\ \E w \in Staff : Book(o, w, order[o].slot, {"offered"})
    BY <1>4 DEF FireAutoAssign, Skip, Alert, Candidates, Staff, Live
  <2> QED BY <1>1, <1>4, <2>1, BookSteps
<1>5. ASSUME TypeOK, NEW o \in Orders, FireResidentTimeout(o)
      PROVE  SomeJobStep \/ Quiet
  <2> DEFINE st == IF order[o].slot # NoSlot THEN "offered" ELSE "draft"
             new == [order[o] EXCEPT !.status = st]
  <2>1. \/ UNCHANGED <<order, asg>>
        \/ order[o].status \in Live /\ BookFirstAvailable(o)
        \/ order[o].status \in Live /\ SetOrder(o, new) /\ UNCHANGED asg
    BY <1>5 DEF FireResidentTimeout, ProceedUnanswered, Skip, Live
  <2>2. new.status \in Live
    BY <1>5 DEF TypeOK, OrderRows, Live
  <2> HIDE DEF new
  <2> QED BY <1>1, <1>2, <1>5, <2>1, <2>2, LiveStatusWritten
<1>6. ASSUME TypeOK, NEW o \in Orders, FireFacilityAutoAssign(o)
      PROVE  SomeJobStep \/ Quiet
  <2>1. \/ UNCHANGED <<order, asg>>
        \/ order[o].status \in Live /\ BookFirstAvailable(o)
    BY <1>6 DEF FireFacilityAutoAssign, Skip, Alert, Live
  <2> QED BY <1>1, <1>2, <1>6, <2>1
<1>7. ASSUME NEW o \in Orders,
             \/ FireFailedVisitEscalation(o)
             \/ \E kind \in OrderTimer : RetireTimer(o, kind)
      PROVE  Quiet
  BY <1>1, <1>7 DEF FireFailedVisitEscalation, RetireTimer, Skip, Alert
<1>8. ASSUME NEW c \in Complaints, NEW kind \in ComplaintTimer,
             FireAutoClose(c, kind) \/ RetireComplaintTimer(c, kind)
      PROVE  Quiet
  BY <1>1, <1>8 DEF FireAutoClose, RetireComplaintTimer
<1> QED
  BY <1>3, <1>4, <1>5, <1>6, <1>7, <1>8 DEF DispatcherNext, FireOrder

\* Every step writes one job in one of four ways, or none.
LEMMA StepsOfJobs ==
    TypeOK /\ HolderMatchesJob /\ OneLiveJob /\ [Next]_vars => SomeJobStep \/ Quiet
<1>1. UNCHANGED vars => Quiet
  BY SameIsQuiet DEF vars
<1> QED
  BY <1>1, SupervisorSteps, WorkerSteps, ResidentSteps, OfficeSteps, DispatcherSteps
  DEF Next

-------------------------------------------------------------------------------
(* The invariants the step lemma needs.                                        *)

Agree == TypeOK /\ HolderMatchesJob /\ OneLiveJob

\* All three hold throughout.
LEMMA AlwaysAgree == Spec => []Agree
BY TypeCorrect, HolderAgrees, OneJobAtATime, PTL DEF Agree

\* A finished job stays finished, and so does what its staff did on it; a
\* failed one may still be called off. No late call of a supervisor, a worker,
\* a resident or a timer revives one.
THEOREM FinishedForGood == Spec => FinishedJobsStay
<1> DEFINE Stay == \A o \in Orders :
                      /\ order[o].status \in {"completed", "cancelled"}
                         => order'[o].status = order[o].status /\ asg'[o] = asg[o]
                      /\ order[o].status = "failed"
                         => order'[o].status \in {"failed", "cancelled"}
<1>1. Agree /\ [Next]_vars => Stay
  <2> SUFFICES ASSUME Agree, [Next]_vars, NEW p \in Orders
               PROVE  /\ order[p].status \in {"completed", "cancelled"} => Same(p)
                      /\ order[p].status = "failed"
                         => order'[p].status \in {"failed", "cancelled"}
    BY DEF Same
  <2>1. CASE Quiet
    BY <2>1 DEF Quiet, Same
  <2>2. ASSUME NEW o \in Orders, JobStep(o)
        PROVE  /\ order[p].status \in {"completed", "cancelled"} => Same(p)
               /\ order[p].status = "failed"
                  => order'[p].status \in {"failed", "cancelled"}
    <3>1. CASE p # o
      BY <2>2, <3>1 DEF JobStep, Same
    <3>2. CASE p = o
      BY <2>2, <3>2 DEF JobStep, Raised, MovedOn, WrittenOff, FinishedBy, Live
    <3> QED BY <3>1, <3>2
  <2> QED BY <2>1, <2>2, StepsOfJobs DEF Agree, SomeJobStep
<1>2. Agree /\ [Next]_vars => [Stay]_vars
  BY <1>1
<1> HIDE DEF Stay
<1>3. FinishedJobsStay <=> [][Stay]_vars
  BY DEF FinishedJobsStay, Stay
<1> QED BY <1>2, <1>3, AlwaysAgree, PTL DEF Spec

\* Whoever declined this very job is neither offered it nor booked on it by a
\* timer: the candidate query leaves them out, for any number of timers, staff
\* and jobs.
THEOREM RefusalsRespected == Spec => EngineRespectsRefusals
<1> DEFINE Respect == \A o \in Orders : FireOrder(o) =>
                         \A w \in Staff :
                             /\ <<o, w>> \in refused
                             /\ asg[o][w].st \notin {"offered", "accepted"}
                             => asg'[o][w].st \notin {"offered", "accepted"}
<1>1. TypeOK => Respect
  <2> SUFFICES ASSUME TypeOK, NEW o \in Orders, FireOrder(o), NEW w \in Staff,
                      <<o, w>> \in refused,
                      asg[o][w].st \notin {"offered", "accepted"}
               PROVE  asg'[o][w].st \notin {"offered", "accepted"}
    OBVIOUS
  <2>0. asg[o] \in [Staff -> AssignmentRows]
    BY DEF TypeOK
  <2>1. \A slot, away : w \notin Candidates(o, slot, away, refused)
    BY DEF Candidates
  <2>2. ASSUME UNCHANGED asg
        PROVE  asg'[o][w].st \notin {"offered", "accepted"}
    BY <2>2
  <2>3. ASSUME NEW v \in Staff, v # w, NEW slot, Book(o, v, slot, {"offered"})
        PROVE  asg'[o][w].st \notin {"offered", "accepted"}
    BY <2>0, <2>3 DEF Book, Withdraw, TypeOK
  <2>4. ASSUME BookFirstAvailable(o)
        PROVE  asg'[o][w].st \notin {"offered", "accepted"}
    <3>1. PICK slot \in Slots : \E v \in Candidates(o, slot, {}, refused) :
                                   Book(o, v, slot, {"offered"})
      BY <2>4 DEF BookFirstAvailable
    <3>2. Candidates(o, slot, {}, refused) \subseteq Staff
      BY DEF Candidates, Staff
    <3> QED BY <2>1, <2>3, <3>1, <3>2
  <2>5. ASSUME NEW away, NEW picked \in SUBSET Members, FireManualWindow(o, away, picked)
        PROVE  asg'[o][w].st \notin {"offered", "accepted"}
    <3> DEFINE sent == {v \in picked : asg[o][v].st # "offered"}
               rows == [v \in Staff |-> IF v \in sent THEN Row("offered", order[o].slot)
                                        ELSE asg[o][v]]
    <3>1. \/ UNCHANGED asg
          \/ asg' = [asg EXCEPT ![o] = rows] /\ w \notin picked
      BY <2>1, <2>5 DEF FireManualWindow, PingCandidates, Skip, Alert
    <3> QED BY <2>2, <3>1 DEF TypeOK
  <2>6. ASSUME NEW away, FireAutoAssign(o, away)
        PROVE  asg'[o][w].st \notin {"offered", "accepted"}
    <3>1. \/ UNCHANGED asg
          \/ \E v \in Candidates(o, order[o].slot, away, refused) :
                Book(o, v, order[o].slot, {"offered"})
      BY <2>6 DEF FireAutoAssign, Skip, Alert
    <3>2. Candidates(o, order[o].slot, away, refused) \subseteq Staff
      BY DEF Candidates, Staff
    <3> QED BY <2>1, <2>2, <2>3, <3>1, <3>2
  <2>7. ASSUME FireResidentTimeout(o) \/ FireFacilityAutoAssign(o)
        PROVE  asg'[o][w].st \notin {"offered", "accepted"}
    BY <2>2, <2>4, <2>7
    DEF FireResidentTimeout, FireFacilityAutoAssign, ProceedUnanswered, Skip, Alert
  <2>8. ASSUME FireFailedVisitEscalation(o)
        PROVE  asg'[o][w].st \notin {"offered", "accepted"}
    BY <2>2, <2>8 DEF FireFailedVisitEscalation, Skip, Alert
  <2> QED BY <2>5, <2>6, <2>7, <2>8 DEF FireOrder
<1>2. TypeOK /\ [Next]_vars => [Respect]_vars
  BY <1>1
<1> HIDE DEF Respect
<1>3. EngineRespectsRefusals <=> [][Respect]_vars
  BY DEF EngineRespectsRefusals, Respect
<1> QED BY <1>2, <1>3, TypeCorrect, PTL DEF Spec

-------------------------------------------------------------------------------
(* The engine implements JobBoard.                                             *)

\* Work is reported on a job by one person at most, and only when it is over.
DoneRowsFit ==
    \A o \in Orders :
        /\ \A v, w \in Holding(o, Done) : v = w
        /\ Holding(o, Done) # {} => order[o].status \in OrderStatus \ Live

\* Work is reported on live jobs only, by the holder, and ends them.
LEMMA DoneRowsKept ==
    Agree /\ DoneRowsFit /\ (SomeJobStep \/ Quiet) => DoneRowsFit'
<1> SUFFICES ASSUME Agree, DoneRowsFit, SomeJobStep \/ Quiet, NEW p \in Orders
             PROVE  /\ \A v, w \in Holding(p, Done)' : v = w
                    /\ Holding(p, Done)' # {} => order'[p].status \in OrderStatus \ Live
  BY DEF DoneRowsFit
<1>1. CASE Same(p)
  BY <1>1 DEF Same, DoneRowsFit, Holding
<1>2. ASSUME JobStep(p)
      PROVE  /\ \A v, w \in Holding(p, Done)' : v = w
             /\ Holding(p, Done)' # {} => order'[p].status \in OrderStatus \ Live
  <2>1. CASE Raised(p)
    BY <2>1 DEF Raised, DoneRowsFit, Holding, OrderStatus, Live
  <2>2. CASE MovedOn(p)
    <3>1. Holding(p, Done) = {}
      BY <2>2 DEF MovedOn, DoneRowsFit
    <3>2. Holding(p, Done)' = {}
      BY <2>2, <3>1 DEF MovedOn, Holding
    <3> QED BY <3>2
  <2>3. CASE WrittenOff(p)
    BY <2>3 DEF WrittenOff, DoneRowsFit, Holding, OrderStatus, Live
  <2>4. ASSUME NEW w \in Staff, FinishedBy(p, w)
        PROVE  /\ \A v, u \in Holding(p, Done)' : v = u
               /\ Holding(p, Done)' # {} => order'[p].status \in OrderStatus \ Live
    <3>1. Holding(p, Done) = {}
      BY <2>4 DEF FinishedBy, DoneRowsFit
    <3>2. Holding(p, Done)' \subseteq {w}
      BY <2>4, <3>1 DEF FinishedBy, Holding, Agree, TypeOK
    <3>3. order'[p].status \in OrderStatus \ Live
      BY <2>4 DEF FinishedBy, Done, OrderStatus, Live
    <3> QED BY <3>2, <3>3
  <2> QED BY <1>2, <2>1, <2>2, <2>3, <2>4 DEF JobStep
<1> QED BY <1>1, <1>2 DEF SomeJobStep, JobStep, Quiet

\* Somebody of a set, or nobody.
OneOf(S) == IF S = {} THEN NoSlot ELSE CHOOSE w \in S : TRUE

\* Of a set of one it is that one, of any other not empty one of its members.
LEMMA OneOfOne ==
    /\ OneOf({}) = NoSlot
    /\ \A w : OneOf({w}) = w
    /\ \A S : S # {} => OneOf(S) \in S
BY DEF OneOf

\* What the board sees of a job.
Seen(o) == <<Phase(o), TheOne(o, {"accepted"}), TheOne(o, Done)>>

\* A step on one job is seen by the board as a step on that job.
LEMMA SeenStep ==
    ASSUME TypeOK, TypeOK', NEW o \in Orders,
           \A p \in Orders \ {o} : Same(p),
           NEW ph, NEW h, NEW d, Seen(o)' = <<ph, h, d>>
    PROVE  Board!Move(o, ph, h, d)
<1>1. ASSUME NEW p \in Orders, p # o
      PROVE  /\ Phase(p)' = Phase(p)
             /\ TheOne(p, {"accepted"})' = TheOne(p, {"accepted"})
             /\ TheOne(p, {"completed", "failed"})' = TheOne(p, {"completed", "failed"})
  <2>1. order'[p].status = order[p].status /\ asg'[p] = asg[p]
    BY <1>1 DEF Same
  <2>2. \A sts : Holding(p, sts)' = Holding(p, sts)
    BY <2>1 DEF Holding
  <2>3. Phase(p)' = Phase(p)
    BY <2>1, <2>2 DEF Phase
  <2>4. /\ TheOne(p, {"accepted"})' = TheOne(p, {"accepted"})
        /\ TheOne(p, {"completed", "failed"})' = TheOne(p, {"completed", "failed"})
    <3>1. /\ Holding(p, {"accepted"})' = Holding(p, {"accepted"})
          /\ Holding(p, {"completed", "failed"})' = Holding(p, {"completed", "failed"})
      BY <2>2
    <3>2. \A sts : /\ TheOne(p, sts) = OneOf(Holding(p, sts))
                  /\ TheOne(p, sts)' = OneOf(Holding(p, sts)')
      BY Zenon DEF TheOne, OneOf
    <3> QED BY <3>1, <3>2
  <2> QED BY <2>3, <2>4
<1>2. /\ Phase(o)' = ph /\ TheOne(o, {"accepted"})' = h
      /\ TheOne(o, {"completed", "failed"})' = d
  BY DEF Seen, Done
<1> QED BY <1>1, <1>2 DEF Board!Move

Held(o, w) ==
    /\ asg[o][w].st = "accepted"
    /\ Seen(o) = <<"held", w, NoSlot>>

\* The board sees a live job as held by the one with the accepted row, or as
\* looking for somebody, and any other job as nobody's.
SeenFits ==
    \A o \in Orders :
        /\ order[o].status = "none" => Seen(o) = <<"absent", NoSlot, NoSlot>>
        /\ order[o].status \in Live =>
              \/ Seen(o) = <<"looking", NoSlot, NoSlot>>
              \/ \E w \in Staff : Held(o, w)
        /\ order[o].status \in OrderStatus \ Live =>
              \E d \in Staff \union {NoSlot} :
                 /\ Seen(o) = <<"over", NoSlot, d>>
                 /\ \A w \in Staff : asg[o][w].st \in Done => d = w
                 /\ (\A w \in Staff : asg[o][w].st \notin Done) => d = NoSlot

\* That is what the invariants come to for the board.
LEMMA SeenFitsAlways == Agree /\ DoneRowsFit => SeenFits
<1> SUFFICES ASSUME Agree, DoneRowsFit, NEW o \in Orders
             PROVE  /\ order[o].status = "none" => Seen(o) = <<"absent", NoSlot, NoSlot>>
                    /\ order[o].status \in Live =>
                          \/ Seen(o) = <<"looking", NoSlot, NoSlot>>
                          \/ \E w \in Staff : Held(o, w)
                    /\ order[o].status \in OrderStatus \ Live =>
                          \E d \in Staff \union {NoSlot} :
                             /\ Seen(o) = <<"over", NoSlot, d>>
                             /\ \A w \in Staff : asg[o][w].st \in Done => d = w
                             /\ (\A w \in Staff : asg[o][w].st \notin Done) => d = NoSlot
  BY DEF SeenFits
<1> DEFINE acc == Holding(o, {"accepted"})
           done == Holding(o, Done)
<1>1. Seen(o) = <<Phase(o), OneOf(acc), OneOf(done)>>
  BY Zenon DEF Seen, TheOne, OneOf
<1>2. /\ acc # {} <=> order[o].status \in {"scheduled", "in_progress"}
      /\ \A v, w \in acc : v = w
      /\ done # {} => order[o].status \in OrderStatus \ Live
      /\ \A v, w \in done : v = w
      /\ acc \subseteq Staff /\ done \subseteq Staff
  BY DEF Agree, HolderMatchesJob, DoneRowsFit, Holding
<1>3. /\ \A w : w \in acc <=> w \in Staff /\ asg[o][w].st = "accepted"
      /\ \A w : w \in done <=> w \in Staff /\ asg[o][w].st \in Done
  BY DEF Holding
<1>4. Phase(o) = CASE order[o].status = "none" -> "absent"
                   [] order[o].status \in OrderStatus \ Live -> "over"
                   [] acc # {} -> "held"
                   [] OTHER -> "looking"
  BY DEF Phase
<1> HIDE DEF acc, done
<1>5. CASE order[o].status = "none"
  <2>1. acc = {} /\ done = {} /\ Phase(o) = "absent" /\ order[o].status \notin OrderStatus
    BY <1>2, <1>4, <1>5 DEF OrderStatus, Live
  <2> QED BY <1>1, <2>1, OneOfOne, <1>5 DEF Live, OrderStatus
<1>6. CASE order[o].status \in Live
  <2>1. done = {} /\ order[o].status # "none" /\ order[o].status \notin OrderStatus \ Live
    BY <1>2, <1>6 DEF Live
  <2>2. CASE acc = {}
    <3>1. Phase(o) = "looking"
      BY <1>4, <2>1, <2>2
    <3> QED BY <1>1, <2>1, <2>2, <3>1, OneOfOne
  <2>3. CASE acc # {}
    <3>1. PICK w \in acc : acc = {w}
      BY <1>2, <2>3
    <3>2. Phase(o) = "held"
      BY <1>4, <2>1, <2>3
    <3>3. Held(o, w) /\ w \in Staff
      BY <1>1, <1>3, <2>1, <3>1, <3>2, OneOfOne DEF Held
    <3> QED BY <2>1, <3>3
  <2> QED BY <2>2, <2>3
<1>7. CASE order[o].status \in OrderStatus \ Live
  <2>1. acc = {} /\ order[o].status # "none" /\ Phase(o) = "over"
    BY <1>2, <1>4, <1>7 DEF OrderStatus, Live
  <2>2. Seen(o) = <<"over", NoSlot, OneOf(done)>>
    BY <1>1, <2>1, OneOfOne
  <2>3. done = {} \/ \E w \in done : done = {w}
    BY <1>2
  <2>4. /\ OneOf(done) \in Staff \union {NoSlot}
        /\ \A w \in Staff : asg[o][w].st \in Done => OneOf(done) = w
        /\ (\A w \in Staff : asg[o][w].st \notin Done) => OneOf(done) = NoSlot
    BY <1>2, <1>3, <2>3, OneOfOne
  <2> QED BY <1>7, <2>1, <2>2, <2>4
<1>8. order[o].status \in OrderStatus \union {"none"}
  BY DEF Agree, TypeOK, OrderRows
<1> QED BY <1>5, <1>6, <1>7, <1>8

\* A step that moves no job is not seen.
LEMMA QuietUnseen ==
    ASSUME \A o \in Orders : Seen(o)' = Seen(o)
    PROVE  UNCHANGED Board!jobVars
<1>1. ASSUME NEW o \in Orders
      PROVE  /\ Phase(o)' = Phase(o)
             /\ TheOne(o, {"accepted"})' = TheOne(o, {"accepted"})
             /\ TheOne(o, {"completed", "failed"})' = TheOne(o, {"completed", "failed"})
  BY DEF Seen, Done
<1> QED BY <1>1 DEF Board!jobVars

\* A job that keeps its status and rows is seen as before.
LEMMA SameSeen ==
    ASSUME NEW o \in Orders, Same(o)
    PROVE  Seen(o)' = Seen(o)
<1>1. \A sts : Holding(o, sts)' = Holding(o, sts)
  BY DEF Same, Holding
<1>2. Phase(o)' = Phase(o)
  BY <1>1 DEF Same, Phase
<1>3. \A sts : /\ TheOne(o, sts) = OneOf(Holding(o, sts))
               /\ TheOne(o, sts)' = OneOf(Holding(o, sts)')
  BY Zenon DEF TheOne, OneOf
<1> QED BY <1>1, <1>2, <1>3 DEF Seen, Done

\* Each of the four ways to write a job is a step of the board, or unseen.
LEMMA JobStepIsBoards ==
    ASSUME Agree, Agree', DoneRowsFit, SeenFits, SeenFits', NEW o \in Orders, JobStep(o)
    PROVE  Board!BoardNext \/ UNCHANGED Board!jobVars
<1>0. TypeOK /\ TypeOK' /\ \A p \in Orders \ {o} : Same(p)
  BY DEF Agree, JobStep
<1>1. \A ph, h, d : Seen(o)' = <<ph, h, d>> => Board!Move(o, ph, h, d)
  BY <1>0, SeenStep
<1>2. Seen(o)' = Seen(o) => UNCHANGED Board!jobVars
  BY <1>0, SameSeen, QuietUnseen
<1>3. \A ph, h, d : Seen(o) = <<ph, h, d>> => Phase(o) = ph /\ TheOne(o, {"accepted"}) = h
  BY DEF Seen
<1>4. CASE Raised(o)
  <2>1. Seen(o) = <<"absent", NoSlot, NoSlot>>
    BY <1>4 DEF Raised, SeenFits
  <2>2. \A w \in Staff : asg'[o][w].st # "accepted"
    BY <1>4 DEF Raised, Agree, HolderMatchesJob, Holding
  <2>3. Seen(o)' = <<"looking", NoSlot, NoSlot>>
    BY <1>4, <2>2 DEF Raised, SeenFits, Held
  <2>4. Board!Raise(o)
    BY <1>1, <1>3, <2>1, <2>3 DEF Board!Raise
  <2> QED BY <2>4 DEF Board!BoardNext
<1>5. CASE MovedOn(o)
  <2>1. \/ Seen(o) = <<"looking", NoSlot, NoSlot>>
        \/ \E w \in Staff : Seen(o) = <<"held", w, NoSlot>>
    BY <1>5 DEF MovedOn, SeenFits, Held
  <2>2. Phase(o) \in {"looking", "held"}
    BY <1>3, <2>1
  <2>3. CASE order'[o].status \in Live
    <3>1. \/ Seen(o)' = <<"looking", NoSlot, NoSlot>>
          \/ \E w \in Staff : Seen(o)' = <<"held", w, NoSlot>>
      BY <2>3 DEF SeenFits, Held
    <3>2. ASSUME NEW w \in Staff, Seen(o)' = <<"held", w, NoSlot>>
          PROVE  Board!BoardNext
      <4>1. Board!Engage(o, w)
        BY <1>1, <2>2, <3>2 DEF Board!Engage
      <4> QED BY <4>1 DEF Board!BoardNext
    <3>3. CASE Seen(o)' = <<"looking", NoSlot, NoSlot>> /\ Phase(o) = "held"
      <4>1. Board!Release(o)
        BY <1>1, <3>3 DEF Board!Release
      <4> QED BY <4>1 DEF Board!BoardNext
    <3>4. CASE Seen(o)' = <<"looking", NoSlot, NoSlot>> /\ Phase(o) = "looking"
      <4>1. Seen(o) = <<"looking", NoSlot, NoSlot>>
        BY <1>3, <2>1, <3>4
      <4> QED BY <1>2, <3>4, <4>1
    <3> QED BY <2>2, <3>1, <3>2, <3>3, <3>4
  <2>4. CASE order'[o].status = "cancelled"
    <3>1. \A w \in Staff : asg'[o][w].st \notin Done
      BY <1>5 DEF MovedOn, DoneRowsFit, Holding
    <3>2. Seen(o)' = <<"over", NoSlot, NoSlot>>
      BY <2>4, <3>1 DEF SeenFits, OrderStatus, Live
    <3>3. Board!Drop(o)
      BY <1>1, <2>2, <3>2 DEF Board!Drop
    <3> QED BY <3>3 DEF Board!BoardNext
  <2> QED BY <1>5, <2>3, <2>4 DEF MovedOn
<1>6. CASE WrittenOff(o)
  <2>1. order[o].status \in OrderStatus \ Live /\ order'[o].status \in OrderStatus \ Live
    BY <1>6 DEF WrittenOff, OrderStatus, Live
  <2>2. PICK d \in Staff \union {NoSlot} :
           /\ Seen(o) = <<"over", NoSlot, d>>
           /\ \A w \in Staff : asg[o][w].st \in Done => d = w
           /\ (\A w \in Staff : asg[o][w].st \notin Done) => d = NoSlot
    BY <2>1 DEF SeenFits
  <2>3. PICK e \in Staff \union {NoSlot} :
           /\ Seen(o)' = <<"over", NoSlot, e>>
           /\ \A w \in Staff : asg'[o][w].st \in Done => e = w
           /\ (\A w \in Staff : asg'[o][w].st \notin Done) => e = NoSlot
    BY <2>1 DEF SeenFits
  <2>4. d = e
    BY <1>6, <2>2, <2>3 DEF WrittenOff
  <2> QED BY <1>2, <2>2, <2>3, <2>4
<1>7. ASSUME NEW w \in Staff, FinishedBy(o, w)
      PROVE  Board!BoardNext
  <2>1. PICK v \in Staff : Held(o, v)
    <3>1. order[o].status \in {"scheduled", "in_progress"}
      BY <1>7 DEF FinishedBy, Agree, HolderMatchesJob, Holding
    <3>2. Seen(o) # <<"looking", NoSlot, NoSlot>>
      <4>1. Phase(o) = "held"
        BY <1>7, <3>1 DEF FinishedBy, Phase, Holding, OrderStatus, Live
      <4> QED BY <4>1 DEF Seen
    <3> QED BY <1>7, <3>2 DEF FinishedBy, SeenFits
  <2>2. v = w
    BY <1>7, <2>1 DEF FinishedBy, Held, Agree, HolderMatchesJob, Holding
  <2>3. Phase(o) = "held" /\ TheOne(o, {"accepted"}) = w
    BY <1>3, <2>1, <2>2 DEF Held
  <2>4. asg'[o][w].st \in Done /\ order'[o].status \in OrderStatus \ Live
    BY <1>0, <1>7 DEF FinishedBy, TypeOK, Row, Done, OrderStatus, Live
  <2>5. Seen(o)' = <<"over", NoSlot, w>>
    BY <2>4 DEF SeenFits
  <2>6. Board!Finish(o)
    BY <1>1, <2>3, <2>5 DEF Board!Finish
  <2> QED BY <2>6 DEF Board!BoardNext
<1> QED BY <1>4, <1>5, <1>6, <1>7 DEF JobStep

\* The engine implements JobBoard: whatever supervisors, workers, residents,
\* the office and the timers do, a job looks for somebody, is held by one
\* person at a time, is finished by that person alone or called off, and stays
\* as it ended.
THEOREM EngineKeepsTheBoard == Spec => KeepsTheBoard
<1>1. Init => Board!BoardInit
  <2> SUFFICES ASSUME Init, NEW o \in Orders
               PROVE  /\ Phase(o) = "absent"
                      /\ TheOne(o, {"accepted"}) = NoSlot
                      /\ TheOne(o, {"completed", "failed"}) = NoSlot
    BY DEF Board!BoardInit
  <2>1. Holding(o, {"accepted"}) = {} /\ Holding(o, {"completed", "failed"}) = {}
    BY DEF Init, Holding, NoRow
  <2>2. order[o].status = "none"
    BY DEF Init
  <2>3. Phase(o) = "absent"
    BY <2>1, <2>2 DEF Phase, OrderStatus, Live
  <2> QED BY <2>1, <2>3 DEF TheOne
<1>2. Init => DoneRowsFit
  BY DEF Init, DoneRowsFit, Holding, NoRow, Done
<1>3. Agree /\ DoneRowsFit /\ [Next]_vars => DoneRowsFit'
  BY DoneRowsKept, StepsOfJobs DEF Agree
<1>4. Spec => [](Agree /\ DoneRowsFit /\ SeenFits)
  BY <1>2, <1>3, AlwaysAgree, SeenFitsAlways, PTL DEF Spec
<1>5. /\ Agree /\ DoneRowsFit /\ SeenFits
      /\ Agree' /\ DoneRowsFit' /\ SeenFits'
      /\ [Next]_vars
      => [Board!BoardNext]_(Board!jobVars)
  <2> SUFFICES ASSUME Agree, DoneRowsFit, SeenFits, Agree', SeenFits', [Next]_vars
               PROVE  Board!BoardNext \/ UNCHANGED Board!jobVars
    OBVIOUS
  <2>1. CASE Quiet
    BY <2>1, SameSeen, QuietUnseen DEF Quiet
  <2>2. ASSUME NEW o \in Orders, JobStep(o)
        PROVE  Board!BoardNext \/ UNCHANGED Board!jobVars
    BY <2>2, JobStepIsBoards
  <2> QED BY <2>1, <2>2, StepsOfJobs DEF Agree, SomeJobStep
<1> QED BY <1>1, <1>4, <1>5, PTL DEF Spec, KeepsTheBoard, Board!BoardSpec

-------------------------------------------------------------------------------
(* Complaints move forward.                                                    *)

\* What the ranks are.
LEMMA Ranks ==
    /\ Rank("none") = 1 /\ Rank("open") = 2 /\ Rank("acknowledged") = 3
    /\ Rank("in_progress") = 4 /\ Rank("resolved") = 5 /\ Rank("closed") = 6
    /\ Rank("cancelled") = 7
<1>1. /\ Progress[1] = "none" /\ Progress[2] = "open" /\ Progress[3] = "acknowledged"
      /\ Progress[4] = "in_progress" /\ Progress[5] = "resolved" /\ Progress[6] = "closed"
  BY DEF Progress
<1>2. ASSUME NEW k \in 1..6
      PROVE  (CHOOSE i \in 1..6 : Progress[i] = Progress[k]) = k
  <2>1. \A i \in 1..6 : Progress[i] = Progress[k] => i = k
    BY <1>1
  <2> QED BY <2>1
<1> QED BY <1>1, <1>2 DEF Rank

\* The step takes no complaint back.
Forward ==
    \A c \in Complaints : ~(Rank(complaint'[c].status) < Rank(complaint[c].status))

\* No job becomes one that its resident called off.
NoneFlagged ==
    \A o \in Orders : order'[o].byResident = TRUE => order[o].byResident = TRUE

\* A complaint that is written moves forward, or keeps its place.
LEMMA StatusForward ==
    ASSUME TypeOK, NEW c \in Complaints, NEW row,
           complaint' = [complaint EXCEPT ![c] = row],
           ~(Rank(row.status) < Rank(complaint[c].status))
    PROVE  Forward
<1>1. \A d \in Complaints : Rank(complaint[d].status) \in Nat
  BY Ranks DEF TypeOK, ComplaintRows, ComplaintStatus
<1> QED BY <1>1 DEF TypeOK, Forward

\* A step that writes no complaint, or no more of it than that it is acknowledged
\* or out of the pool.
LEMMA SameComplaintsForward ==
    ASSUME TypeOK, UNCHANGED complaint
    PROVE  Forward
<1>1. \A d \in Complaints : Rank(complaint[d].status) \in Nat
  BY Ranks DEF TypeOK, ComplaintRows, ComplaintStatus
<1> QED BY <1>1 DEF Forward

LEMMA AcknowledgedForward ==
    ASSUME TypeOK, NEW c \in Complaints, complaint' = Acknowledged(c)
    PROVE  Forward
<1> DEFINE row == [complaint[c] EXCEPT !.status =
                      IF complaint[c].status = "open" THEN "acknowledged"
                      ELSE complaint[c].status]
<1>1. complaint' = [complaint EXCEPT ![c] = row]
  BY DEF Acknowledged, TypeOK
<1>2. /\ complaint[c].status \in ComplaintStatus \union {"none"}
      /\ row.status = IF complaint[c].status = "open" THEN "acknowledged"
                      ELSE complaint[c].status
  BY DEF TypeOK, ComplaintRows
<1>3. ~(Rank(row.status) < Rank(complaint[c].status))
  BY <1>2, Ranks DEF ComplaintStatus
<1> HIDE DEF row
<1> QED BY <1>1, <1>3, StatusForward

\* One job is written, or none.
LEMMA JobFlagged ==
    ASSUME TypeOK, NEW o \in Orders, NEW new, SetOrder(o, new),
           new.byResident = TRUE => order[o].byResident = TRUE
    PROVE  NoneFlagged
BY DEF TypeOK, SetOrder, NoneFlagged

\* Booking a job.
LEMMA BookForward ==
    ASSUME TypeOK, NEW o \in Orders, NEW w, NEW slot, NEW ended, Book(o, w, slot, ended)
    PROVE  NoneFlagged /\ Forward
<1> DEFINE new == [order[o] EXCEPT !.status = "scheduled", !.slot = slot]
<1>1. SetOrder(o, new) /\ complaint' = Acknowledged(ComplaintOf[o])
  BY DEF Book
<1>2. new.byResident = order[o].byResident
  BY DEF TypeOK, OrderRows
<1> HIDE DEF new
<1> QED BY <1>1, <1>2, IdsAssumption, JobFlagged, AcknowledgedForward

\* The supervisor's verbs.
LEMMA SupervisorForward == TypeOK /\ SupervisorNext => NoneFlagged /\ Forward
<1> SUFFICES ASSUME TypeOK, NEW o \in Orders,
                    \/ \E kind \in Kinds, slot \in RaiseSlots : CreateWorkOrder(o, kind, slot)
                    \/ \E kind \in Kinds, high \in Highs : UpdateWorkOrder(o, kind, high)
                    \/ \E slot \in RescheduleSlots : RescheduleWorkOrder(o, slot)
                    \/ \E w \in Staff, slot \in RescheduleSlots \union {NoSlot} :
                          \/ AssignWorkOrder(o, w, slot)
                          \/ BookOutright(o, w, slot)
                    \/ CancelWorkOrder(o)
             PROVE  NoneFlagged /\ Forward
  BY DEF SupervisorNext, ForceAssignWorkOrder, TakeUpWorkOrder
<1>0. order[o] \in OrderRows /\ ComplaintOf[o] \in Complaints
  BY IdsAssumption DEF TypeOK
<1>1. ASSUME NEW kind, NEW slot, CreateWorkOrder(o, kind, slot)
      PROVE  NoneFlagged /\ Forward
  <2>1. NoneFlagged
    BY <1>1, JobFlagged DEF CreateWorkOrder
  <2> DEFINE c == ComplaintOf[o]
             row == [complaint[c] EXCEPT !.returned = FALSE]
  <2>2. complaint' = [complaint EXCEPT ![c] = row]
    BY <1>0, <1>1 DEF CreateWorkOrder, OutOfPool, TypeOK
  <2>3. ~(Rank(row.status) < Rank(complaint[c].status))
    <3>1. complaint[c] \in ComplaintRows
      BY <1>0 DEF TypeOK
    <3>2. row.status = complaint[c].status /\ Rank(complaint[c].status) \in Nat
      BY <3>1, Ranks DEF ComplaintRows, ComplaintStatus
    <3> QED BY <3>2
  <2> HIDE DEF row
  <2>4. Forward
    BY <1>0, <2>2, <2>3, StatusForward
  <2> QED BY <2>1, <2>4
<1>2. ASSUME NEW kind, NEW high, UpdateWorkOrder(o, kind, high)
      PROVE  NoneFlagged /\ Forward
  BY <1>0, <1>2, JobFlagged, SameComplaintsForward DEF UpdateWorkOrder, OrderRows
<1>3. ASSUME NEW slot, RescheduleWorkOrder(o, slot)
      PROVE  NoneFlagged /\ Forward
  BY <1>0, <1>3, JobFlagged, SameComplaintsForward DEF RescheduleWorkOrder, OrderRows
<1>4. ASSUME NEW w, NEW slot, AssignWorkOrder(o, w, slot)
      PROVE  NoneFlagged /\ Forward
  BY <1>0, <1>4, JobFlagged, AcknowledgedForward DEF AssignWorkOrder, OrderRows
<1>5. ASSUME NEW w, NEW slot, BookOutright(o, w, slot)
      PROVE  NoneFlagged /\ Forward
  BY <1>5, BookForward DEF BookOutright
<1>6. ASSUME CancelWorkOrder(o)
      PROVE  NoneFlagged /\ Forward
  BY <1>0, <1>6, JobFlagged, SameComplaintsForward DEF CancelWorkOrder, OrderRows
<1> QED BY <1>1, <1>2, <1>3, <1>4, <1>5, <1>6

\* The workers' verbs: a start and a completion move their complaint on, from
\* what it was before.
LEMMA WorkerForward == TypeOK /\ WorkerNext => NoneFlagged /\ Forward
<1> SUFFICES ASSUME TypeOK, NEW o \in Orders, NEW w \in Staff,
                    \/ ClaimOpenWorkOrder(o, w)
                    \/ AcceptOffer(o, w)
                    \/ \E away \in Aways : DeclineOffer(o, w, away)
                    \/ StartWorkOrder(o, w)
                    \/ CompleteWorkOrder(o, w)
                    \/ ReportFailure(o, w)
             PROVE  NoneFlagged /\ Forward
  BY DEF WorkerNext
<1> DEFINE c == ComplaintOf[o]
<1>0. /\ order[o] \in OrderRows /\ c \in Complaints
      /\ complaint[c] \in ComplaintRows
  BY IdsAssumption DEF TypeOK
<1>1. CASE ClaimOpenWorkOrder(o, w)
  BY <1>1, BookForward DEF ClaimOpenWorkOrder
<1>2. CASE AcceptOffer(o, w)
  BY <1>0, <1>2, JobFlagged, SameComplaintsForward DEF AcceptOffer, OrderRows
<1>3. ASSUME NEW away, DeclineOffer(o, w, away)
      PROVE  NoneFlagged /\ Forward
  <2> DEFINE new == [order[o] EXCEPT !.status = "scheduled"]
  <2>1. \/ SetOrder(o, new) /\ complaint' = Acknowledged(c)
        \/ UNCHANGED <<complaint, order>>
    BY <1>3 DEF DeclineOffer
  <2>2. new.byResident = order[o].byResident
    BY <1>0 DEF OrderRows
  <2> HIDE DEF new
  <2>3. UNCHANGED order => NoneFlagged
    BY DEF NoneFlagged
  <2> QED BY <1>0, <2>1, <2>2, <2>3, JobFlagged, SameComplaintsForward, AcknowledgedForward
<1>4. CASE StartWorkOrder(o, w)
  <2> DEFINE row == [complaint[c] EXCEPT !.status =
                        IF complaint[c].status \in {"open", "acknowledged"} THEN "in_progress"
                        ELSE complaint[c].status]
  <2>1. complaint' = [complaint EXCEPT ![c] = row]
    BY <1>0, <1>4 DEF StartWorkOrder, TypeOK
  <2>2. ~(Rank(row.status) < Rank(complaint[c].status))
    BY <1>0, Ranks DEF ComplaintRows, ComplaintStatus
  <2> HIDE DEF row
  <2>3. Forward
    BY <1>0, <2>1, <2>2, StatusForward
  <2>4. NoneFlagged
    BY <1>0, <1>4, JobFlagged DEF StartWorkOrder, OrderRows
  <2> QED BY <2>3, <2>4
<1>5. ASSUME NEW rowst, NEW st, NEW alerts, Finish(o, w, rowst, st, alerts)
      PROVE  NoneFlagged
  BY <1>0, <1>5, JobFlagged DEF Finish, OrderRows
<1>6. CASE CompleteWorkOrder(o, w)
  <2> DEFINE row == [complaint[c] EXCEPT !.status = "resolved"]
  <2>1. \/ UNCHANGED complaint
        \/ /\ complaint' = [complaint EXCEPT ![c] = row]
           /\ complaint[c].status \in {"open", "acknowledged", "in_progress"}
    BY <1>6 DEF CompleteWorkOrder, SetComplaint
  <2>2. row.status = "resolved"
    BY <1>0 DEF ComplaintRows
  <2> HIDE DEF row
  <2>3. Forward
    BY <1>0, <2>1, <2>2, Ranks, StatusForward, SameComplaintsForward
  <2> QED BY <1>5, <1>6, <2>3 DEF CompleteWorkOrder
<1>7. CASE ReportFailure(o, w)
  BY <1>5, <1>7, SameComplaintsForward DEF ReportFailure
<1> QED BY <1>1, <1>2, <1>3, <1>4, <1>6, <1>7

\* The residents' verbs, all but calling the work off: a complaint is reopened
\* without a word to its jobs.
LEMMA ResidentForward ==
    TypeOK /\ ResidentNext
    => \/ NoneFlagged /\ (Forward \/ UNCHANGED <<order, asg>>)
       \/ \E c \in Complaints, o \in Orders, repool \in BOOLEAN : ResidentCancelWork(c, o, repool)
<1>1. ASSUME TypeOK, NEW o \in Orders, NEW confirmed, RespondToSchedule(o, confirmed)
      PROVE  NoneFlagged /\ Forward
  <2> DEFINE new == IF confirmed THEN [order[o] EXCEPT !.status = "offered"]
                    ELSE [order[o] EXCEPT !.status = "draft", !.slot = NoSlot]
  <2>1. SetOrder(o, new) /\ UNCHANGED complaint
    BY <1>1 DEF RespondToSchedule
  <2>2. new.byResident = order[o].byResident
    BY <1>1 DEF TypeOK, OrderRows
  <2> HIDE DEF new
  <2> QED BY <1>1, <2>1, <2>2, JobFlagged, SameComplaintsForward
<1>2. ASSUME TypeOK, NEW o \in Orders, NEW slot, ResidentSetsTime(o, slot)
      PROVE  NoneFlagged /\ Forward
  <2>1. order[o] \in OrderRows
    BY <1>2 DEF TypeOK
  <2> QED BY <1>2, <2>1, JobFlagged, SameComplaintsForward DEF ResidentSetsTime, OrderRows
<1>3. ASSUME TypeOK, NEW c \in Complaints,
             \/ \E high \in Highs : RaiseComplaint(c, high)
             \/ ReadToConfirm(c) \/ ConfirmResolution(c)
             \/ ReadToReopen(c) \/ ReopenComplaint(c)
      PROVE  NoneFlagged /\ UNCHANGED <<order, asg>>
  BY <1>3 DEF RaiseComplaint, ReadToConfirm, ReadToReopen, Reads,
              ConfirmResolution, ReopenComplaint, NoneFlagged
<1> QED BY <1>1, <1>2, <1>3 DEF ResidentNext

\* The office's verbs: what it sets by hand touches no job, and a supervisor
\* resolves a complaint that is still in play.
LEMMA OfficeForward ==
    TypeOK /\ OfficeNext => NoneFlagged /\ (Forward \/ UNCHANGED <<order, asg>>)
<1> SUFFICES ASSUME TypeOK, NEW c \in Complaints,
                    \/ TakeUpComplaint(c)
                    \/ \E high \in Highs : RaisePriority(c, high)
                    \/ SupervisorResolve(c)
                    \/ \E st \in HandStatuses : UpdateComplaint(c, st)
             PROVE  NoneFlagged /\ (Forward \/ UNCHANGED <<order, asg>>)
  BY DEF OfficeNext
<1>1. CASE TakeUpComplaint(c) \/ \E st \in HandStatuses : UpdateComplaint(c, st)
  BY <1>1 DEF TakeUpComplaint, UpdateComplaint, NoneFlagged
<1>2. complaint[c] \in ComplaintRows
  BY DEF TypeOK
<1>3. ASSUME NEW high, RaisePriority(c, high)
      PROVE  NoneFlagged /\ Forward
  <2> DEFINE row == [complaint[c] EXCEPT !.high = high]
  <2>1. complaint' = [complaint EXCEPT ![c] = row]
    BY <1>3 DEF RaisePriority, TypeOK
  <2>2. ~(Rank(row.status) < Rank(complaint[c].status))
    <3>1. row.status = complaint[c].status /\ Rank(complaint[c].status) \in Nat
      BY <1>2, Ranks DEF ComplaintRows, ComplaintStatus
    <3> QED BY <3>1
  <2> HIDE DEF row
  <2>3. Forward
    BY <2>1, <2>2, StatusForward
  <2>4. NoneFlagged
    BY <1>3 DEF RaisePriority, NoneFlagged, TypeOK, OrderRows
  <2> QED BY <2>3, <2>4
<1>4. CASE SupervisorResolve(c)
  <2> DEFINE row == [complaint[c] EXCEPT !.status = "resolved"]
  <2>1. /\ complaint' = [complaint EXCEPT ![c] = row]
        /\ complaint[c].status \in {"open", "acknowledged", "in_progress"}
    BY <1>4 DEF SupervisorResolve, SetComplaint
  <2>2. row.status = "resolved"
    BY <1>2 DEF ComplaintRows
  <2> HIDE DEF row
  <2>3. Forward
    <3>1. ~(Rank(row.status) < Rank(complaint[c].status))
      BY <2>1, <2>2, Ranks
    <3> QED BY <2>1, <3>1, StatusForward
  <2>4. NoneFlagged
    BY <1>4 DEF SupervisorResolve, NoneFlagged, TypeOK, OrderRows
  <2> QED BY <2>3, <2>4
<1> QED BY <1>1, <1>3, <1>4

\* The dispatcher's handlers: a complaint that closes by itself touches no job.
LEMMA DispatcherForward ==
    TypeOK /\ DispatcherNext => NoneFlagged /\ (Forward \/ UNCHANGED <<order, asg>>)
<1>0. ASSUME UNCHANGED order
      PROVE  NoneFlagged
  BY <1>0 DEF NoneFlagged
<1>1. ASSUME TypeOK, NEW o \in Orders, NEW kind, Skip(o, kind) \/ Alert(o, kind)
      PROVE  NoneFlagged /\ Forward
  BY <1>0, <1>1, SameComplaintsForward DEF Skip, Alert
<1>2. ASSUME TypeOK, NEW o \in Orders, BookFirstAvailable(o)
      PROVE  NoneFlagged /\ Forward
  BY <1>2, BookForward DEF BookFirstAvailable
<1>3. ASSUME TypeOK, NEW o \in Orders, NEW away, NEW picked,
             FireManualWindow(o, away, picked)
      PROVE  NoneFlagged /\ Forward
  <2>1. \/ Skip(o, "manual_window") \/ Alert(o, "manual_window")
        \/ complaint' = Acknowledged(ComplaintOf[o]) /\ UNCHANGED order
    BY <1>3 DEF FireManualWindow, PingCandidates
  <2> QED BY <1>0, <1>1, <1>3, <2>1, IdsAssumption, AcknowledgedForward
<1>4. ASSUME TypeOK, NEW o \in Orders, NEW away, FireAutoAssign(o, away)
      PROVE  NoneFlagged /\ Forward
  <2>1. \/ Skip(o, "auto_assign") \/ Alert(o, "auto_assign")
        \/ \E w : Book(o, w, order[o].slot, {"offered"})
    BY <1>4 DEF FireAutoAssign
  <2> QED BY <1>1, <1>4, <2>1, BookForward
<1>5. ASSUME TypeOK, NEW o \in Orders, FireResidentTimeout(o)
      PROVE  NoneFlagged /\ Forward
  <2> DEFINE st == IF order[o].slot # NoSlot THEN "offered" ELSE "draft"
             new == [order[o] EXCEPT !.status = st]
  <2>1. \/ Skip(o, "resident_timeout")
        \/ SetOrder(o, new) /\ UNCHANGED complaint
        \/ BookFirstAvailable(o)
    BY <1>5 DEF FireResidentTimeout, ProceedUnanswered
  <2>2. new.byResident = order[o].byResident
    BY <1>5 DEF TypeOK, OrderRows
  <2> HIDE DEF new
  <2> QED BY <1>1, <1>2, <1>5, <2>1, <2>2, JobFlagged, SameComplaintsForward
<1>6. ASSUME TypeOK, NEW o \in Orders, FireFacilityAutoAssign(o)
      PROVE  NoneFlagged /\ Forward
  <2>1. \/ Skip(o, "facility_auto_assign") \/ Alert(o, "facility_auto_assign")
        \/ UNCHANGED <<complaint, order>>
        \/ BookFirstAvailable(o)
    BY <1>6 DEF FireFacilityAutoAssign
  <2> QED BY <1>0, <1>1, <1>2, <1>6, <2>1, SameComplaintsForward
<1>7. ASSUME TypeOK, NEW o \in Orders,
             \/ FireFailedVisitEscalation(o)
             \/ \E kind \in OrderTimer : RetireTimer(o, kind)
      PROVE  NoneFlagged /\ Forward
  BY <1>1, <1>7 DEF FireFailedVisitEscalation, RetireTimer
<1>8. ASSUME NEW c, NEW kind, FireAutoClose(c, kind) \/ RetireComplaintTimer(c, kind)
      PROVE  NoneFlagged /\ UNCHANGED <<order, asg>>
  BY <1>0, <1>8 DEF FireAutoClose, RetireComplaintTimer
<1> QED BY <1>3, <1>4, <1>5, <1>6, <1>7, <1>8 DEF DispatcherNext, FireOrder

\* Every step but the resident's calling the work off.
LEMMA StepsForward ==
    TypeOK /\ [Next]_vars
    => \/ NoneFlagged /\ (Forward \/ UNCHANGED <<order, asg>>)
       \/ \E c \in Complaints, o \in Orders, repool \in BOOLEAN : ResidentCancelWork(c, o, repool)
<1>1. UNCHANGED vars => NoneFlagged /\ UNCHANGED <<order, asg>>
  BY DEF vars, NoneFlagged
<1> QED BY <1>1, SupervisorForward, WorkerForward, ResidentForward, OfficeForward,
           DispatcherForward DEF Next

\* A job that its resident called off is over.
CalledOffIsOver ==
    \A o \in Orders : order[o].byResident = TRUE => order[o].status = "cancelled"

LEMMA CalledOffStays == Agree /\ CalledOffIsOver /\ [Next]_vars => CalledOffIsOver'
<1> SUFFICES ASSUME TypeOK, Agree, CalledOffIsOver, [Next]_vars,
                    NEW o \in Orders, order'[o].byResident = TRUE
             PROVE  order'[o].status = "cancelled"
  BY DEF Agree, CalledOffIsOver
<1>1. CASE order[o].status = "cancelled"
  <2>1. Quiet => order'[o].status = order[o].status
    BY DEF Quiet, Same
  <2>2. ASSUME NEW p \in Orders, JobStep(p)
        PROVE  order'[o].status = order[o].status
    BY <1>1, <2>2 DEF JobStep, Same, Raised, MovedOn, WrittenOff, FinishedBy, Live
  <2> QED BY <1>1, <2>1, <2>2, StepsOfJobs DEF Agree, SomeJobStep
<1>2. ASSUME NEW c, NEW p \in Orders, NEW repool, ResidentCancelWork(c, p, repool)
      PROVE  order'[o].status = "cancelled"
  <2>1. order' = [order EXCEPT ![p] = [order[p] EXCEPT !.status = "cancelled",
                                                       !.byResident = TRUE]]
    BY <1>2 DEF ResidentCancelWork, SetOrder
  <2>2. CASE o = p
    BY <2>1, <2>2 DEF TypeOK, OrderRows
  <2>3. CASE o # p
    BY <2>1, <2>3, <1>1 DEF TypeOK, CalledOffIsOver
  <2> QED BY <2>2, <2>3
<1>3. NoneFlagged => order[o].status = "cancelled"
  BY DEF NoneFlagged, CalledOffIsOver
<1> QED BY <1>1, <1>2, <1>3, StepsForward

\* Work on jobs moves a complaint forward only. A step that takes one back is
\* its resident's calling the work off, or touches no job: whichever of the
\* triggers runs last, a late start or acknowledgement rewinds nothing.
THEOREM WorkGoesForward == Spec => WorkMovesForward
<1> DEFINE Onward == \A c \in Complaints :
                        Rank(complaint'[c].status) < Rank(complaint[c].status)
                        => \/ UNCHANGED <<order, asg>>
                           \/ \E o \in JobsOf(c) : ~order[o].byResident /\ order'[o].byResident
<1>1. Init => CalledOffIsOver
  BY DEF Init, CalledOffIsOver
<1>2. Spec => [](Agree /\ CalledOffIsOver)
  BY <1>1, CalledOffStays, AlwaysAgree, PTL DEF Spec
<1>3. Agree /\ CalledOffIsOver /\ [Next]_vars => [Onward]_vars
  <2> SUFFICES ASSUME TypeOK, CalledOffIsOver, [Next]_vars
               PROVE  Onward
    BY DEF Agree
  <2>1. CASE NoneFlagged /\ (Forward \/ UNCHANGED <<order, asg>>)
    BY <2>1 DEF Forward
  <2>2. ASSUME NEW c \in Complaints, NEW o \in Orders, NEW repool \in BOOLEAN,
               ResidentCancelWork(c, o, repool)
        PROVE  Onward
    <3>1. /\ o \in JobsOf(c) /\ order[o].status \in {"offered", "scheduled"}
          /\ order' = [order EXCEPT ![o] = [order[o] EXCEPT !.status = "cancelled",
                                                            !.byResident = TRUE]]
          /\ complaint' = [complaint EXCEPT
                              ![c].status = IF repool THEN "open" ELSE "cancelled",
                              ![c].returned = @ \/ repool]
      BY <2>2 DEF ResidentCancelWork, SetOrder
    <3>2. ~order[o].byResident /\ order'[o].byResident
      BY <3>1 DEF TypeOK, OrderRows, CalledOffIsOver
    <3>3. \A d \in Complaints : d # c => complaint'[d] = complaint[d]
      BY <3>1 DEF TypeOK
    <3>4. \A d \in Complaints : Rank(complaint[d].status) \in Nat
      BY Ranks DEF TypeOK, ComplaintRows, ComplaintStatus
    <3> QED BY <3>1, <3>2, <3>3, <3>4
  <2> QED BY <2>1, <2>2, StepsForward
<1> QED BY <1>2, <1>3, PTL DEF Spec, WorkMovesForward
================================================================================
