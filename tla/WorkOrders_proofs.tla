--------------------------- MODULE WorkOrders_proofs ---------------------------
(* Theorems about WorkOrders, for all sets of complaints, jobs, staff and     *)
(* visit times.  The typing and the pairing of assignment rows with jobs come *)
(* first; the other invariants rest on them.                                  *)
EXTENDS WorkOrders, TLAPS

-------------------------------------------------------------------------------
(* Lemmas about the operators the actions are built from.                     *)

\* The time of an assignment is the caller's or the job's, so a time of the
\* model either way.
LEMMA TimeForType ==
    ASSUME TypeOK, NEW o \in Orders, NEW slot \in Times
    PROVE  TimeFor(o, slot) \in Times
BY DEF TypeOK, TimeFor, OrderRows

\* sync_dispatch_tasks arms timers of the job it is called for only.
LEMMA SyncedType ==
    ASSUME TypeOK, NEW o \in Orders, NEW new \in OrderRows
    PROVE  Synced(o, new) \subseteq Orders \X OrderTimer
BY DEF TypeOK, Synced, Kept, Armed, Closed, Deadline, Window, Escalation,
       Timer, OrderTimer

\* Withdrawing rows leaves a table of rows.
LEMMA WithdrawType ==
    ASSUME NEW rows \in [Staff -> AssignmentRows], NEW sts
    PROVE  Withdraw(rows, sts) \in [Staff -> AssignmentRows]
BY DEF Withdraw, Row, AssignmentRows, RowStatus, Times

\* So does writing one row.
LEMMA PutRowType ==
    ASSUME NEW rows \in [Staff -> AssignmentRows], NEW w \in Staff,
           NEW st \in RowStatus, NEW slot \in Times
    PROVE  [rows EXCEPT ![w] = Row(st, slot)] \in [Staff -> AssignmentRows]
BY DEF Row, AssignmentRows

\* The projection trigger writes a status of a complaint.
LEMMA AcknowledgedType ==
    ASSUME TypeOK, NEW c \in Complaints
    PROVE  Acknowledged(c) \in [Complaints -> ComplaintRows]
BY DEF TypeOK, Acknowledged, ComplaintRows, ComplaintStatus

\* A complaint set to a well-typed row, and its closing timers.
LEMMA SetComplaintType ==
    ASSUME TypeOK, NEW c \in Complaints, NEW new \in ComplaintRows,
           SetComplaint(c, new)
    PROVE  /\ complaint' \in [Complaints -> ComplaintRows]
           /\ ctimers' \subseteq Complaints \X ComplaintTimer
BY DEF TypeOK, SetComplaint

\* A job set to a well-typed row, and its timers synchronised.
LEMMA SetOrderType ==
    ASSUME TypeOK, NEW o \in Orders, NEW new \in OrderRows, SetOrder(o, new)
    PROVE  order' \in [Orders -> OrderRows]
BY DEF TypeOK, SetOrder

\* The history of alerts stays a set of jobs.
LEMMA UnalertedType ==
    ASSUME TypeOK, NEW o, NEW new
    PROVE  Unalerted(o, new) \subseteq Orders
BY DEF TypeOK, Unalerted

\* The rows of jobs the actions write are well typed.
LEMMA StatusType ==
    ASSUME TypeOK, NEW o \in Orders, NEW st \in OrderStatus
    PROVE  /\ [order[o] EXCEPT !.status = st] \in OrderRows
           /\ [order[o] EXCEPT !.status = st, !.byResident = TRUE] \in OrderRows
BY DEF TypeOK, OrderRows

\* So are those with a new time.
LEMMA StatusAndTimeType ==
    ASSUME TypeOK, NEW o \in Orders, NEW st \in OrderStatus, NEW slot \in Times
    PROVE  /\ [order[o] EXCEPT !.slot = slot, !.status = st] \in OrderRows
           /\ [order[o] EXCEPT !.status = st, !.slot = slot] \in OrderRows
BY DEF TypeOK, OrderRows

\* A booking at a time of the model is well typed.
LEMMA BookType ==
    ASSUME TypeOK, NEW o \in Orders, NEW w \in Staff, NEW slot \in Times,
           NEW ended, Book(o, w, slot, ended)
    PROVE  /\ complaint' \in [Complaints -> ComplaintRows]
           /\ order' \in [Orders -> OrderRows]
           /\ asg' \in [Orders -> [Staff -> AssignmentRows]]
           /\ timers' \subseteq Orders \X OrderTimer
<1> DEFINE new == [order[o] EXCEPT !.status = "scheduled", !.slot = slot]
           rows == [Withdraw(asg[o], ended) EXCEPT ![w] = Row("accepted", slot)]
<1>1. new \in OrderRows
  BY StatusAndTimeType DEF OrderStatus, Live
<1>2. rows \in [Staff -> AssignmentRows]
  <2>1. Withdraw(asg[o], ended) \in [Staff -> AssignmentRows]
    BY WithdrawType DEF TypeOK
  <2>2. "accepted" \in RowStatus
    BY DEF RowStatus
  <2> QED BY <2>1, <2>2, PutRowType
<1>3. asg' = [asg EXCEPT ![o] = rows]
  BY DEF Book
<1>4. SetOrder(o, new) /\ timers' = Synced(o, new)
  BY DEF Book
<1>5. complaint' = Acknowledged(ComplaintOf[o]) /\ ComplaintOf[o] \in Complaints
  BY IdsAssumption DEF Book
<1> HIDE DEF new, rows
<1>6. asg' \in [Orders -> [Staff -> AssignmentRows]]
  BY <1>2, <1>3 DEF TypeOK
<1> QED BY <1>1, <1>4, <1>5, <1>6, SetOrderType, SyncedType, AcknowledgedType

-------------------------------------------------------------------------------
(* Type correctness.                                                           *)

\* Each verb of the supervisor keeps the types.
LEMMA SupervisorType == TypeOK /\ SupervisorNext => TypeOK'
<1> SUFFICES ASSUME TypeOK, NEW o \in Orders,
                    \/ \E kind \in Kinds, slot \in RaiseSlots : CreateWorkOrder(o, kind, slot)
                    \/ \E kind \in Kinds, high \in Highs : UpdateWorkOrder(o, kind, high)
                    \/ \E slot \in RescheduleSlots : RescheduleWorkOrder(o, slot)
                    \/ \E w \in Staff, slot \in RescheduleSlots \union {NoSlot} :
                          \/ AssignWorkOrder(o, w, slot)
                          \/ ForceAssignWorkOrder(o, w, slot)
                          \/ TakeUpWorkOrder(o, w, slot)
                    \/ CancelWorkOrder(o)
             PROVE  TypeOK'
  BY DEF SupervisorNext
<1> USE IdsAssumption, SlotsAssumption, InputsAssumption
<1>1. ASSUME NEW kind \in Kinds, NEW slot \in RaiseSlots, CreateWorkOrder(o, kind, slot)
      PROVE  TypeOK'
  <2> DEFINE new == [status |-> IF kind = "resident" THEN "awaiting_resident"
                                ELSE IF slot = NoSlot THEN "draft" ELSE "offered",
                     kind |-> kind, slot |-> slot,
                     high |-> complaint[ComplaintOf[o]].high, byResident |-> FALSE]
  <2>1. new \in OrderRows
    <3>1. complaint[ComplaintOf[o]].high \in BOOLEAN
      BY DEF TypeOK, ComplaintRows
    <3>2. new.status \in OrderStatus
      BY DEF OrderStatus, Live
    <3>3. kind \in OrderKind /\ slot \in Times
      BY DEF Times
    <3> QED BY <3>1, <3>2, <3>3 DEF OrderRows
  <2>2. SetOrder(o, new) /\ timers' = Synced(o, new) /\ alerted' = Unalerted(o, new)
    BY <1>1 DEF CreateWorkOrder
  <2>3. complaint' \in [Complaints -> ComplaintRows]
    <3>1. /\ complaint' = OutOfPool(ComplaintOf[o])
          /\ complaint \in [Complaints -> ComplaintRows]
          /\ ComplaintOf[o] \in Complaints
      BY <1>1 DEF CreateWorkOrder, TypeOK
    <3>2. complaint[ComplaintOf[o]] \in ComplaintRows
      BY <3>1
    <3>3. [complaint[ComplaintOf[o]] EXCEPT !.returned = FALSE] \in ComplaintRows
      BY <3>2 DEF ComplaintRows
    <3> QED BY <3>1, <3>3 DEF OutOfPool
  <2>4. UNCHANGED <<asg, refused, underway, ctimers>>
    BY <1>1 DEF CreateWorkOrder
  <2> HIDE DEF new
  <2> QED BY <2>1, <2>2, <2>3, <2>4, SetOrderType, SyncedType, UnalertedType DEF TypeOK
<1>2. ASSUME NEW kind \in Kinds, NEW high \in Highs, UpdateWorkOrder(o, kind, high)
      PROVE  TypeOK'
  <2>1. [order[o] EXCEPT !.kind = kind, !.high = high] \in OrderRows
    <3>1. order[o] \in OrderRows
      BY DEF TypeOK
    <3> QED BY <3>1 DEF OrderRows
  <2> QED BY <1>2, <2>1, SetOrderType DEF UpdateWorkOrder, TypeOK
<1>3. ASSUME NEW slot \in RescheduleSlots, RescheduleWorkOrder(o, slot)
      PROVE  TypeOK'
  <2> DEFINE holder == Holding(o, {"accepted"})
             st == IF holder # {} THEN "scheduled"
                   ELSE IF order[o].kind = "resident" THEN "awaiting_resident"
                   ELSE "offered"
             new == [order[o] EXCEPT !.slot = slot, !.status = st]
             rows == [w \in Staff |-> IF w \in holder THEN Row("accepted", slot)
                                      ELSE asg[o][w]]
  <2>1. new \in OrderRows
    BY StatusAndTimeType DEF OrderStatus, Live, Times
  <2>2. SetOrder(o, new) /\ timers' = Synced(o, new) /\ alerted' = Unalerted(o, new)
    BY <1>3 DEF RescheduleWorkOrder
  <2>3. asg' = [asg EXCEPT ![o] = rows] /\ UNCHANGED <<complaint, refused, underway, ctimers>>
    BY <1>3 DEF RescheduleWorkOrder
  <2>4. rows \in [Staff -> AssignmentRows]
    BY DEF TypeOK, AssignmentRows, Row, RowStatus, Times
  <2> HIDE DEF new, rows
  <2> QED BY <2>1, <2>2, <2>3, <2>4, SetOrderType, SyncedType, UnalertedType DEF TypeOK
<1>4. ASSUME NEW w \in Staff, NEW slot \in RescheduleSlots \union {NoSlot},
             AssignWorkOrder(o, w, slot)
      PROVE  TypeOK'
  <2> DEFINE at == TimeFor(o, slot)
             new == [order[o] EXCEPT !.status = "offered", !.slot = at]
             rows == [Withdraw(asg[o], {"offered", "accepted"}) EXCEPT
                         ![w] = Row("offered", at)]
  <2>1. at \in Times
    BY TimeForType DEF Times
  <2>2. new \in OrderRows
    BY <2>1, StatusAndTimeType DEF OrderStatus, Live
  <2>3. rows \in [Staff -> AssignmentRows]
    <3>1. Withdraw(asg[o], {"offered", "accepted"}) \in [Staff -> AssignmentRows]
      BY WithdrawType DEF TypeOK
    <3> QED BY <2>1, <3>1, PutRowType DEF RowStatus
  <2>4. /\ SetOrder(o, new) /\ timers' = Synced(o, new) \union {<<o, "auto_assign">>}
        /\ alerted' = Unalerted(o, new) /\ complaint' = Acknowledged(ComplaintOf[o])
        /\ asg' = [asg EXCEPT ![o] = rows] /\ UNCHANGED <<refused, underway, ctimers>>
    BY <1>4 DEF AssignWorkOrder
  <2>5. timers' \subseteq Orders \X OrderTimer
    BY <2>2, <2>4, SyncedType DEF OrderTimer
  <2> HIDE DEF new, rows
  <2> QED BY <2>2, <2>3, <2>4, <2>5, SetOrderType, UnalertedType, AcknowledgedType DEF TypeOK
<1>5. ASSUME NEW w \in Staff, NEW slot \in RescheduleSlots \union {NoSlot},
             BookOutright(o, w, slot)
      PROVE  TypeOK'
  <2>1. TimeFor(o, slot) \in Times
    BY TimeForType DEF Times
  <2>2. /\ Book(o, w, TimeFor(o, slot), {"offered", "accepted"})
        /\ UNCHANGED <<refused, underway, ctimers, alerted>>
    BY <1>5 DEF BookOutright
  <2> QED BY <2>1, <2>2, BookType DEF TypeOK
<1>6. ASSUME CancelWorkOrder(o)
      PROVE  TypeOK'
  <2> DEFINE new == [order[o] EXCEPT !.status = "cancelled"]
  <2>1. new \in OrderRows
    BY StatusType DEF OrderStatus
  <2>2. /\ SetOrder(o, new) /\ timers' = Synced(o, new)
        /\ asg' = [asg EXCEPT ![o] = Withdraw(asg[o], {"offered", "accepted"})]
        /\ UNCHANGED <<complaint, refused, underway, ctimers, alerted>>
    BY <1>6 DEF CancelWorkOrder
  <2>3. Withdraw(asg[o], {"offered", "accepted"}) \in [Staff -> AssignmentRows]
    BY WithdrawType DEF TypeOK
  <2> HIDE DEF new
  <2> QED BY <2>1, <2>2, <2>3, SetOrderType, SyncedType DEF TypeOK
<1> QED
  BY <1>1, <1>2, <1>3, <1>4, <1>5, <1>6 DEF ForceAssignWorkOrder, TakeUpWorkOrder

\* Each verb of a worker keeps the types.
LEMMA WorkerType == TypeOK /\ WorkerNext => TypeOK'
<1> SUFFICES ASSUME TypeOK, NEW o \in Orders, NEW w \in Staff,
                    \/ ClaimOpenWorkOrder(o, w)
                    \/ AcceptOffer(o, w)
                    \/ \E away \in Aways : DeclineOffer(o, w, away)
                    \/ StartWorkOrder(o, w)
                    \/ CompleteWorkOrder(o, w)
                    \/ ReportFailure(o, w)
             PROVE  TypeOK'
  BY DEF WorkerNext
<1> USE IdsAssumption
<1>1. /\ order[o].slot \in Times /\ asg[o][w].slot \in Times
      /\ asg[o] \in [Staff -> AssignmentRows]
  BY DEF TypeOK, OrderRows, AssignmentRows
<1>2. ASSUME ClaimOpenWorkOrder(o, w)
      PROVE  TypeOK'
  <2>1. Book(o, w, order[o].slot, {"offered"}) /\ UNCHANGED <<refused, underway, ctimers, alerted>>
    BY <1>2 DEF ClaimOpenWorkOrder
  <2> QED BY <1>1, <2>1, BookType DEF TypeOK
<1>3. ASSUME AcceptOffer(o, w)
      PROVE  TypeOK'
  <2> DEFINE new == [order[o] EXCEPT !.status = "scheduled"]
             rows == [Withdraw(asg[o], {"offered", "accepted"}) EXCEPT
                         ![w] = Row("accepted", asg[o][w].slot)]
  <2>1. new \in OrderRows
    BY StatusType DEF OrderStatus, Live
  <2>2. rows \in [Staff -> AssignmentRows]
    <3>1. Withdraw(asg[o], {"offered", "accepted"}) \in [Staff -> AssignmentRows]
      BY <1>1, WithdrawType
    <3> QED BY <1>1, <3>1, PutRowType DEF RowStatus
  <2>3. /\ SetOrder(o, new) /\ timers' = Synced(o, new)
        /\ asg' = [asg EXCEPT ![o] = rows]
        /\ UNCHANGED <<complaint, refused, underway, ctimers, alerted>>
    BY <1>3 DEF AcceptOffer
  <2> HIDE DEF new, rows
  <2> QED BY <2>1, <2>2, <2>3, SetOrderType, SyncedType DEF TypeOK
<1>4. ASSUME NEW away \in Aways, DeclineOffer(o, w, away)
      PROVE  TypeOK'
  <2> DEFINE new == [order[o] EXCEPT !.status = "scheduled"]
             rows == [asg[o] EXCEPT ![w] = Row("declined", NoSlot)]
             none == NobodyLeft(o, away, refused \union {<<o, w>>})
  <2>1. new \in OrderRows
    BY StatusType DEF OrderStatus, Live
  <2>2. rows \in [Staff -> AssignmentRows]
    BY <1>1, PutRowType DEF RowStatus, Times
  <2>3. /\ refused' = refused \union {<<o, w>>} /\ UNCHANGED <<ctimers, underway>>
        /\ alerted' = IF none THEN alerted \union {o} ELSE alerted
    BY <1>4 DEF DeclineOffer
  <2>4. CASE \E f \in Forceable(o, away) :
                /\ asg' = [asg EXCEPT ![o] =
                              [Withdraw(rows, {"offered"}) EXCEPT
                                  ![f] = Row("accepted", order[o].slot)]]
                /\ SetOrder(o, new)
                /\ timers' = Synced(o, new)
                /\ complaint' = Acknowledged(ComplaintOf[o])
    <3>1. PICK f \in Forceable(o, away) :
             /\ asg' = [asg EXCEPT ![o] =
                           [Withdraw(rows, {"offered"}) EXCEPT
                               ![f] = Row("accepted", order[o].slot)]]
             /\ SetOrder(o, new)
             /\ timers' = Synced(o, new)
             /\ complaint' = Acknowledged(ComplaintOf[o])
      BY <2>4
    <3>2. f \in Staff
      BY DEF Forceable, Candidates, Staff
    <3>3. [Withdraw(rows, {"offered"}) EXCEPT ![f] = Row("accepted", order[o].slot)]
             \in [Staff -> AssignmentRows]
      <4>1. Withdraw(rows, {"offered"}) \in [Staff -> AssignmentRows]
        BY <2>2, WithdrawType
      <4> QED BY <1>1, <3>2, <4>1, PutRowType DEF RowStatus
    <3> HIDE DEF new, rows, none
    <3> QED
      BY <2>1, <2>3, <3>1, <3>3, SetOrderType, SyncedType, AcknowledgedType DEF TypeOK
  <2>5. CASE asg' = [asg EXCEPT ![o] = rows] /\ UNCHANGED <<complaint, order, timers>>
    <3> HIDE DEF rows, none
    <3> QED BY <2>2, <2>3, <2>5 DEF TypeOK
  <2> QED BY <1>4, <2>4, <2>5 DEF DeclineOffer
<1>5. ASSUME StartWorkOrder(o, w)
      PROVE  TypeOK'
  <2> DEFINE new == [order[o] EXCEPT !.status = "in_progress"]
  <2>1. new \in OrderRows
    BY StatusType DEF OrderStatus, Live
  <2>2. SetOrder(o, new) /\ timers' = Synced(o, new)
        /\ UNCHANGED <<asg, refused, underway, ctimers, alerted>>
    BY <1>5 DEF StartWorkOrder
  <2>3. complaint' \in [Complaints -> ComplaintRows]
    <3> DEFINE c == ComplaintOf[o]
               st == IF complaint[c].status \in {"open", "acknowledged"} THEN "in_progress"
                     ELSE complaint[c].status
    <3>1. /\ complaint' = [complaint EXCEPT ![c] = [@ EXCEPT !.status = st]]
          /\ complaint \in [Complaints -> ComplaintRows] /\ c \in Complaints
      BY <1>5, IdsAssumption DEF StartWorkOrder, TypeOK
    <3>2. [complaint[c] EXCEPT !.status = st] \in ComplaintRows
      BY <3>1 DEF ComplaintRows, ComplaintStatus
    <3> QED BY <3>1, <3>2
  <2> HIDE DEF new
  <2> QED BY <2>1, <2>2, <2>3, SetOrderType, SyncedType DEF TypeOK
<1>6. ASSUME NEW rowst \in RowStatus, NEW st \in OrderStatus,
             NEW alerts \in SUBSET Orders, Finish(o, w, rowst, st, alerts)
      PROVE  /\ order' \in [Orders -> OrderRows]
             /\ asg' \in [Orders -> [Staff -> AssignmentRows]]
             /\ refused' \subseteq Orders \X Staff
             /\ timers' \subseteq Orders \X OrderTimer
             /\ underway' \subseteq Complaints \X UnlockedVerb
             /\ alerted' \subseteq Orders
  <2> DEFINE new == [order[o] EXCEPT !.status = st]
  <2>1. new \in OrderRows
    BY StatusType
  <2>2. /\ SetOrder(o, new) /\ timers' = Synced(o, new)
        /\ asg' = [asg EXCEPT ![o][w] = Row(rowst, NoSlot)]
        /\ alerted' = alerts /\ UNCHANGED <<refused, underway>>
    BY <1>6 DEF Finish
  <2>3. asg' \in [Orders -> [Staff -> AssignmentRows]]
    BY <2>2, PutRowType DEF TypeOK, Times
  <2> HIDE DEF new
  <2> QED BY <2>1, <2>2, <2>3, SetOrderType, SyncedType DEF TypeOK
<1>7. ASSUME CompleteWorkOrder(o, w)
      PROVE  TypeOK'
  <2> DEFINE c == ComplaintOf[o]
             resolved == [complaint[c] EXCEPT !.status = "resolved"]
  <2>1. Finish(o, w, "completed", "completed", alerted)
    BY <1>7 DEF CompleteWorkOrder
  <2>2. resolved \in ComplaintRows
    BY DEF TypeOK, ComplaintRows, ComplaintStatus
  <2>3. SetComplaint(c, resolved) \/ UNCHANGED <<complaint, ctimers>>
    BY <1>7 DEF CompleteWorkOrder
  <2>4. /\ complaint' \in [Complaints -> ComplaintRows]
        /\ ctimers' \subseteq Complaints \X ComplaintTimer
    <3> HIDE DEF resolved
    <3> QED BY <2>2, <2>3, SetComplaintType DEF TypeOK
  <2>5. "completed" \in RowStatus /\ "completed" \in OrderStatus /\ alerted \in SUBSET Orders
    BY DEF RowStatus, OrderStatus, TypeOK
  <2> QED BY <1>6, <2>1, <2>4, <2>5 DEF TypeOK
<1>8. ASSUME ReportFailure(o, w)
      PROVE  TypeOK'
  <2>1. Finish(o, w, "failed", "failed", alerted \ {o}) /\ UNCHANGED <<complaint, ctimers>>
    BY <1>8 DEF ReportFailure
  <2>2. "failed" \in RowStatus /\ "failed" \in OrderStatus
        /\ alerted \ {o} \in SUBSET Orders
    BY DEF RowStatus, OrderStatus, TypeOK
  <2> QED BY <1>6, <2>1, <2>2 DEF TypeOK
<1> QED BY <1>2, <1>3, <1>4, <1>5, <1>7, <1>8

\* The rows of complaints the actions write are well typed.
LEMMA ComplaintRowType ==
    ASSUME TypeOK, NEW c \in Complaints, NEW st \in ComplaintStatus, NEW b \in BOOLEAN
    PROVE  /\ [complaint[c] EXCEPT !.status = st] \in ComplaintRows
           /\ [complaint[c] EXCEPT !.status = st, !.high = b] \in ComplaintRows
           /\ [complaint[c] EXCEPT !.status = st, !.reopened = b] \in ComplaintRows
           /\ [complaint[c] EXCEPT !.status = st, !.returned = b] \in ComplaintRows
           /\ [complaint[c] EXCEPT !.takenUp = b, !.status = st] \in ComplaintRows
BY DEF TypeOK, ComplaintRows

\* Each verb of a resident keeps the types.
LEMMA ResidentType == TypeOK /\ ResidentNext => TypeOK'
<1> USE IdsAssumption, InputsAssumption
<1>1. ASSUME TypeOK, NEW c \in Complaints, NEW high \in Highs, RaiseComplaint(c, high)
      PROVE  TypeOK'
  <2>1. [complaint[c] EXCEPT !.status = "open", !.high = high] \in ComplaintRows
    BY <1>1, ComplaintRowType DEF ComplaintStatus
  <2>2. complaint' = [complaint EXCEPT
                         ![c] = [complaint[c] EXCEPT !.status = "open", !.high = high]]
    BY <1>1 DEF RaiseComplaint, TypeOK
  <2> QED BY <1>1, <2>1, <2>2 DEF RaiseComplaint, TypeOK
<1>2. ASSUME TypeOK, NEW c \in Complaints, NEW o \in Orders, NEW repool \in BOOLEAN,
             ResidentCancelWork(c, o, repool)
      PROVE  TypeOK'
  <2> DEFINE new == [order[o] EXCEPT !.status = "cancelled", !.byResident = TRUE]
  <2>1. new \in OrderRows
    BY <1>2, StatusType DEF OrderStatus
  <2>2. /\ SetOrder(o, new) /\ timers' = Synced(o, new)
        /\ asg' = [asg EXCEPT ![o] = Withdraw(asg[o], {"offered", "accepted"})]
        /\ UNCHANGED <<refused, underway, ctimers, alerted>>
    BY <1>2 DEF ResidentCancelWork
  <2>3. Withdraw(asg[o], {"offered", "accepted"}) \in [Staff -> AssignmentRows]
    BY <1>2, WithdrawType DEF TypeOK
  <2>4. complaint' \in [Complaints -> ComplaintRows]
    <3> DEFINE st == IF repool THEN "open" ELSE "cancelled"
               pooled == complaint[c].returned \/ repool
               row == [complaint[c] EXCEPT !.status = st, !.returned = pooled]
    <3>1. row \in ComplaintRows
      BY <1>2, ComplaintRowType DEF ComplaintStatus
    <3>2. complaint' = [complaint EXCEPT ![c] = row]
      BY <1>2 DEF ResidentCancelWork, TypeOK
    <3> HIDE DEF row
    <3> QED BY <1>2, <3>1, <3>2 DEF TypeOK
  <2> HIDE DEF new
  <2> QED BY <1>2, <2>1, <2>2, <2>3, <2>4, SetOrderType, SyncedType DEF TypeOK
<1>3. ASSUME TypeOK, NEW c \in Complaints, ConfirmResolution(c)
      PROVE  TypeOK'
  <2>1. [complaint[c] EXCEPT !.status = "closed"] \in ComplaintRows
    BY <1>3, ComplaintRowType DEF ComplaintStatus
  <2>2. underway' \subseteq underway
    BY <1>3 DEF ConfirmResolution, Writes
  <2> QED BY <1>3, <2>1, <2>2, SetComplaintType DEF ConfirmResolution, TypeOK
<1>4. ASSUME TypeOK, NEW c \in Complaints, ReopenComplaint(c)
      PROVE  TypeOK'
  <2>1. [complaint[c] EXCEPT !.status = "open", !.reopened = TRUE] \in ComplaintRows
    BY <1>4, ComplaintRowType DEF ComplaintStatus
  <2>2. underway' \subseteq underway
    BY <1>4 DEF ReopenComplaint, Writes
  <2> QED BY <1>4, <2>1, <2>2, SetComplaintType DEF ReopenComplaint, TypeOK
<1>5. ASSUME TypeOK, NEW o \in Orders, NEW confirmed \in BOOLEAN,
             RespondToSchedule(o, confirmed)
      PROVE  TypeOK'
  <2> DEFINE new == IF confirmed THEN [order[o] EXCEPT !.status = "offered"]
                    ELSE [order[o] EXCEPT !.status = "draft", !.slot = NoSlot]
  <2>1. new \in OrderRows
    <3>1. [order[o] EXCEPT !.status = "offered"] \in OrderRows
      BY <1>5 DEF TypeOK, OrderRows, OrderStatus, Live
    <3>2. [order[o] EXCEPT !.status = "draft", !.slot = NoSlot] \in OrderRows
      BY <1>5, StatusAndTimeType DEF OrderStatus, Live, Times
    <3> QED BY <3>1, <3>2, Zenon
  <2>2. /\ SetOrder(o, new) /\ timers' = Synced(o, new) /\ alerted' = Unalerted(o, new)
        /\ UNCHANGED <<complaint, asg, refused, underway, ctimers>>
    BY <1>5 DEF RespondToSchedule
  <2> HIDE DEF new
  <2> QED BY <1>5, <2>1, <2>2, SetOrderType, SyncedType, UnalertedType DEF TypeOK
<1>6. ASSUME TypeOK, NEW o \in Orders, NEW slot \in Slots, ResidentSetsTime(o, slot)
      PROVE  TypeOK'
  <2> DEFINE new == [order[o] EXCEPT !.status = "offered", !.slot = slot]
  <2>1. new \in OrderRows
    BY <1>6, StatusAndTimeType DEF OrderStatus, Live, Times
  <2>2. /\ SetOrder(o, new) /\ timers' = Synced(o, new) /\ alerted' = Unalerted(o, new)
        /\ UNCHANGED <<complaint, asg, refused, underway, ctimers>>
    BY <1>6 DEF ResidentSetsTime
  <2> HIDE DEF new
  <2> QED BY <1>6, <2>1, <2>2, SetOrderType, SyncedType, UnalertedType DEF TypeOK
<1>7. ASSUME TypeOK, NEW c \in Complaints, ReadToConfirm(c) \/ ReadToReopen(c)
      PROVE  TypeOK'
  <2>1. underway' \subseteq Complaints \X UnlockedVerb
    BY <1>7 DEF ReadToConfirm, ReadToReopen, Reads, UnlockedVerb, TypeOK
  <2> QED BY <1>7, <2>1 DEF ReadToConfirm, ReadToReopen, Reads, TypeOK
<1> QED BY <1>1, <1>2, <1>3, <1>4, <1>5, <1>6, <1>7 DEF ResidentNext

\* Each verb of the office keeps the types.
LEMMA OfficeType == TypeOK /\ OfficeNext => TypeOK'
<1> SUFFICES ASSUME TypeOK, NEW c \in Complaints,
                    \/ TakeUpComplaint(c)
                    \/ \E high \in Highs : RaisePriority(c, high)
                    \/ SupervisorResolve(c)
                    \/ \E st \in HandStatuses : UpdateComplaint(c, st)
             PROVE  TypeOK'
  BY DEF OfficeNext
<1> USE InputsAssumption
<1>1. ASSUME NEW st \in ComplaintStatus
      PROVE  [complaint[c] EXCEPT !.status = st] \in ComplaintRows
  BY DEF TypeOK, ComplaintRows
<1>2. ASSUME TakeUpComplaint(c)
      PROVE  TypeOK'
  <2>1. complaint' \in [Complaints -> ComplaintRows]
    <3> DEFINE st == IF complaint[c].status = "open" THEN "acknowledged"
                     ELSE complaint[c].status
               row == [complaint[c] EXCEPT !.takenUp = TRUE, !.status = st]
    <3>1. st \in ComplaintStatus
      BY <1>2 DEF TakeUpComplaint, TypeOK, ComplaintRows, ComplaintStatus
    <3>2. complaint' = [complaint EXCEPT ![c] = row]
      BY <1>2 DEF TakeUpComplaint, TypeOK
    <3> HIDE DEF st
    <3>3. row \in ComplaintRows
      BY <3>1, ComplaintRowType
    <3> HIDE DEF row
    <3> QED BY <3>2, <3>3 DEF TypeOK
  <2> QED BY <1>2, <2>1 DEF TakeUpComplaint, TypeOK
<1>3. ASSUME NEW high \in Highs, RaisePriority(c, high)
      PROVE  TypeOK'
  <2>1. complaint' \in [Complaints -> ComplaintRows]
    BY <1>3 DEF RaisePriority, TypeOK, ComplaintRows
  <2>2. \A o \in Orders : [order[o] EXCEPT !.high = high] \in OrderRows
    BY DEF TypeOK, OrderRows
  <2>3. order' \in [Orders -> OrderRows]
    BY <1>3, <2>2 DEF RaisePriority, TypeOK
  <2> QED BY <1>3, <2>1, <2>3 DEF RaisePriority, TypeOK
<1>4. ASSUME SupervisorResolve(c)
      PROVE  TypeOK'
  <2>1. \A o \in Orders : [order[o] EXCEPT !.status = "cancelled"] \in OrderRows
    BY StatusType DEF OrderStatus
  <2>2. \A o \in Orders : Withdraw(asg[o], {"offered", "accepted"})
                             \in [Staff -> AssignmentRows]
    BY WithdrawType DEF TypeOK
  <2>3. /\ order' \in [Orders -> OrderRows]
        /\ asg' \in [Orders -> [Staff -> AssignmentRows]]
        /\ timers' \subseteq Orders \X OrderTimer
    BY <1>4, <2>1, <2>2 DEF SupervisorResolve, TypeOK
  <2>4. /\ SetComplaint(c, [complaint[c] EXCEPT !.status = "resolved"])
        /\ UNCHANGED <<refused, underway, alerted>>
    BY <1>4 DEF SupervisorResolve
  <2> QED BY <1>1, <2>3, <2>4, SetComplaintType DEF TypeOK, ComplaintStatus
<1>5. ASSUME NEW st \in HandStatuses, UpdateComplaint(c, st)
      PROVE  TypeOK'
  BY <1>1, <1>5, SetComplaintType DEF UpdateComplaint, TypeOK
<1> QED BY <1>2, <1>3, <1>4, <1>5

\* A task that is completed disarms its timer and keeps the types, whether or
\* not its handler told anybody.
LEMMA SkipAndAlertType ==
    ASSUME TypeOK, NEW o \in Orders, NEW kind, UNCHANGED <<refused, underway, ctimers>>,
           Skip(o, kind) \/ Alert(o, kind)
    PROVE  TypeOK'
BY DEF TypeOK, Skip, Alert, Fired

\* So does an automatic booking at the first time somebody can take.
LEMMA BookFirstType ==
    ASSUME TypeOK, NEW o \in Orders, UNCHANGED <<refused, underway, ctimers, alerted>>,
           BookFirstAvailable(o)
    PROVE  TypeOK'
<1>1. PICK slot \in Slots : \E w \in Candidates(o, slot, {}, refused) :
                               Book(o, w, slot, {"offered"})
  BY DEF BookFirstAvailable
<1>2. PICK w \in Candidates(o, slot, {}, refused) : Book(o, w, slot, {"offered"})
  BY <1>1
<1>3. w \in Staff /\ slot \in Times
  BY <1>2 DEF Candidates, Staff, Times
<1> QED BY <1>2, <1>3, BookType DEF TypeOK

\* Each handler of the dispatcher, and each retirement, keeps the types.
LEMMA DispatcherType == TypeOK /\ DispatcherNext => TypeOK'
<1> USE IdsAssumption
<1>1. ASSUME TypeOK, NEW o \in Orders, NEW away, NEW picked \in SUBSET Members,
             FireManualWindow(o, away, picked)
      PROVE  TypeOK'
  <2> DEFINE kind == "manual_window"
             sent == {w \in picked : asg[o][w].st # "offered"}
             rows == [w \in Staff |-> IF w \in sent THEN Row("offered", order[o].slot)
                                      ELSE asg[o][w]]
  <2>1. CASE Skip(o, kind) \/ Alert(o, kind)
    BY <1>1, <2>1, SkipAndAlertType DEF FireManualWindow
  <2>2. CASE /\ asg' = [asg EXCEPT ![o] = rows]
             /\ timers' = Fired(o, kind) \union {<<o, "auto_assign">>}
             /\ complaint' = Acknowledged(ComplaintOf[o])
             /\ UNCHANGED <<order, alerted>>
    <3>1. rows \in [Staff -> AssignmentRows]
      BY <1>1 DEF TypeOK, OrderRows, AssignmentRows, Row, RowStatus
    <3>2. timers' \subseteq Orders \X OrderTimer
      BY <1>1, <2>2 DEF TypeOK, Fired, OrderTimer
    <3>3. UNCHANGED <<refused, underway, ctimers>>
      BY <1>1 DEF FireManualWindow
    <3> HIDE DEF rows
    <3> QED BY <1>1, <2>2, <3>1, <3>2, <3>3, AcknowledgedType DEF TypeOK
  <2> QED BY <1>1, <2>1, <2>2 DEF FireManualWindow, PingCandidates
<1>2. ASSUME TypeOK, NEW o \in Orders, NEW away, FireAutoAssign(o, away)
      PROVE  TypeOK'
  <2>1. CASE Skip(o, "auto_assign") \/ Alert(o, "auto_assign")
    BY <1>2, <2>1, SkipAndAlertType DEF FireAutoAssign
  <2>2. CASE /\ \E w \in Candidates(o, order[o].slot, away, refused) :
                    Book(o, w, order[o].slot, {"offered"})
             /\ UNCHANGED alerted
    <3>1. PICK w \in Candidates(o, order[o].slot, away, refused) :
             Book(o, w, order[o].slot, {"offered"})
      BY <2>2
    <3>2. w \in Staff /\ order[o].slot \in Times
      BY <1>2, <3>1 DEF Candidates, Staff, TypeOK, OrderRows
    <3>3. UNCHANGED <<refused, underway, ctimers>>
      BY <1>2 DEF FireAutoAssign
    <3> QED BY <1>2, <2>2, <3>1, <3>2, <3>3, BookType DEF TypeOK
  <2> QED BY <1>2, <2>1, <2>2 DEF FireAutoAssign
<1>3. ASSUME TypeOK, NEW o \in Orders, FireResidentTimeout(o)
      PROVE  TypeOK'
  <2> DEFINE st == IF order[o].slot # NoSlot THEN "offered" ELSE "draft"
             new == [order[o] EXCEPT !.status = st]
  <2>1. UNCHANGED <<refused, underway, ctimers>>
    BY <1>3 DEF FireResidentTimeout
  <2>2. CASE Skip(o, "resident_timeout")
    BY <1>3, <2>1, <2>2, SkipAndAlertType
  <2>3. CASE BookFirstAvailable(o) /\ UNCHANGED alerted
    BY <1>3, <2>1, <2>3, BookFirstType
  <2>4. CASE /\ SetOrder(o, new) /\ timers' = Synced(o, new)
             /\ alerted' = IF st = "draft" THEN alerted \union {o}
                           ELSE Unalerted(o, new)
             /\ UNCHANGED <<complaint, asg>>
    <3>1. new \in OrderRows
      BY <1>3, StatusType DEF OrderStatus, Live
    <3>2. alerted' \subseteq Orders
      BY <1>3, <2>4, UnalertedType DEF TypeOK
    <3> HIDE DEF new
    <3> QED BY <1>3, <2>1, <2>4, <3>1, <3>2, SetOrderType, SyncedType DEF TypeOK
  <2> QED BY <1>3, <2>2, <2>3, <2>4 DEF FireResidentTimeout, ProceedUnanswered
<1>4. ASSUME TypeOK, NEW o \in Orders, FireFacilityAutoAssign(o)
      PROVE  TypeOK'
  <2>1. UNCHANGED <<refused, underway, ctimers>>
    BY <1>4 DEF FireFacilityAutoAssign
  <2>2. \/ Skip(o, "facility_auto_assign")
        \/ UNCHANGED <<complaint, order, asg, timers, alerted>>
        \/ BookFirstAvailable(o) /\ UNCHANGED alerted
        \/ Alert(o, "facility_auto_assign")
    BY <1>4 DEF FireFacilityAutoAssign
  <2>3. CASE UNCHANGED <<complaint, order, asg, timers, alerted>>
    BY <1>4, <2>1, <2>3 DEF TypeOK
  <2> QED BY <1>4, <2>1, <2>2, <2>3, SkipAndAlertType, BookFirstType
<1>5. ASSUME TypeOK, NEW o \in Orders, FireFailedVisitEscalation(o)
      PROVE  TypeOK'
  BY <1>5, SkipAndAlertType DEF FireFailedVisitEscalation
<1>6. ASSUME TypeOK, NEW c \in Complaints, NEW kind \in ComplaintTimer,
             FireAutoClose(c, kind)
      PROVE  TypeOK'
  <2>1. [complaint[c] EXCEPT !.status = "closed"] \in ComplaintRows
    BY <1>6, ComplaintRowType DEF ComplaintStatus
  <2> QED BY <1>6, <2>1 DEF FireAutoClose, TypeOK
<1>7. ASSUME TypeOK, NEW c \in Complaints, NEW kind \in ComplaintTimer,
             RetireComplaintTimer(c, kind)
      PROVE  TypeOK'
  BY <1>7 DEF RetireComplaintTimer, TypeOK
<1>8. ASSUME TypeOK, NEW o \in Orders, NEW kind \in OrderTimer, RetireTimer(o, kind)
      PROVE  TypeOK'
  BY <1>8, SkipAndAlertType DEF RetireTimer
<1> QED
  BY <1>1, <1>2, <1>3, <1>4, <1>5, <1>6, <1>7, <1>8 DEF DispatcherNext, FireOrder

\* Every step keeps the types.
LEMMA TypeStep == TypeOK /\ [Next]_vars => TypeOK'
<1>1. TypeOK /\ UNCHANGED vars => TypeOK'
  BY DEF TypeOK, vars
<1> QED BY <1>1, SupervisorType, WorkerType, ResidentType, OfficeType, DispatcherType
        DEF Next

\* Every variable keeps its type: the type invariant the run one_job checks,
\* for every behaviour and all values of the constants.
THEOREM TypeCorrect == Spec => []TypeOK
<1>1. Init => TypeOK
  BY DEF Init, TypeOK, ComplaintRows, OrderRows, AssignmentRows, NoRow, Times, OrderKind
<1> QED BY <1>1, TypeStep, PTL DEF Spec

-------------------------------------------------------------------------------
(* The assignment rows agree with the job.  HolderMatchesJob is inductive: no *)
(* strengthening is needed beyond the types.                                   *)

\* HolderMatchesJob for one job, of its table of rows and its status.
RowsFit(rows, st) ==
    /\ \A v, w \in Staff :
          rows[v].st = "accepted" /\ rows[w].st = "accepted" => v = w
    /\ (\E w \in Staff : rows[w].st = "accepted") <=> st \in {"scheduled", "in_progress"}
    /\ \A w \in Staff :
          rows[w].st = "offered" => st \in {"draft", "awaiting_resident", "offered"}

\* HolderMatchesJob says so of every job.
LEMMA HolderIsRowsFit ==
    HolderMatchesJob <=> \A o \in Orders : RowsFit(asg[o], order[o].status)
BY DEF HolderMatchesJob, Holding, RowsFit

\* A step that writes one job and its rows has only that job to answer for.
LEMMA OneJobFits ==
    ASSUME TypeOK, HolderMatchesJob, NEW o \in Orders, NEW new, NEW rows,
           SetOrder(o, new), asg' = [asg EXCEPT ![o] = rows],
           RowsFit(rows, new.status)
    PROVE  HolderMatchesJob'
<1>1. \A p \in Orders : RowsFit(asg[p], order[p].status)
  BY HolderIsRowsFit
<1>2. ASSUME NEW p \in Orders
      PROVE  RowsFit(asg'[p], order'[p].status)
  <2>1. CASE p = o
    BY <2>1 DEF TypeOK, SetOrder
  <2>2. CASE p # o
    BY <1>1, <2>2 DEF TypeOK, SetOrder
  <2> QED BY <2>1, <2>2
<1> QED BY <1>2 DEF HolderMatchesJob, Holding, RowsFit

\* A step that leaves the rows and the statuses of all jobs alone is harmless.
LEMMA SameStatusesFit ==
    ASSUME HolderMatchesJob, UNCHANGED asg,
           \A o \in Orders : order'[o].status = order[o].status
    PROVE  HolderMatchesJob'
BY DEF HolderMatchesJob, Holding

\* What a booking writes: everybody with a row in `ended` is let go, one person
\* is put in; enough if nobody has an accepted row that stays.
LEMMA BookedFits ==
    ASSUME NEW rows \in [Staff -> AssignmentRows], NEW w \in Staff, NEW slot,
           NEW ended, "offered" \in ended,
           \/ "accepted" \in ended
           \/ \A v \in Staff : rows[v].st # "accepted"
    PROVE  RowsFit([Withdraw(rows, ended) EXCEPT ![w] = Row("accepted", slot)],
                   "scheduled")
BY DEF RowsFit, Withdraw, Row

\* What cancelling a job writes.
LEMMA WithdrawnFits ==
    ASSUME NEW rows \in [Staff -> AssignmentRows]
    PROVE  RowsFit(Withdraw(rows, {"offered", "accepted"}), "cancelled")
BY DEF RowsFit, Withdraw, Row

\* A booking on a job, all of whose standing rows are let go.
LEMMA BookFits ==
    ASSUME TypeOK, HolderMatchesJob, NEW o \in Orders, NEW w \in Staff, NEW slot,
           NEW ended, Book(o, w, slot, ended), "offered" \in ended,
           \/ "accepted" \in ended
           \/ order[o].status \in {"draft", "awaiting_resident", "offered"}
    PROVE  HolderMatchesJob'
<1> DEFINE new == [order[o] EXCEPT !.status = "scheduled", !.slot = slot]
           rows == [Withdraw(asg[o], ended) EXCEPT ![w] = Row("accepted", slot)]
<1>1. asg[o] \in [Staff -> AssignmentRows] /\ new.status = "scheduled"
  BY DEF TypeOK, OrderRows
<1>2. "accepted" \in ended \/ \A v \in Staff : asg[o][v].st # "accepted"
  BY HolderIsRowsFit DEF RowsFit
<1>3. RowsFit(rows, new.status)
  BY <1>1, <1>2, BookedFits
<1>4. SetOrder(o, new) /\ asg' = [asg EXCEPT ![o] = rows]
  BY DEF Book
<1> HIDE DEF new, rows
<1> QED BY <1>3, <1>4, OneJobFits

\* The supervisor's verbs keep rows and jobs in agreement.
LEMMA SupervisorFits == TypeOK /\ HolderMatchesJob /\ SupervisorNext => HolderMatchesJob'
<1> SUFFICES ASSUME TypeOK, HolderMatchesJob, NEW o \in Orders,
                    \/ \E kind \in Kinds, slot \in RaiseSlots : CreateWorkOrder(o, kind, slot)
                    \/ \E kind \in Kinds, high \in Highs : UpdateWorkOrder(o, kind, high)
                    \/ \E slot \in RescheduleSlots : RescheduleWorkOrder(o, slot)
                    \/ \E w \in Staff, slot \in RescheduleSlots \union {NoSlot} :
                          \/ AssignWorkOrder(o, w, slot)
                          \/ ForceAssignWorkOrder(o, w, slot)
                          \/ TakeUpWorkOrder(o, w, slot)
                    \/ CancelWorkOrder(o)
             PROVE  HolderMatchesJob'
  BY DEF SupervisorNext
<1>0. /\ asg[o] \in [Staff -> AssignmentRows] /\ asg = [asg EXCEPT ![o] = asg[o]]
      /\ order[o] \in OrderRows
      /\ RowsFit(asg[o], order[o].status)
  BY HolderIsRowsFit DEF TypeOK
<1>1. ASSUME NEW kind \in Kinds, NEW slot \in RaiseSlots, CreateWorkOrder(o, kind, slot)
      PROVE  HolderMatchesJob'
  <2> DEFINE new == [status |-> IF kind = "resident" THEN "awaiting_resident"
                                ELSE IF slot = NoSlot THEN "draft" ELSE "offered",
                     kind |-> kind, slot |-> slot,
                     high |-> complaint[ComplaintOf[o]].high, byResident |-> FALSE]
  <2>1. SetOrder(o, new) /\ asg' = asg /\ order[o].status = "none"
    BY <1>1 DEF CreateWorkOrder
  <2>2. RowsFit(asg[o], new.status)
    BY <1>0, <2>1 DEF RowsFit
  <2> HIDE DEF new
  <2> QED BY <1>0, <2>1, <2>2, OneJobFits
<1>2. ASSUME NEW kind \in Kinds, NEW high \in Highs, UpdateWorkOrder(o, kind, high)
      PROVE  HolderMatchesJob'
  <2>1. \A p \in Orders : order'[p].status = order[p].status
    BY <1>0, <1>2 DEF UpdateWorkOrder, SetOrder, TypeOK, OrderRows
  <2> QED BY <1>2, <2>1, SameStatusesFit DEF UpdateWorkOrder
<1>3. ASSUME NEW slot \in RescheduleSlots, RescheduleWorkOrder(o, slot)
      PROVE  HolderMatchesJob'
  <2> DEFINE holder == Holding(o, {"accepted"})
             st == IF holder # {} THEN "scheduled"
                   ELSE IF order[o].kind = "resident" THEN "awaiting_resident"
                   ELSE "offered"
             new == [order[o] EXCEPT !.slot = slot, !.status = st]
             rows == [w \in Staff |-> IF w \in holder THEN Row("accepted", slot)
                                      ELSE asg[o][w]]
  <2>1. SetOrder(o, new) /\ asg' = [asg EXCEPT ![o] = rows]
    BY <1>3 DEF RescheduleWorkOrder
  <2>2. new.status = st
    BY <1>0 DEF OrderRows
  <2>3. \A w \in Staff : rows[w].st = asg[o][w].st
    BY DEF Holding, Row
  <2>4. holder = {} <=> ~\E w \in Staff : asg[o][w].st = "accepted"
    BY DEF Holding
  <2>5. RowsFit(rows, st)
    <3> HIDE DEF holder, rows
    <3> QED BY <1>0, <2>3, <2>4 DEF RowsFit
  <2> HIDE DEF new, rows, st
  <2> QED BY <2>1, <2>2, <2>5, OneJobFits
<1>4. ASSUME NEW w \in Staff, NEW slot, AssignWorkOrder(o, w, slot)
      PROVE  HolderMatchesJob'
  <2> DEFINE at == TimeFor(o, slot)
             new == [order[o] EXCEPT !.status = "offered", !.slot = at]
             rows == [Withdraw(asg[o], {"offered", "accepted"}) EXCEPT
                         ![w] = Row("offered", at)]
  <2>1. SetOrder(o, new) /\ asg' = [asg EXCEPT ![o] = rows]
    BY <1>4 DEF AssignWorkOrder
  <2>2. new.status = "offered"
    BY <1>0 DEF OrderRows
  <2>3. RowsFit(rows, "offered")
    BY <1>0 DEF RowsFit, Withdraw, Row
  <2> HIDE DEF new, rows
  <2> QED BY <2>1, <2>2, <2>3, OneJobFits
<1>5. ASSUME NEW w \in Staff, NEW slot, BookOutright(o, w, slot)
      PROVE  HolderMatchesJob'
  BY <1>5, BookFits DEF BookOutright
<1>6. ASSUME CancelWorkOrder(o)
      PROVE  HolderMatchesJob'
  <2> DEFINE new == [order[o] EXCEPT !.status = "cancelled"]
  <2>1. /\ SetOrder(o, new)
        /\ asg' = [asg EXCEPT ![o] = Withdraw(asg[o], {"offered", "accepted"})]
    BY <1>6 DEF CancelWorkOrder
  <2>2. new.status = "cancelled"
    BY <1>0 DEF OrderRows
  <2> HIDE DEF new
  <2> QED BY <1>0, <2>1, <2>2, WithdrawnFits, OneJobFits
<1> QED
  BY <1>1, <1>2, <1>3, <1>4, <1>5, <1>6 DEF ForceAssignWorkOrder, TakeUpWorkOrder

\* The workers' verbs keep them in agreement: only the one holder finishes.
LEMMA WorkerFits == TypeOK /\ HolderMatchesJob /\ WorkerNext => HolderMatchesJob'
<1> SUFFICES ASSUME TypeOK, HolderMatchesJob, NEW o \in Orders, NEW w \in Staff,
                    \/ ClaimOpenWorkOrder(o, w)
                    \/ AcceptOffer(o, w)
                    \/ \E away \in Aways : DeclineOffer(o, w, away)
                    \/ StartWorkOrder(o, w)
                    \/ CompleteWorkOrder(o, w)
                    \/ ReportFailure(o, w)
             PROVE  HolderMatchesJob'
  BY DEF WorkerNext
<1>0. /\ asg[o] \in [Staff -> AssignmentRows] /\ asg = [asg EXCEPT ![o] = asg[o]]
      /\ order[o] \in OrderRows
      /\ RowsFit(asg[o], order[o].status)
  BY HolderIsRowsFit DEF TypeOK
<1>1. \A st : [order[o] EXCEPT !.status = st].status = st
  BY <1>0 DEF OrderRows
<1>2. ASSUME ClaimOpenWorkOrder(o, w)
      PROVE  HolderMatchesJob'
  BY <1>2, BookFits DEF ClaimOpenWorkOrder
<1>3. ASSUME AcceptOffer(o, w)
      PROVE  HolderMatchesJob'
  <2> DEFINE new == [order[o] EXCEPT !.status = "scheduled"]
             rows == [Withdraw(asg[o], {"offered", "accepted"}) EXCEPT
                         ![w] = Row("accepted", asg[o][w].slot)]
  <2>1. SetOrder(o, new) /\ asg' = [asg EXCEPT ![o] = rows]
    BY <1>3 DEF AcceptOffer
  <2>2. RowsFit(rows, new.status)
    BY <1>0, <1>1, BookedFits
  <2> HIDE DEF new, rows
  <2> QED BY <2>1, <2>2, OneJobFits
<1>4. ASSUME NEW away \in Aways, DeclineOffer(o, w, away)
      PROVE  HolderMatchesJob'
  <2> DEFINE new == [order[o] EXCEPT !.status = "scheduled"]
             rows == [asg[o] EXCEPT ![w] = Row("declined", NoSlot)]
             forced(f) == [Withdraw(rows, {"offered"}) EXCEPT
                              ![f] = Row("accepted", order[o].slot)]
  <2>1. /\ asg[o][w].st = "offered"
        /\ \/ \E f \in Forceable(o, away) :
                 asg' = [asg EXCEPT ![o] = forced(f)] /\ SetOrder(o, new)
           \/ asg' = [asg EXCEPT ![o] = rows] /\ UNCHANGED order
    BY <1>4 DEF DeclineOffer
  <2>2. \A v \in Staff : asg[o][v].st # "accepted"
    BY <1>0, <2>1 DEF RowsFit
  <2>3. /\ rows \in [Staff -> AssignmentRows]
        /\ \A v \in Staff : rows[v].st # "accepted"
    BY <1>0, <2>2 DEF Row, AssignmentRows, RowStatus, Times
  <2>4. CASE \E f \in Forceable(o, away) :
                asg' = [asg EXCEPT ![o] = forced(f)] /\ SetOrder(o, new)
    <3>1. PICK f \in Forceable(o, away) :
             asg' = [asg EXCEPT ![o] = forced(f)] /\ SetOrder(o, new)
      BY <2>4
    <3>2. f \in Staff
      BY DEF Forceable, Candidates, Staff
    <3> HIDE DEF rows
    <3>3. RowsFit(forced(f), new.status)
      BY <1>1, <2>3, <3>2, BookedFits
    <3> HIDE DEF forced, new
    <3> QED BY <3>1, <3>3, OneJobFits
  <2>5. CASE asg' = [asg EXCEPT ![o] = rows] /\ UNCHANGED order
    <3>1. RowsFit(rows, order[o].status)
      BY <1>0, <2>1, <2>3 DEF RowsFit, Row
    <3>2. SetOrder(o, order[o])
      BY <2>5 DEF SetOrder, TypeOK
    <3> HIDE DEF rows
    <3> QED BY <2>5, <3>1, <3>2, OneJobFits
  <2> QED BY <2>1, <2>4, <2>5
<1>5. ASSUME StartWorkOrder(o, w)
      PROVE  HolderMatchesJob'
  <2> DEFINE new == [order[o] EXCEPT !.status = "in_progress"]
  <2>1. SetOrder(o, new) /\ asg' = asg /\ order[o].status = "scheduled"
    BY <1>5 DEF StartWorkOrder
  <2>2. RowsFit(asg[o], new.status)
    BY <1>0, <1>1, <2>1 DEF RowsFit
  <2> HIDE DEF new
  <2> QED BY <1>0, <2>1, <2>2, OneJobFits
<1>6. ASSUME NEW st, st \in {"completed", "failed"}, NEW alerts,
             MayFinish(o, w), Finish(o, w, st, st, alerts)
      PROVE  HolderMatchesJob'
  <2> DEFINE new == [order[o] EXCEPT !.status = st]
             rows == [asg[o] EXCEPT ![w] = Row(st, NoSlot)]
  <2>1. SetOrder(o, new) /\ asg' = [asg EXCEPT ![o] = rows]
    BY <1>6 DEF Finish, TypeOK
  <2>2. RowsFit(rows, st)
    BY <1>0, <1>6 DEF RowsFit, MayFinish, Row
  <2>3. new.status = st
    BY <1>1
  <2> HIDE DEF new, rows
  <2> QED BY <2>1, <2>2, <2>3, OneJobFits
<1> QED
  BY <1>2, <1>3, <1>4, <1>5, <1>6 DEF CompleteWorkOrder, ReportFailure

\* The residents' verbs keep them in agreement.
LEMMA ResidentFits == TypeOK /\ HolderMatchesJob /\ ResidentNext => HolderMatchesJob'
<1> SUFFICES ASSUME TypeOK, HolderMatchesJob, ResidentNext
             PROVE  HolderMatchesJob'
  OBVIOUS
<1>0. \A o \in Orders : /\ asg[o] \in [Staff -> AssignmentRows]
                        /\ asg = [asg EXCEPT ![o] = asg[o]]
                        /\ order[o] \in OrderRows
                        /\ RowsFit(asg[o], order[o].status)
  BY HolderIsRowsFit DEF TypeOK
<1>1. ASSUME NEW c \in Complaints,
             \/ \E high \in Highs : RaiseComplaint(c, high)
             \/ ReadToConfirm(c) \/ ConfirmResolution(c)
             \/ ReadToReopen(c) \/ ReopenComplaint(c)
      PROVE  HolderMatchesJob'
  BY <1>1, SameStatusesFit DEF RaiseComplaint, ReadToConfirm, ReadToReopen, Reads,
                               ConfirmResolution, ReopenComplaint
<1>2. ASSUME NEW c \in Complaints, NEW o \in Orders, NEW repool \in BOOLEAN,
             ResidentCancelWork(c, o, repool)
      PROVE  HolderMatchesJob'
  <2> DEFINE new == [order[o] EXCEPT !.status = "cancelled", !.byResident = TRUE]
  <2>1. /\ SetOrder(o, new)
        /\ asg' = [asg EXCEPT ![o] = Withdraw(asg[o], {"offered", "accepted"})]
    BY <1>2 DEF ResidentCancelWork
  <2>2. new.status = "cancelled"
    BY <1>0 DEF OrderRows
  <2>3. RowsFit(Withdraw(asg[o], {"offered", "accepted"}), new.status)
    BY <1>0, <2>2, WithdrawnFits
  <2> HIDE DEF new
  <2> QED BY <2>1, <2>3, OneJobFits
<1>3. ASSUME NEW o \in Orders, NEW new, SetOrder(o, new), asg' = asg,
             order[o].status = "awaiting_resident",
             new.status \in {"draft", "awaiting_resident", "offered"}
      PROVE  HolderMatchesJob'
  <2>1. RowsFit(asg[o], new.status)
    BY <1>0, <1>3 DEF RowsFit
  <2> QED BY <1>0, <1>3, <2>1, OneJobFits
<1>4. ASSUME NEW o \in Orders, NEW confirmed \in BOOLEAN, RespondToSchedule(o, confirmed)
      PROVE  HolderMatchesJob'
  <2> DEFINE new == IF confirmed THEN [order[o] EXCEPT !.status = "offered"]
                    ELSE [order[o] EXCEPT !.status = "draft", !.slot = NoSlot]
  <2>1. /\ SetOrder(o, new) /\ asg' = asg
        /\ order[o].status = "awaiting_resident"
    BY <1>4 DEF RespondToSchedule
  <2>2. new.status \in {"draft", "offered"}
    BY <1>0 DEF OrderRows
  <2> HIDE DEF new
  <2> QED BY <1>3, <2>1, <2>2
<1>5. ASSUME NEW o \in Orders, NEW slot \in Slots, ResidentSetsTime(o, slot)
      PROVE  HolderMatchesJob'
  <2> DEFINE new == [order[o] EXCEPT !.status = "offered", !.slot = slot]
  <2>1. /\ SetOrder(o, new) /\ asg' = asg
        /\ order[o].status = "awaiting_resident"
    BY <1>5 DEF ResidentSetsTime
  <2>2. new.status = "offered"
    BY <1>0 DEF OrderRows
  <2> HIDE DEF new
  <2> QED BY <1>3, <2>1, <2>2
<1> QED BY <1>1, <1>2, <1>4, <1>5 DEF ResidentNext

\* The office's verbs keep them in agreement, setting a status by hand included.
LEMMA OfficeFits == TypeOK /\ HolderMatchesJob /\ OfficeNext => HolderMatchesJob'
<1> SUFFICES ASSUME TypeOK, HolderMatchesJob, NEW c \in Complaints,
                    \/ TakeUpComplaint(c)
                    \/ \E high \in Highs : RaisePriority(c, high)
                    \/ SupervisorResolve(c)
                    \/ \E st \in HandStatuses : UpdateComplaint(c, st)
             PROVE  HolderMatchesJob'
  BY DEF OfficeNext
<1>1. CASE TakeUpComplaint(c) \/ \E st \in HandStatuses : UpdateComplaint(c, st)
  BY <1>1, SameStatusesFit DEF TakeUpComplaint, UpdateComplaint
<1>2. ASSUME NEW high \in Highs, RaisePriority(c, high)
      PROVE  HolderMatchesJob'
  <2>1. \A o \in Orders : order'[o].status = order[o].status
    BY <1>2 DEF RaisePriority, TypeOK, OrderRows
  <2> QED BY <1>2, <2>1, SameStatusesFit DEF RaisePriority
<1>3. CASE SupervisorResolve(c)
  <2>1. ASSUME NEW o \in Orders
        PROVE  RowsFit(asg'[o], order'[o].status)
    <3>1. CASE o \in CalledOff(c)
      <4>1. asg'[o] = Withdraw(asg[o], {"offered", "accepted"})
        BY <1>3, <3>1 DEF SupervisorResolve
      <4>2. order'[o].status = "cancelled"
        BY <1>3, <3>1 DEF SupervisorResolve, TypeOK, OrderRows
      <4>3. asg[o] \in [Staff -> AssignmentRows]
        BY DEF TypeOK
      <4> QED BY <4>1, <4>2, <4>3, WithdrawnFits
    <3>2. CASE o \notin CalledOff(c)
      <4>1. asg'[o] = asg[o] /\ order'[o] = order[o]
        BY <1>3, <3>2 DEF SupervisorResolve
      <4> QED BY <4>1, HolderIsRowsFit
    <3> QED BY <3>1, <3>2
  <2> QED BY <2>1 DEF HolderMatchesJob, Holding, RowsFit
<1> QED BY <1>1, <1>2, <1>3

\* So do the handlers of the dispatcher.
LEMMA DispatcherFits == TypeOK /\ HolderMatchesJob /\ DispatcherNext => HolderMatchesJob'
<1> SUFFICES ASSUME TypeOK, HolderMatchesJob, DispatcherNext
             PROVE  HolderMatchesJob'
  OBVIOUS
<1>0. \A o \in Orders : /\ asg[o] \in [Staff -> AssignmentRows]
                        /\ asg = [asg EXCEPT ![o] = asg[o]]
                        /\ order[o] \in OrderRows
                        /\ RowsFit(asg[o], order[o].status)
  BY HolderIsRowsFit DEF TypeOK
<1>1. ASSUME UNCHANGED <<order, asg>>
      PROVE  HolderMatchesJob'
  BY <1>1, SameStatusesFit
<1>2. ASSUME NEW o \in Orders, BookFirstAvailable(o),
             order[o].status \in {"draft", "awaiting_resident", "offered"}
      PROVE  HolderMatchesJob'
  <2>1. PICK slot \in Slots : \E w \in Candidates(o, slot, {}, refused) :
                                 Book(o, w, slot, {"offered"})
    BY <1>2 DEF BookFirstAvailable
  <2>2. PICK w \in Candidates(o, slot, {}, refused) : Book(o, w, slot, {"offered"})
    BY <2>1
  <2>3. w \in Staff
    BY DEF Candidates, Staff
  <2> QED BY <1>2, <2>2, <2>3, BookFits
<1>3. ASSUME NEW o \in Orders, NEW away, NEW picked \in SUBSET Members,
             FireManualWindow(o, away, picked)
      PROVE  HolderMatchesJob'
  <2> DEFINE sent == {w \in picked : asg[o][w].st # "offered"}
             rows == [w \in Staff |-> IF w \in sent THEN Row("offered", order[o].slot)
                                      ELSE asg[o][w]]
  <2>1. \/ UNCHANGED <<order, asg>>
        \/ /\ order[o].status = "offered"
           /\ asg' = [asg EXCEPT ![o] = rows] /\ UNCHANGED order
    BY <1>3 DEF FireManualWindow, PingCandidates, Skip, Alert
  <2>2. CASE /\ order[o].status = "offered"
             /\ asg' = [asg EXCEPT ![o] = rows] /\ UNCHANGED order
    <3>1. RowsFit(rows, order[o].status)
      BY <1>0, <2>2 DEF RowsFit, Row
    <3>2. SetOrder(o, order[o])
      BY <2>2 DEF SetOrder, TypeOK
    <3> HIDE DEF rows
    <3> QED BY <2>2, <3>1, <3>2, OneJobFits
  <2> QED BY <1>1, <2>1, <2>2
<1>4. ASSUME NEW o \in Orders, NEW away, FireAutoAssign(o, away)
      PROVE  HolderMatchesJob'
  <2>1. CASE UNCHANGED <<order, asg>>
    BY <1>1, <2>1
  <2>2. CASE /\ order[o].status = "offered"
             /\ \E w \in Candidates(o, order[o].slot, away, refused) :
                   Book(o, w, order[o].slot, {"offered"})
    <3>1. PICK w \in Candidates(o, order[o].slot, away, refused) :
             Book(o, w, order[o].slot, {"offered"})
      BY <2>2
    <3>2. w \in Staff
      BY DEF Candidates, Staff
    <3> QED BY <2>2, <3>1, <3>2, BookFits
  <2> QED BY <1>4, <2>1, <2>2 DEF FireAutoAssign, Skip, Alert
<1>5. ASSUME NEW o \in Orders, FireResidentTimeout(o)
      PROVE  HolderMatchesJob'
  <2> DEFINE st == IF order[o].slot # NoSlot THEN "offered" ELSE "draft"
             new == [order[o] EXCEPT !.status = st]
  <2>1. \/ UNCHANGED <<order, asg>>
        \/ /\ order[o].status = "awaiting_resident"
           /\ BookFirstAvailable(o)
        \/ /\ order[o].status = "awaiting_resident"
           /\ SetOrder(o, new) /\ asg' = asg
    BY <1>5 DEF FireResidentTimeout, ProceedUnanswered, Skip
  <2>2. CASE order[o].status = "awaiting_resident" /\ SetOrder(o, new) /\ asg' = asg
    <3>1. new.status = st
      BY <1>0 DEF OrderRows
    <3>2. RowsFit(asg[o], new.status)
      BY <1>0, <2>2, <3>1 DEF RowsFit
    <3> HIDE DEF new
    <3> QED BY <1>0, <2>2, <3>2, OneJobFits
  <2> QED BY <1>1, <1>2, <2>1, <2>2
<1>6. ASSUME NEW o \in Orders, FireFacilityAutoAssign(o)
      PROVE  HolderMatchesJob'
  <2>1. \/ UNCHANGED <<order, asg>>
        \/ order[o].status = "draft" /\ BookFirstAvailable(o)
    BY <1>6 DEF FireFacilityAutoAssign, Skip, Alert
  <2> QED BY <1>1, <1>2, <2>1
<1>7. ASSUME NEW o \in Orders,
             \/ FireFailedVisitEscalation(o)
             \/ \E kind \in OrderTimer : RetireTimer(o, kind)
      PROVE  HolderMatchesJob'
  BY <1>1, <1>7 DEF FireFailedVisitEscalation, RetireTimer, Skip, Alert
<1>8. ASSUME NEW c \in Complaints, NEW kind \in ComplaintTimer,
             FireAutoClose(c, kind) \/ RetireComplaintTimer(c, kind)
      PROVE  HolderMatchesJob'
  BY <1>1, <1>8 DEF FireAutoClose, RetireComplaintTimer
<1> QED
  BY <1>3, <1>4, <1>5, <1>6, <1>7, <1>8 DEF DispatcherNext, FireOrder

\* A job that is scheduled or in progress has exactly one accepted row and any
\* other job none, whatever the supervisors, workers, residents, the office
\* and the dispatcher do, and in whatever order.
THEOREM HolderAgrees == Spec => []HolderMatchesJob
<1>1. Init => HolderMatchesJob
  BY DEF Init, HolderMatchesJob, Holding, NoRow
<1>2. TypeOK /\ HolderMatchesJob /\ [Next]_vars => HolderMatchesJob'
  <2>1. HolderMatchesJob /\ UNCHANGED vars => HolderMatchesJob'
    BY DEF HolderMatchesJob, Holding, vars
  <2> QED
    BY <2>1, SupervisorFits, WorkerFits, ResidentFits, OfficeFits, DispatcherFits
    DEF Next
<1> QED BY <1>1, <1>2, TypeCorrect, PTL DEF Spec
=============================================================================
