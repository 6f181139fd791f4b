------------------------------- MODULE Portal --------------------------------
(***************************************************************************)
(* One component of the browser application in front of one row of the     *)
(* server: its cached read, its person's writes, the other people who move *)
(* the row, and the event stream that says a row has moved.                *)
(*                                                                         *)
(* The cache is react-query's: data are shown while they are read again, a *)
(* read in flight is cancelled and asked anew when it is invalidated, and  *)
(* the first read of all is joined instead, so that an invalidation during *)
(* it is lost. The admin portal's store has neither rule: a frame asks for *)
(* another snapshot, whatever snapshot is still to come. A write is        *)
(* pressed where the markup offers it, is judged by the server when it     *)
(* arrives, and may be given up on by the client before or after that (the *)
(* request timeout), in which case it is pressed again by hand: writes are *)
(* never retried automatically.                                            *)
(***************************************************************************)
EXTENDS Integers, FiniteSets, Lives

CONSTANTS Components,   \* the components explored, one per behaviour
          Budgets       \* how a behaviour may start and how much it may hold

\* A budget: the stream, "off" when the behaviour has none, and the numbers
\* of moves by other people, of writes pressed, and of faults (reads that
\* fail or are asked again, answers given up on, streams cut).
ASSUME PortalAssumption ==
    Budgets \subseteq [stream : {"off", "opening"}, moves : Nat, presses : Nat, faults : Nat]

VARIABLES
    screen,   \* the component this behaviour is about
    row,      \* the state of its row on the server
    shown,    \* what is on screen: Nothing, or a copy of the row
    fetch,    \* the read in flight
    stray,    \* an older read of the store, in flight too
    press,    \* the write in flight
    late,     \* a write given up on that the server has yet to see
    stream,   \* the tab's connection to /api/v1/events
    due,      \* frames published and not yet delivered
    missed,   \* history: some change was made known to nobody here, or the
              \* read it asked for was called off or overwritten
    verdict,  \* history: the outcomes of writes that would surprise
    left      \* what is left of the budget

vars == <<screen, row, shown, fetch, stray, press, late, stream, due,
          missed, verdict, left>>

\* A copy of a row; "behind" when somebody else has moved the row since,
\* "own" when this person has.
Copy(s) == [state |-> s, behind |-> FALSE, own |-> FALSE]
Nothing == [state |-> "nothing", behind |-> FALSE, own |-> FALSE]
NoWrite == [verb |-> "none", phase |-> "idle", from |-> Nothing,
            answer |-> Nothing, landed |-> 0]

\* A read; the store's read after a refused write has a copy to fall back on.
Reading(phase, copy) == [phase |-> phase, copy |-> copy, orElse |-> Nothing]
InFlight == {"asked", "answered"}

Entity == Life[screen.of]
Verbs  == DOMAIN screen.writes
Store  == screen.cache = "store"

--------------------------------------------------------------------------------
(* The event stream's map from a topic to what it makes stale.             *)

\* Does this portal read this component's key again on this frame?
WakesOn(s, frame) == /\ s.portal \in frame.to
                     /\ Covers(Invalidated(s.portal, frame), s.key)
Wakes(frame) == WakesOn(screen, frame)

\* The frames that may be published for a component's row; do any of those of
\* other people's moves wake it?
FramesOf(s) == Life[s.of].frames \union UNION {m.frames : m \in Life[s.of].others}
Followable(s) == \E m \in Life[s.of].others : \E f \in m.frames : WakesOn(s, f)

\* How the catalogued components are wired: a write reads its own screen again
\* or puts its outcome there, and takes back what it has shown at once; one
\* whose answer is put on screen asks for the row again if frames are relied
\* on for it; the store's writes are answered by a frame that wakes the store;
\* and a component that any of its frames wakes is woken by a resync.
Wired(s) ==
    /\ \A v \in DOMAIN s.writes :
          LET w == s.writes[v]
          IN  /\ s.cache # "store" => Covers(w.tells, s.key) \/ w.sets \/ w.optimistic
              /\ w.optimistic => w.restores
              /\ w.sets => s.cache # "store" /\ (Covers(w.tells, s.key) \/ ~Followable(s))
              /\ s.cache = "store" => \E f \in Life[s.of].frames : WakesOn(s, f)
    /\ \A f \in FramesOf(s) : WakesOn(s, f) => WakesOn(s, Resync)
ASSUME WiringAssumption == \A s \in Components : Wired(s)

\* And how they are told: writes are offered in states of the row, and writes
\* and other people lead from state to state.
WellTold(s) ==
    LET life == Life[s.of]
    IN  /\ life.start \subseteq life.states /\ "nothing" \notin life.states
        /\ "none" \notin DOMAIN s.writes
        /\ \A v \in DOMAIN s.writes : /\ life.moves[v] \subseteq life.states \X life.states
                                       /\ s.offers[v] \subseteq life.states
        /\ \A m \in life.others : m.to \in life.states
ASSUME CatalogAssumption == \A s \in Components : WellTold(s)

\* What may follow a state that is shown: others' moves and the writes lead
\* on, and from what a write shows at once also back.
Closed(s, C) ==
    /\ \A m \in Life[s.of].others : m.from \in C => m.to \in C
    /\ \A v \in DOMAIN s.writes : \A m \in Life[s.of].moves[v] :
          /\ m[1] \in C => m[2] \in C
          /\ s.writes[v].optimistic /\ m[2] \in C => m[1] \in C
Leads(s, x, y) == \A C \in SUBSET Life[s.of].states : Closed(s, C) /\ x \in C => y \in C

\* How the markup fits the guards, the known differences apart: what is offered
\* is accepted, and no guard lets through what the markup does not offer, on a
\* row that may have followed one it was offered on.
Fits(s) ==
    \A v \in DOMAIN s.writes :
        LET moves == Life[s.of].moves[v]
        IN  /\ \A x \in s.offers[v] :
                  (\E m \in moves : m[1] = x) \/ <<s.name, v, x>> \in OverOffered
            /\ \A m \in moves :
                  \/ m[1] \in s.offers[v] \/ <<s.name, v, m[1]>> \in UnderOffered
                  \/ m[1] = m[2] /\ v \notin Life[s.of].adds
                  \/ ~\E x \in s.offers[v] : Leads(s, x, m[1])
ASSUME FitAssumption == \A s \in Components : Fits(s)

--------------------------------------------------------------------------------
(* The cache.                                                              *)

\* A first read is joined, not asked again; what it had already been
\* answered without is then missed.
Joined == shown = Nothing /\ fetch.phase \in InFlight /\ ~Store

\* Mutant of Invalidate: an invalidation joins whatever read is in flight.
InvalidateJoining ==
    /\ fetch' = IF fetch.phase \in InFlight THEN fetch ELSE Reading("asked", Nothing)
    /\ UNCHANGED <<stray, missed>>

Invalidate ==
    /\ fetch' = IF Joined THEN fetch ELSE Reading("asked", Nothing)
    /\ stray' = IF Store /\ fetch.phase \in InFlight THEN fetch ELSE stray
    /\ missed' = (missed \/ (Joined /\ fetch.phase = "answered" /\ fetch.copy.behind))

\* The row moves: every copy of it is now out of date, and frames are due.
Aged(copy, mine) ==
    IF copy = Nothing THEN copy
    ELSE IF mine THEN [copy EXCEPT !.own = TRUE] ELSE [copy EXCEPT !.behind = TRUE]
Moved(to, frames, mine) ==
    /\ row' = to
    /\ shown' = Aged(shown, mine)
    /\ fetch' = [fetch EXCEPT !.copy = Aged(@, mine), !.orElse = Aged(@, mine)]
    /\ stray' = [stray EXCEPT !.copy = Aged(@, mine), !.orElse = Aged(@, mine)]
    /\ due' = IF stream # "off" THEN due \union {f \in frames : screen.portal \in f.to} ELSE due

Ask ==      \* the Retry button, and every return to the page
    /\ fetch.phase \in {"idle", "failed"}
    /\ left.faults > 0
    /\ left' = [left EXCEPT !.faults = @ - 1]
    /\ fetch' = Reading("asked", Nothing)
    /\ UNCHANGED <<screen, row, shown, stray, press, late, stream, due, missed, verdict>>

AnswerRead ==
    /\ fetch.phase = "asked"
    /\ fetch' = [fetch EXCEPT !.phase = "answered", !.copy = Copy(row)]
    /\ UNCHANGED <<screen, row, shown, stray, press, late, stream, due, missed, verdict, left>>

LandRead ==
    /\ fetch.phase = "answered"
    /\ shown' = fetch.copy
    /\ fetch' = Reading("idle", Nothing)
    /\ UNCHANGED <<screen, row, stray, press, late, stream, due, missed, verdict, left>>

\* The store's older snapshot lands, over the newer one if that came first.
LandStray ==
    /\ stray.phase \in InFlight
    /\ stray' = Reading("idle", Nothing)
    /\ LET copy == IF stray.phase = "asked" THEN Copy(row) ELSE stray.copy
       IN  /\ shown' = copy
           /\ missed' = (missed \/ (fetch.phase = "idle" /\ (copy.behind \/ copy.own)))
    /\ UNCHANGED <<screen, row, fetch, press, late, stream, due, verdict, left>>

\* Both tries of a read fail: the old data stay on screen, or the row as it
\* was before the refused write that the read was to correct.
FailRead ==
    /\ fetch.phase \in InFlight
    /\ left.faults > 0
    /\ left' = [left EXCEPT !.faults = @ - 1]
    /\ fetch' = Reading("failed", Nothing)
    /\ shown' = IF fetch.orElse = Nothing THEN shown ELSE fetch.orElse
    /\ UNCHANGED <<screen, row, stray, press, late, stream, due, missed, verdict>>

--------------------------------------------------------------------------------
(* The person's writes.                                                    *)

\* Mutant of Offered: the button is left enabled whatever the row shows.
OfferedAlways(v) == shown # Nothing
Offered(v) == shown.state \in screen.offers[v]

\* A press; the same write pressed again after an error keeps its count. An
\* optimistic write shows its outcome at once, and cancels the read in flight
\* where the cache can.
Press(v) ==
    /\ press.phase = "idle" /\ Offered(v)
    /\ left.presses > 0
    /\ left' = [left EXCEPT !.presses = @ - 1]
    /\ press' = [verb |-> v, phase |-> "sent", from |-> shown, answer |-> Nothing,
                 landed |-> IF press.verb = v THEN press.landed ELSE 0]
    /\ IF screen.writes[v].optimistic
       THEN /\ shown' \in {[shown EXCEPT !.state = m[2]] :
                              m \in {p \in Entity.moves[v] : p[1] = shown.state}}
            /\ LET cancels == fetch.phase \in InFlight /\ ~Store
               IN  /\ fetch' = IF cancels THEN Reading("idle", Nothing) ELSE fetch
                   /\ missed' = (missed \/ cancels)
       ELSE UNCHANGED <<shown, fetch, missed>>
    /\ UNCHANGED <<screen, row, stray, late, stream, due, verdict>>

Judged(v, kind) == {[kind |-> kind, verb |-> v, at |-> row]}

\* The server carries a write out, and history notes one that changes what
\* the markup would not have offered to change, and one that a repeated press
\* adds a second time.
Carried(v, to, more) ==
    /\ Moved(to, Entity.frames, TRUE)
    /\ verdict' = verdict \union more
          \union (IF (to # row \/ v \in Entity.adds) /\ row \notin screen.offers[v]
                  THEN Judged(v, "hidden") ELSE {})
          \union (IF v \in Entity.adds /\ press.verb = v /\ press.landed > 0
                  THEN Judged(v, "twice") ELSE {})

\* Mutant of Accept: the server judges the row the press was made on.
AcceptAsSeen ==
    /\ press.phase = "sent"
    /\ \E to \in Entity.states :
          /\ <<press.from.state, to>> \in Entity.moves[press.verb]
          /\ Carried(press.verb, to, {})
          /\ press' = [press EXCEPT !.phase = "accepted", !.answer = Copy(to),
                                    !.from = Aged(@, TRUE), !.landed = @ + 1]
    /\ UNCHANGED <<screen, late, stream, missed, left>>

Accept ==
    /\ press.phase = "sent"
    /\ \E to \in Entity.states :
          /\ <<row, to>> \in Entity.moves[press.verb]
          /\ Carried(press.verb, to, {})
          /\ press' = [press EXCEPT !.phase = "accepted", !.answer = Copy(to),
                                    !.from = Aged(@, TRUE), !.landed = @ + 1]
    /\ UNCHANGED <<screen, late, stream, missed, left>>

Refused(v) == ~\E to \in Entity.states : <<row, to>> \in Entity.moves[v]

Refuse ==
    /\ press.phase = "sent" /\ Refused(press.verb)
    /\ press' = [press EXCEPT !.phase = "refused"]
    /\ verdict' = IF press.from.state = row /\ press.landed = 0
                  THEN verdict \union Judged(press.verb, "refused") ELSE verdict
    /\ UNCHANGED <<screen, row, shown, fetch, stray, late, stream, due, missed, left>>

\* The client's timeout, after the server has seen the write, before, or
\* with the request lost.
GiveUp ==
    /\ press.phase \in {"sent", "accepted"}
    /\ left.faults > 0 /\ late = "none"
    /\ left' = [left EXCEPT !.faults = @ - 1]
    /\ late' \in IF press.phase = "sent" THEN {press.verb, "none"} ELSE {"none"}
    /\ press' = [press EXCEPT !.phase = "refused"]
    /\ UNCHANGED <<screen, row, shown, fetch, stray, stream, due, missed, verdict>>

LateAccept ==
    /\ late # "none"
    /\ \E to \in Entity.states :
          /\ <<row, to>> \in Entity.moves[late]
          /\ Carried(late, to, Judged(late, "late"))
    /\ late' = "none"
    /\ press' = [press EXCEPT !.landed = IF press.verb = late THEN @ + 1 ELSE @,
                              !.from = Aged(@, TRUE), !.answer = Aged(@, TRUE)]
    /\ UNCHANGED <<screen, stream, missed, left>>

LateRefuse ==
    /\ late # "none" /\ Refused(late)
    /\ late' = "none"
    /\ UNCHANGED <<screen, row, shown, fetch, stray, press, stream, due, missed, verdict, left>>

\* Mutant of RollsBack: only a write that reads again on an error.
RollsBackTold(w) == w.optimistic /\ w.onError

\* onError puts back the data that onMutate saved.
RollsBack(w) == w.optimistic /\ w.restores

\* The answer arrives: onSuccess or onError. A refused write that was shown
\* at once is put back, over a newer read if one has landed; the store reads
\* again for it, with the old row to fall back on.
Settle ==
    /\ press.phase \in {"accepted", "refused"}
    /\ LET w    == screen.writes[press.verb]
           good == press.phase = "accepted"
           own  == Covers(w.tells, screen.key) /\ (good \/ w.onError)
           undo == ~good /\ RollsBack(w)
           \* a read answered before the write has landed, or will, after it
           over == \/ fetch.phase = "answered"
                   \/ w.optimistic /\ shown.state # press.answer.state
       IN  /\ shown' = CASE good /\ w.sets                -> press.answer
                         [] good /\ w.optimistic /\ ~Store /\ ~over ->
                                [shown EXCEPT !.own = press.answer.own]
                         [] undo /\ ~Store                -> press.from
                         [] OTHER -> shown
           /\ press' = IF good THEN NoWrite
                       ELSE [press EXCEPT !.phase = "idle", !.from = Nothing,
                                          !.answer = Nothing]
           /\ verdict' = IF good /\ (w.sets \/ w.optimistic) /\ ~own /\ over
                         THEN verdict \union Judged(press.verb, "crossed") ELSE verdict
           /\ IF undo /\ Store
              THEN /\ fetch' = [Reading("asked", Nothing) EXCEPT !.orElse = press.from]
                   /\ stray' = IF fetch.phase \in InFlight THEN fetch ELSE stray
                   /\ missed' = missed
              ELSE IF own THEN Invalidate
              ELSE /\ missed' = (missed \/ (undo /\ press.from.behind /\ ~shown.behind))
                   /\ UNCHANGED <<fetch, stray>>
    /\ UNCHANGED <<screen, row, late, stream, due, left>>

--------------------------------------------------------------------------------
(* Everybody else, and the event stream.                                   *)

OthersMove ==
    /\ left.moves > 0
    /\ left' = [left EXCEPT !.moves = @ - 1]
    /\ \E m \in Entity.others :
          /\ m.from = row
          /\ Moved(m.to, m.frames, FALSE)
          /\ LET followed == \E f \in m.frames : Wakes(f)
             IN  /\ missed' = (missed \/ ~followed)
                 /\ verdict' = IF followed THEN verdict
                               ELSE verdict \union {[kind |-> "unfollowed", verb |-> "none",
                                                    at |-> m.to]}
          /\ press' = [press EXCEPT !.from = Aged(@, FALSE), !.answer = Aged(@, FALSE)]
    /\ UNCHANGED <<screen, late, stream>>

\* Mutant of Opened: the state is one the tab does not know.
OpenedMisnamed ==
    /\ stream \in {"opening", "fatal"}
    /\ stream' = "open"
    /\ due' = {}
    /\ missed' = (missed \/ due # {})
    /\ UNCHANGED <<screen, row, shown, fetch, stray, press, late, verdict, left>>

\* "off": no stream in this run. "opening": an EventSource that has had no
\* event id yet, which the server starts at its newest event. "live" and
\* "retrying" have one, and a retry replays what came after it. "fatal": the
\* browser gave up, and a new EventSource is built after a backoff.
Opened ==
    /\ stream \in {"opening", "fatal"}
    /\ stream' = "fresh"
    /\ due' = {}
    /\ missed' = (missed \/ due # {})
    /\ UNCHANGED <<screen, row, shown, fetch, stray, press, late, verdict, left>>

Connected == {"fresh", "live"}

\* Mutant of Deliver: nothing is heard before the first event id.
DeliverOnceLive(frame) ==
    /\ stream = "live" /\ frame \in due
    /\ due' = due \ {frame}
    /\ stream' = "live"
    /\ IF Wakes(frame) THEN Invalidate ELSE UNCHANGED <<fetch, stray, missed>>
    /\ UNCHANGED <<screen, row, shown, press, late, verdict, left>>

Deliver(frame) ==
    /\ stream \in Connected /\ frame \in due
    /\ due' = due \ {frame}
    /\ stream' = "live"
    /\ IF Wakes(frame) THEN Invalidate ELSE UNCHANGED <<fetch, stray, missed>>
    /\ UNCHANGED <<screen, row, shown, press, late, verdict, left>>

\* A transport error is retried by the browser, an HTTP error is not.
Cut ==
    /\ stream \in Connected /\ left.faults > 0
    /\ left' = [left EXCEPT !.faults = @ - 1]
    /\ stream' \in {IF stream = "live" THEN "retrying" ELSE "opening", "fatal"}
    /\ UNCHANGED <<screen, row, shown, fetch, stray, press, late, due, missed, verdict>>

\* The replay: what came after the last event id, or stream.resync in front
\* of what is left when that id is older than the oldest event kept.
Resumed ==
    /\ stream = "retrying" /\ stream' = "live"
    /\ due' \in {due, {Resync}}
    /\ UNCHANGED <<screen, row, shown, fetch, stray, press, late, missed, verdict, left>>

--------------------------------------------------------------------------------
Init ==
    /\ screen \in Components
    /\ row \in Entity.start
    /\ shown = Nothing
    /\ fetch = Reading("asked", Nothing) /\ stray = Reading("idle", Nothing)
    /\ press = NoWrite /\ late = "none"
    /\ left \in Budgets
    /\ stream = left.stream
    /\ due = {} /\ missed = FALSE /\ verdict = {}

Reads  == Ask \/ AnswerRead \/ LandRead \/ LandStray \/ FailRead
Writes == (\E v \in Verbs : Press(v)) \/ Accept \/ Refuse \/ GiveUp
          \/ LateAccept \/ LateRefuse \/ Settle
Stream == Opened \/ (\E t \in due : Deliver(t)) \/ Cut \/ Resumed

Next == Reads \/ Writes \/ OthersMove \/ Stream

\* The server answers what it is asked, the browser hands on what it has and
\* reconnects; nobody has to press, and no fault has to happen.
Fairness ==
    /\ WF_vars(AnswerRead) /\ WF_vars(LandRead) /\ WF_vars(LandStray)
    /\ WF_vars(Accept) /\ WF_vars(Refuse) /\ WF_vars(Settle)
    /\ WF_vars(LateAccept) /\ WF_vars(LateRefuse)
    /\ WF_vars(Opened) /\ WF_vars(Resumed)
    /\ WF_vars(\E t \in due : Deliver(t))

Spec == Init /\ [][Next]_vars /\ Fairness

--------------------------------------------------------------------------------
(* What is claimed.                                                        *)

\* Shape of the state.
TypeOK ==
    /\ screen \in Components /\ row \in Entity.states
    /\ shown.state \in Entity.states \union {"nothing"}
    /\ fetch.phase \in {"idle", "asked", "answered", "failed"}
    /\ press.verb \in Verbs \union {"none"}
    /\ press.phase \in {"idle", "sent", "accepted", "refused"}
    /\ late \in Verbs \union {"none"}
    /\ stream \in {"off", "opening", "fresh", "live", "retrying", "fatal"}
    /\ due \subseteq FramesOf(screen) \union {Resync}
    /\ left.moves \in Nat /\ left.presses \in Nat /\ left.faults \in Nat

AtRest ==
    /\ press.phase = "idle" /\ late = "none" /\ due = {}
    /\ fetch.phase = "idle" /\ stray.phase = "idle"

\* A write that was accepted is on screen once its answer and the reads it
\* asked for are in: the keys a component's onSuccess names cover what the
\* component shows. Two ways around it are known: an answer given up on, and
\* a write put on screen without a read, over which an older read then lands.
OwnWriteShown ==
    AtRest /\ shown.own /\ ~Store =>
        \/ press.verb # "none"
        \/ \E j \in verdict : j.kind \in {"late", "crossed"}

\* What is offered on an up-to-date row is accepted: the markup's conditions
\* are no wider than the database's guards.
OfferedIsAccepted ==
    \A j \in verdict : j.kind = "refused" => <<screen.name, j.verb, j.at>> \in OverOffered

\* A write pressed on an out-of-date row is refused, or does only what the
\* up-to-date row would have offered: the guards are no wider than the markup.
StaleWriteIsOffered ==
    \A j \in verdict : j.kind = "hidden" => <<screen.name, j.verb, j.at>> \in UnderOffered

\* What somebody else does to a row of these screens is made known by a frame
\* of theirs: the topics the database publishes and the keys that the portals'
\* maps name fit together.
ChangesAreFollowed ==
    screen.name \in Followed => ~\E j \in verdict : j.kind = "unfollowed"

\* A repeated press is carried out once, except where the server has no way
\* to tell a second press from a second wish.
RepeatedOnce ==
    \A j \in verdict : j.kind = "twice" => <<screen.name, j.verb>> \in Unkeyed

\* What the server refused, or never saw, does not stay on screen: with nothing
\* else going on, what is shown is the row, or an older copy of it.
RefusedLeavesScreen ==
    AtRest => shown.behind \/ shown.own \/ shown.state \in {row, "nothing"}

\* Nothing a frame was published for stays out of date on a screen whose map
\* follows it, unless the frame itself was lost; the store, which asks for
\* nothing after its own writes, is corrected by the frame too.
AtRestAgrees ==
    AtRest /\ stream = "live" /\ ~missed => ~shown.behind /\ (Store => ~shown.own)

\* A followed change reaches the screen.
CatchesUp ==
    stream # "off" /\ shown.behind ~> (~shown.behind \/ missed \/ fetch.phase = "failed")
=============================================================================
