---------------------------- MODULE Portal_proofs -----------------------------
(***************************************************************************)
(* A screen, for every catalogue whose components are wired, told and      *)
(* fitted as the assumptions of Portal say, and for every budget. Three    *)
(* inductive invariants:                                                   *)
(*                                                                         *)
(*   - Inv: what a frame was published for is on its way to the screen;    *)
(*   - Shows: what is on screen is so, or is being corrected;              *)
(*   - Fitting: the row may have followed whatever a copy of it shows.     *)
(***************************************************************************)
EXTENDS Portal, TLAPS

CopiesOf(s) == [state : Life[s.of].states \union {"nothing"}, behind : BOOLEAN, own : BOOLEAN]
Phases == {"idle", "asked", "answered", "failed"}
ReadsOf(s) == [phase : Phases, copy : CopiesOf(s), orElse : CopiesOf(s)]
PressesOf(s) ==
    [verb : DOMAIN s.writes \union {"none"}, phase : {"idle", "sent", "accepted", "refused"},
     from : CopiesOf(s), answer : CopiesOf(s), landed : Nat]

\* The state's shape; the frames due are of this component's row.
Shapes ==
    /\ screen \in Components /\ row \in Entity.states /\ missed \in BOOLEAN
    /\ shown \in CopiesOf(screen)
    /\ fetch \in ReadsOf(screen) /\ stray \in ReadsOf(screen)
    /\ press \in PressesOf(screen) /\ (press.phase # "idle" => press.verb \in Verbs)
    /\ late \in Verbs \union {"none"}
    /\ due \subseteq FramesOf(screen) \union {Resync}
    /\ stream \in {"off", "opening", "fresh", "live", "retrying", "fatal"}
    /\ left \in [stream : {"off", "opening"}, moves : Nat, presses : Nat, faults : Nat]

\* Out of date through something a frame was published for.
Stale(c) == c.behind \/ (Store /\ c.own)
Coming == \E f \in due : Wakes(f)

\* A screen that is out of date has its correction on the way, and a read that
\* was answered too early is followed by a frame. Where no frame follows others'
\* moves nothing falls behind unmissed.
Awaited ==
    Stale(shown) =>
        \/ Coming
        \/ fetch.phase \in {"asked", "failed"}
        \/ fetch.phase = "answered" /\ ~Stale(fetch.copy)
Overtaken == fetch.phase = "answered" /\ Stale(fetch.copy) => Coming
NoneBehind ==
    /\ ~shown.behind /\ ~fetch.copy.behind /\ ~fetch.orElse.behind
    /\ ~stray.copy.behind /\ ~stray.orElse.behind
    /\ ~press.from.behind /\ ~press.answer.behind
Tracked == Awaited /\ Overtaken /\ (~Followable(screen) => NoneBehind)

Inv == Shapes /\ (stream # "off" /\ ~missed => Tracked)

--------------------------------------------------------------------------------
(* Copies and reads.                                                       *)

LEMMA FreshCopies ==
    ASSUME NEW s
    PROVE  /\ Nothing \in CopiesOf(s) /\ ~Nothing.behind /\ ~Nothing.own
           /\ \A x \in Life[s.of].states :
                 Copy(x) \in CopiesOf(s) /\ ~Copy(x).behind /\ ~Copy(x).own
BY DEF CopiesOf, Nothing, Copy

LEMMA AgedCopies ==
    ASSUME NEW s, NEW c \in CopiesOf(s), NEW mine \in BOOLEAN
    PROVE  /\ Aged(c, mine) \in CopiesOf(s)
           /\ Aged(c, mine).behind => c.behind \/ ~mine
           /\ Aged(c, mine).own => c.own \/ mine
BY DEF CopiesOf, Aged

LEMMA NewReads ==
    ASSUME NEW s, NEW phase \in Phases
    PROVE  /\ Reading(phase, Nothing) \in ReadsOf(s) /\ Reading(phase, Nothing).phase = phase
           /\ Reading(phase, Nothing).copy = Nothing /\ Reading(phase, Nothing).orElse = Nothing
BY FreshCopies DEF ReadsOf, Reading

LEMMA AgedReads ==
    ASSUME NEW s, NEW r \in ReadsOf(s), NEW mine \in BOOLEAN
    PROVE  LET aged == [r EXCEPT !.copy = Aged(@, mine), !.orElse = Aged(@, mine)]
           IN  /\ aged \in ReadsOf(s) /\ aged.phase = r.phase
               /\ aged.copy = Aged(r.copy, mine) /\ aged.orElse = Aged(r.orElse, mine)
<1>1. Aged(r.copy, mine) \in CopiesOf(s) /\ Aged(r.orElse, mine) \in CopiesOf(s)
  BY AgedCopies DEF ReadsOf
<1> QED BY <1>1 DEF ReadsOf

\* An invalidation leaves a read that will be up to date, or is missed.
LEMMA InvalidateReads ==
    ASSUME Shapes, Invalidate
    PROVE  /\ fetch' \in ReadsOf(screen) /\ stray' \in ReadsOf(screen) /\ missed' \in BOOLEAN
           /\ ~missed' =>
                 /\ ~missed
                 /\ \/ fetch'.phase = "asked"
                    \/ fetch'.phase = "answered" /\ ~Stale(fetch'.copy)
           /\ fetch' \in {fetch, Reading("asked", Nothing)} /\ stray' \in {fetch, stray}
<1>1. /\ Reading("asked", Nothing) \in ReadsOf(screen)
      /\ Reading("asked", Nothing).phase = "asked"
  BY NewReads DEF Phases
<1> QED BY <1>1 DEF Shapes, Invalidate, Joined, InFlight, Stale

--------------------------------------------------------------------------------
(* One lemma for the reads, the writes and the stream.                         *)

\* The reads: what lands is up to date, or a frame is due for it.
LEMMA ReadsKeep == Inv /\ Reads => Inv'
<1> SUFFICES ASSUME Inv, Reads PROVE Inv'
  OBVIOUS
<1> USE DEF Inv
<1>0. /\ Nothing \in CopiesOf(screen) /\ Copy(row) \in CopiesOf(screen)
      /\ ~Nothing.behind /\ ~Nothing.own /\ ~Copy(row).behind /\ ~Copy(row).own
  BY FreshCopies DEF Shapes, Entity
<1>1. \A phase \in Phases :
         /\ Reading(phase, Nothing) \in ReadsOf(screen) /\ Reading(phase, Nothing).phase = phase
         /\ Reading(phase, Nothing).copy = Nothing /\ Reading(phase, Nothing).orElse = Nothing
  BY NewReads
<1>2. CASE Ask
  <2>1. Shapes'
    BY <1>1, <1>2 DEF Ask, Shapes, Phases, Entity, Verbs
  <2>2. Tracked => Tracked'
    BY <1>0, <1>1, <1>2
       DEF Ask, Tracked, Awaited, Overtaken, NoneBehind, Stale, Store, Coming, Wakes, Phases
  <2> QED BY <1>2, <2>1, <2>2 DEF Ask
<1>3. CASE AnswerRead
  <2>1. /\ fetch' \in ReadsOf(screen) /\ fetch'.phase = "answered" /\ fetch'.copy = Copy(row)
        /\ fetch'.orElse = fetch.orElse
    BY <1>0, <1>3 DEF AnswerRead, Shapes, ReadsOf, Phases
  <2>2. Shapes'
    BY <1>3, <2>1 DEF AnswerRead, Shapes, Entity, Verbs
  <2>3. Tracked => Tracked'
    BY <1>0, <1>3, <2>1
       DEF AnswerRead, Tracked, Awaited, Overtaken, NoneBehind, Stale, Store, Coming, Wakes
  <2> QED BY <1>3, <2>2, <2>3 DEF AnswerRead
<1>4. CASE LandRead
  <2>1. Shapes'
    BY <1>1, <1>4 DEF LandRead, Shapes, ReadsOf, Phases, Entity, Verbs
  <2>2. Tracked => Tracked'
    BY <1>0, <1>1, <1>4
       DEF LandRead, Tracked, Awaited, Overtaken, NoneBehind, Stale, Store, Coming, Wakes, Phases
  <2> QED BY <1>4, <2>1, <2>2 DEF LandRead
<1>5. CASE LandStray
  <2> DEFINE copy == IF stray.phase = "asked" THEN Copy(row) ELSE stray.copy
  <2>1. /\ stray' = Reading("idle", Nothing) /\ shown' = copy
        /\ missed' = (missed \/ (fetch.phase = "idle" /\ (copy.behind \/ copy.own)))
        /\ UNCHANGED <<screen, row, fetch, press, late, stream, due, verdict, left>>
    BY <1>5 DEF LandStray
  <2>2. copy \in CopiesOf(screen) /\ (copy.behind => stray.copy.behind)
    BY <1>0 DEF Shapes, ReadsOf
  <2>3. copy.behind \in BOOLEAN /\ copy.own \in BOOLEAN
    BY <2>2 DEF CopiesOf
  <2> HIDE DEF copy
  <2>4. Shapes'
    BY <1>1, <2>1, <2>2, <2>3 DEF Shapes, ReadsOf, Phases, Entity, Verbs
  <2>5. Tracked /\ ~missed' => Tracked'
    <3>1. fetch.phase \in Phases
      BY DEF Shapes, ReadsOf
    <3> QED
      BY <1>0, <1>1, <2>1, <2>2, <3>1
         DEF Tracked, Awaited, Overtaken, NoneBehind, Stale, Store, Coming, Wakes, Phases
  <2> QED BY <2>1, <2>4, <2>5
<1>6. CASE FailRead
  <2>1. Shapes'
    BY <1>1, <1>6 DEF FailRead, Shapes, ReadsOf, Phases, Entity, Verbs
  <2>2. Tracked => Tracked'
    BY <1>0, <1>1, <1>6
       DEF FailRead, Tracked, Awaited, Overtaken, NoneBehind, Stale, Store, Coming, Wakes, Phases
  <2> QED BY <1>6, <2>1, <2>2 DEF FailRead
<1> QED BY <1>2, <1>3, <1>4, <1>5, <1>6 DEF Reads

\* The stream: a frame that wakes the screen has it read again, and what is
\* replayed wakes whatever what it replaces would have.
LEMMA StreamKeeps == Inv /\ Stream => Inv'
<1> SUFFICES ASSUME Inv, Stream PROVE Inv'
  OBVIOUS
<1> USE DEF Inv
<1>1. CASE Opened
  <2>1. Shapes'
    BY <1>1 DEF Opened, Shapes, Entity, Verbs
  <2>2. Tracked /\ ~missed' => Tracked'
    BY <1>1 DEF Opened, Tracked, Awaited, Overtaken, NoneBehind, Stale, Store, Coming, Wakes
  <2> QED BY <1>1, <2>1, <2>2 DEF Opened
<1>2. ASSUME NEW f \in due, Deliver(f)
      PROVE  Inv'
  <2>1. /\ due' = due \ {f} /\ stream # "off"
        /\ UNCHANGED <<screen, row, shown, press, late, left>> /\ stream' = "live"
    BY <1>2 DEF Deliver, Connected
  <2>2. CASE Wakes(f)
    <3>1. Invalidate
      BY <1>2, <2>2 DEF Deliver
    <3>2. Shapes'
      BY <2>1, <3>1, InvalidateReads DEF Shapes, Entity, Verbs
    <3>3. Tracked /\ ~missed' => Tracked'
      <4>1. /\ Reading("asked", Nothing).copy = Nothing /\ Reading("asked", Nothing).orElse = Nothing
            /\ ~Nothing.behind
        BY NewReads, FreshCopies DEF Phases
      <4>2. NoneBehind => NoneBehind'
        BY <2>1, <3>1, <4>1, InvalidateReads DEF NoneBehind
      <4> QED
        BY <2>1, <3>1, <4>2, InvalidateReads DEF Tracked, Awaited, Overtaken, Stale, Store
    <3> QED BY <2>1, <3>1, <3>2, <3>3, InvalidateReads
  <2>3. CASE ~Wakes(f)
    <3>1. UNCHANGED <<fetch, stray, missed>>
      BY <1>2, <2>3 DEF Deliver
    <3>2. Shapes'
      BY <2>1, <3>1 DEF Shapes, Entity, Verbs
    <3>3. Coming => Coming'
      BY <2>1, <2>3 DEF Coming, Wakes
    <3>4. Tracked => Tracked'
      BY <2>1, <3>1, <3>3 DEF Tracked, Awaited, Overtaken, NoneBehind, Stale, Store
    <3> QED BY <2>1, <3>1, <3>2, <3>4
  <2> QED BY <2>2, <2>3
<1>3. CASE Cut
  <2>1. stream # "off"
    BY <1>3 DEF Cut, Connected
  <2>2. Shapes'
    BY <1>3 DEF Cut, Shapes, Entity, Verbs
  <2>3. Tracked => Tracked'
    BY <1>3 DEF Cut, Tracked, Awaited, Overtaken, NoneBehind, Stale, Store, Coming, Wakes
  <2> QED BY <1>3, <2>1, <2>2, <2>3 DEF Cut
<1>4. CASE Resumed
  <2>1. /\ stream = "retrying" /\ stream' = "live" /\ due' \in {due, {Resync}}
        /\ UNCHANGED <<screen, row, shown, fetch, stray, press, late, missed, verdict, left>>
    BY <1>4 DEF Resumed
  <2>2. Shapes'
    BY <2>1 DEF Shapes, Entity, Verbs
  <2>3. Coming => Coming'
    <3>1. \A f \in FramesOf(screen) : WakesOn(screen, f) => WakesOn(screen, Resync)
      BY WiringAssumption DEF Shapes, Wired
    <3>2. Coming => WakesOn(screen, Resync)
      BY <3>1 DEF Coming, Wakes, Shapes
    <3> QED BY <2>1, <3>2 DEF Coming, Wakes
  <2>4. Tracked => Tracked'
    BY <2>1, <2>3 DEF Tracked, Awaited, Overtaken, NoneBehind, Stale, Store
  <2> QED BY <2>1, <2>2, <2>4
<1> QED BY <1>1, <1>2, <1>3, <1>4 DEF Stream

\* What a move of the row does to the copies, and to the frames due.
LEMMA MovedCopies ==
    ASSUME Shapes, NEW to \in Entity.states, NEW frames, frames \subseteq FramesOf(screen),
           NEW mine \in BOOLEAN, Moved(to, frames, mine), UNCHANGED screen
    PROVE  /\ row' \in Entity.states
           /\ shown' \in CopiesOf(screen) /\ fetch' \in ReadsOf(screen) /\ stray' \in ReadsOf(screen)
           /\ fetch'.phase = fetch.phase /\ stray'.phase = stray.phase
           /\ shown'.behind => shown.behind \/ ~mine
           /\ shown'.own => shown.own \/ mine
           /\ fetch'.copy.behind => fetch.copy.behind \/ ~mine
           /\ fetch'.copy.own => fetch.copy.own \/ mine
           /\ fetch'.orElse.behind => fetch.orElse.behind \/ ~mine
           /\ stray'.copy.behind => stray.copy.behind \/ ~mine
           /\ stray'.orElse.behind => stray.orElse.behind \/ ~mine
           /\ due \subseteq due' /\ due' \subseteq FramesOf(screen) \union {Resync}
           /\ stream # "off" => {f \in frames : screen.portal \in f.to} \subseteq due'
<1>1. /\ shown \in CopiesOf(screen) /\ fetch \in ReadsOf(screen) /\ stray \in ReadsOf(screen)
      /\ fetch.copy \in CopiesOf(screen) /\ fetch.orElse \in CopiesOf(screen)
      /\ stray.copy \in CopiesOf(screen) /\ stray.orElse \in CopiesOf(screen)
  BY DEF Shapes, ReadsOf
<1>2. /\ fetch' \in ReadsOf(screen) /\ fetch'.phase = fetch.phase
      /\ fetch'.copy = Aged(fetch.copy, mine) /\ fetch'.orElse = Aged(fetch.orElse, mine)
  BY <1>1, AgedReads DEF Moved
<1>3. /\ stray' \in ReadsOf(screen) /\ stray'.phase = stray.phase
      /\ stray'.copy = Aged(stray.copy, mine) /\ stray'.orElse = Aged(stray.orElse, mine)
  BY <1>1, AgedReads DEF Moved
<1>4. due \subseteq due' /\ due' \subseteq FramesOf(screen) \union {Resync}
      /\ (stream # "off" => {f \in frames : screen.portal \in f.to} \subseteq due')
  BY DEF Moved, Shapes
<1>5. row' = to /\ shown' = Aged(shown, mine)
  BY DEF Moved
<1> QED BY <1>1, <1>2, <1>3, <1>4, <1>5, AgedCopies

\* Somebody else moves the row: a frame is due, or the move is missed.
LEMMA OthersKeep == Inv /\ OthersMove => Inv'
<1> SUFFICES ASSUME Inv, OthersMove PROVE Inv'
  OBVIOUS
<1> USE DEF Inv
<1>1. PICK m \in Entity.others :
         /\ Moved(m.to, m.frames, FALSE)
         /\ missed' = (missed \/ ~\E f \in m.frames : Wakes(f))
         /\ press' = [press EXCEPT !.from = Aged(@, FALSE), !.answer = Aged(@, FALSE)]
         /\ UNCHANGED <<screen, late, stream>>
  BY DEF OthersMove
<1>2. m.to \in Entity.states /\ m.frames \subseteq FramesOf(screen)
  BY CatalogAssumption DEF Shapes, WellTold, FramesOf, Entity
<1>3. /\ shown' \in CopiesOf(screen) /\ fetch' \in ReadsOf(screen) /\ stray' \in ReadsOf(screen)
      /\ fetch'.phase = fetch.phase
      /\ shown'.own => shown.own
      /\ due \subseteq due' /\ due' \subseteq FramesOf(screen) \union {Resync}
      /\ stream # "off" => {f \in m.frames : screen.portal \in f.to} \subseteq due'
      /\ row' \in Entity.states
  BY <1>1, <1>2, MovedCopies
<1>4. Shapes'
  <2>1. press' \in PressesOf(screen) /\ press'.phase = press.phase /\ press'.verb = press.verb
    <3>1. press.from \in CopiesOf(screen) /\ press.answer \in CopiesOf(screen)
      BY DEF Shapes, PressesOf
    <3>2. Aged(press.from, FALSE) \in CopiesOf(screen) /\ Aged(press.answer, FALSE) \in CopiesOf(screen)
      BY <3>1, AgedCopies
    <3> QED BY <1>1, <3>2 DEF Shapes, PressesOf
  <2>2. left' \in [stream : {"off", "opening"}, moves : Nat, presses : Nat, faults : Nat]
    BY DEF OthersMove, Shapes
  <2>3. missed' \in BOOLEAN
    BY <1>1
  <2> QED BY <1>1, <1>3, <2>1, <2>2, <2>3 DEF Shapes, Entity, Verbs
<1>5. stream' # "off" /\ ~missed' => Tracked'
  <2> SUFFICES ASSUME stream # "off", ~missed' PROVE Tracked'
    BY <1>1
  <2>1. PICK f \in m.frames : Wakes(f)
    BY <1>1
  <2>2. Coming'
    BY <1>1, <1>3, <2>1 DEF Coming, Wakes, WakesOn
  <2>3. Followable(screen')
    BY <1>1, <2>1 DEF Followable, Wakes, Entity
  <2> QED BY <2>2, <2>3 DEF Tracked, Awaited, Overtaken
<1> QED BY <1>4, <1>5

\* The server carries out a write of this person's: in front of the store a
\* frame is due for it, elsewhere nothing is out of date that was not.
LEMMA CarriedKeeps ==
    ASSUME Inv, NEW v \in Verbs, NEW to \in Entity.states, NEW more, Carried(v, to, more),
           UNCHANGED <<screen, stream, missed, left>>,
           press' \in PressesOf(screen), press'.phase # "idle" => press'.verb \in Verbs,
           press'.from.behind => press.from.behind, press'.answer.behind => press.answer.behind,
           late' \in Verbs \union {"none"}
    PROVE  Inv'
<1> USE DEF Inv
<1>1. Moved(to, Entity.frames, TRUE) /\ Entity.frames \subseteq FramesOf(screen)
  BY DEF Carried, FramesOf, Entity
<1>2. /\ row' \in Entity.states
      /\ shown' \in CopiesOf(screen) /\ fetch' \in ReadsOf(screen) /\ stray' \in ReadsOf(screen)
      /\ fetch'.phase = fetch.phase
      /\ shown'.behind => shown.behind
      /\ fetch'.copy.behind => fetch.copy.behind
      /\ fetch'.orElse.behind => fetch.orElse.behind
      /\ stray'.copy.behind => stray.copy.behind
      /\ stray'.orElse.behind => stray.orElse.behind
      /\ due \subseteq due' /\ due' \subseteq FramesOf(screen) \union {Resync}
      /\ stream # "off" => {f \in Entity.frames : screen.portal \in f.to} \subseteq due'
  BY <1>1, MovedCopies
<1>3. Shapes'
  BY <1>2 DEF Shapes, Entity, Verbs
<1>4. Coming => Coming'
  BY <1>2 DEF Coming, Wakes
<1>5. Store /\ stream # "off" => Coming'
  <2> SUFFICES ASSUME Store, stream # "off" PROVE Coming'
    OBVIOUS
  <2>1. PICK f \in Life[screen.of].frames : WakesOn(screen, f)
    BY WiringAssumption DEF Shapes, Wired, Store, Verbs
  <2> QED BY <1>2, <2>1 DEF Coming, Wakes, WakesOn, Entity
<1>6. stream # "off" /\ Tracked => Tracked'
  <2>1. NoneBehind => NoneBehind'
    BY <1>2 DEF NoneBehind
  <2>2. CASE ~Store
    BY <1>2, <1>4, <2>1, <2>2 DEF Tracked, Awaited, Overtaken, Stale, Store
  <2>3. stream # "off" /\ Store => Awaited' /\ Overtaken'
    BY <1>5 DEF Awaited, Overtaken
  <2> QED BY <2>1, <2>2, <2>3 DEF Tracked
<1> QED BY <1>3, <1>6

\* The person's writes: an answer that is put on screen although it has been
\* overtaken is read again, or there was nothing to overtake it.
LEMMA WritesKeep == Inv /\ Writes => Inv'
<1> SUFFICES ASSUME Inv, Writes PROVE Inv'
  OBVIOUS
<1> USE DEF Inv
<1>0. /\ Nothing \in CopiesOf(screen) /\ ~Nothing.behind /\ ~Nothing.own
      /\ press.from \in CopiesOf(screen) /\ press.answer \in CopiesOf(screen)
      /\ \A c \in CopiesOf(screen), mine \in BOOLEAN :
            /\ Aged(c, mine) \in CopiesOf(screen)
            /\ Aged(c, mine).behind => c.behind \/ ~mine
      /\ \A x \in Entity.states : Copy(x) \in CopiesOf(screen) /\ ~Copy(x).behind
  BY FreshCopies, AgedCopies DEF Shapes, PressesOf, Entity
<1>1. ASSUME NEW v \in Verbs, Press(v)
      PROVE  Inv'
  <2>1. /\ press' \in PressesOf(screen) /\ press'.verb = v
        /\ press'.from = shown /\ press'.answer = Nothing
    BY <1>0, <1>1 DEF Press, Shapes, PressesOf, Verbs
  <2>2. shown' \in CopiesOf(screen) /\ shown'.behind = shown.behind /\ shown'.own = shown.own
    <3>1. CASE UNCHANGED shown
      BY <3>1 DEF Shapes
    <3>2. CASE \E m \in Entity.moves[v] : shown' = [shown EXCEPT !.state = m[2]]
      <4>1. PICK m \in Entity.moves[v] : shown' = [shown EXCEPT !.state = m[2]]
        BY <3>2
      <4>2. m[2] \in Life[screen.of].states
        BY CatalogAssumption DEF Shapes, WellTold, Entity, Verbs
      <4> QED BY <4>1, <4>2 DEF Shapes, CopiesOf
    <3> QED BY <1>1, <3>1, <3>2 DEF Press
  <2>3. /\ Reading("idle", Nothing) \in ReadsOf(screen)
        /\ Reading("idle", Nothing).copy = Nothing /\ Reading("idle", Nothing).orElse = Nothing
    BY NewReads DEF Phases
  <2>4. /\ fetch' \in {fetch, Reading("idle", Nothing)}
        /\ missed' \in BOOLEAN /\ (~missed' => ~missed /\ fetch' = fetch)
    BY <1>1 DEF Press, Shapes
  <2>5. left' \in [stream : {"off", "opening"}, moves : Nat, presses : Nat, faults : Nat]
    BY <1>1 DEF Press, Shapes
  <2>6. UNCHANGED <<screen, row, stray, late, stream, due>>
    BY <1>1 DEF Press
  <2>7. Shapes'
    BY <2>1, <2>2, <2>3, <2>4, <2>5, <2>6 DEF Shapes, Entity, Verbs
  <2>8. Tracked /\ ~missed' => Tracked'
    BY <1>0, <2>1, <2>2, <2>4, <2>6
       DEF Tracked, Awaited, Overtaken, NoneBehind, Stale, Store, Coming, Wakes
  <2> QED BY <2>4, <2>6, <2>7, <2>8
<1>2. CASE Accept
  <2>1. PICK to \in Entity.states :
           /\ Carried(press.verb, to, {})
           /\ press' = [press EXCEPT !.phase = "accepted", !.answer = Copy(to),
                                     !.from = Aged(@, TRUE), !.landed = @ + 1]
    BY <1>2 DEF Accept
  <2>2. press.verb \in Verbs
    BY <1>2 DEF Accept, Shapes
  <2>3. /\ press' \in PressesOf(screen) /\ press'.verb = press.verb
        /\ press'.from = Aged(press.from, TRUE) /\ press'.answer = Copy(to)
    <3> DEFINE from == Aged(press.from, TRUE)
    <3>1. from \in CopiesOf(screen) /\ Copy(to) \in CopiesOf(screen)
      BY <1>0
    <3>2. press' = [press EXCEPT !.phase = "accepted", !.answer = Copy(to),
                                 !.from = from, !.landed = press.landed + 1]
      BY <2>1
    <3>3. press.landed + 1 \in Nat
      BY DEF Shapes, PressesOf
    <3> HIDE DEF from
    <3>4. /\ press' \in PressesOf(screen) /\ press'.verb = press.verb
          /\ press'.from = from /\ press'.answer = Copy(to)
      BY <3>1, <3>2, <3>3 DEF Shapes, PressesOf
    <3> QED BY <3>4 DEF from
  <2>4. UNCHANGED <<screen, late, stream, missed, left>>
    BY <1>2 DEF Accept
  <2>5. /\ press'.phase # "idle" => press'.verb \in Verbs
        /\ press'.from.behind => press.from.behind
        /\ press'.answer.behind => press.answer.behind
        /\ late' \in Verbs \union {"none"}
    <3>1. late \in Verbs \union {"none"}
      BY DEF Shapes
    <3>2. Aged(press.from, TRUE).behind => press.from.behind
      BY <1>0
    <3>3. ~Copy(to).behind
      BY <1>0
    <3>4. late' \in Verbs \union {"none"}
      BY <2>4, <3>1
    <3> QED BY <2>2, <2>3, <3>2, <3>3, <3>4
  <2> QED BY <2>1, <2>2, <2>3, <2>4, <2>5, CarriedKeeps
<1>3. CASE LateAccept
  <2>1. PICK to \in Entity.states : Carried(late, to, Judged(late, "late"))
    BY <1>3 DEF LateAccept
  <2>2. press' = [press EXCEPT !.landed = IF press.verb = late THEN @ + 1 ELSE @,
                               !.from = Aged(@, TRUE), !.answer = Aged(@, TRUE)]
    BY <1>3 DEF LateAccept
  <2>3. /\ press' \in PressesOf(screen) /\ press'.verb = press.verb /\ press'.phase = press.phase
        /\ press'.from = Aged(press.from, TRUE) /\ press'.answer = Aged(press.answer, TRUE)
    <3> DEFINE from == Aged(press.from, TRUE)
               answer == Aged(press.answer, TRUE)
               landed == IF press.verb = late THEN press.landed + 1 ELSE press.landed
    <3>1. from \in CopiesOf(screen) /\ answer \in CopiesOf(screen)
      BY <1>0
    <3>2. press' = [press EXCEPT !.landed = landed, !.from = from, !.answer = answer]
      BY <2>2
    <3>3. landed \in Nat
      BY DEF Shapes, PressesOf
    <3> HIDE DEF from, answer, landed
    <3>4. /\ press' \in PressesOf(screen) /\ press'.verb = press.verb /\ press'.phase = press.phase
          /\ press'.from = from /\ press'.answer = answer
      <4>1. press \in PressesOf(screen)
        BY DEF Shapes
      <4> QED BY <3>1, <3>2, <3>3, <4>1 DEF PressesOf
    <3> QED BY <3>4 DEF from, answer
  <2>4. late \in Verbs /\ late' = "none" /\ UNCHANGED <<screen, stream, missed, left>>
    BY <1>3 DEF LateAccept, Shapes
  <2>5. /\ press'.phase # "idle" => press'.verb \in Verbs
        /\ press'.from.behind => press.from.behind
        /\ press'.answer.behind => press.answer.behind
        /\ late' \in Verbs \union {"none"}
    BY <1>0, <2>3, <2>4, ZenonT(60) DEF Shapes
  <2> QED BY <2>1, <2>3, <2>4, <2>5, CarriedKeeps
<1>4. CASE Refuse \/ LateRefuse
  <2>1. /\ UNCHANGED <<screen, row, shown, fetch, stray, stream, due, missed, left>>
        /\ late' \in {late, "none"}
    BY <1>4 DEF Refuse, LateRefuse
  <2>2. /\ press' \in PressesOf(screen) /\ (press'.phase # "idle" => press'.verb \in Verbs)
        /\ press'.from = press.from /\ press'.answer = press.answer
    BY <1>4 DEF Refuse, LateRefuse, Shapes, PressesOf
  <2>3. Shapes'
    BY <2>1, <2>2 DEF Shapes, Entity, Verbs
  <2>4. Tracked => Tracked'
    BY <2>1, <2>2
       DEF Tracked, Awaited, Overtaken, NoneBehind, Stale, Store, Coming, Wakes
  <2> QED BY <2>1, <2>3, <2>4
<1>5. CASE GiveUp
  <2>1. UNCHANGED <<screen, row, shown, fetch, stray, stream, due, missed>>
    BY <1>5 DEF GiveUp
  <2>2. /\ press' \in PressesOf(screen) /\ press'.verb = press.verb /\ press.verb \in Verbs
        /\ press'.from = press.from /\ press'.answer = press.answer
    BY <1>5 DEF GiveUp, Shapes, PressesOf
  <2>3. late' \in {press.verb, "none"}
    BY <1>5 DEF GiveUp
  <2>4. left' \in [stream : {"off", "opening"}, moves : Nat, presses : Nat, faults : Nat]
    BY <1>5 DEF GiveUp, Shapes
  <2>5. Shapes'
    BY <2>1, <2>2, <2>3, <2>4 DEF Shapes, Entity, Verbs
  <2>6. Tracked => Tracked'
    BY <2>1, <2>2
       DEF Tracked, Awaited, Overtaken, NoneBehind, Stale, Store, Coming, Wakes
  <2> QED BY <2>1, <2>5, <2>6
<1>6. CASE Settle
  <2> DEFINE w == screen.writes[press.verb]
             good == press.phase = "accepted"
             own == Covers(w.tells, screen.key) /\ (good \/ w.onError)
             undo == ~good /\ RollsBack(w)
  <2>1. press.phase \in {"accepted", "refused"} /\ press.verb \in Verbs
    BY <1>6 DEF Settle, Shapes
  <2>2. \/ shown' = shown
        \/ shown' = [shown EXCEPT !.own = press.answer.own] /\ ~Store
        \/ shown' = press.answer /\ good /\ w.sets
        \/ shown' = press.from /\ undo /\ ~Store
    BY <1>6, SMTT(60) DEF Settle
  <2>3. press' = NoWrite \/ press' = [press EXCEPT !.phase = "idle", !.from = Nothing,
                                                  !.answer = Nothing]
    BY <1>6, ZenonT(60) DEF Settle
  <2>4. \/ /\ undo /\ Store /\ missed' = missed
           /\ fetch' = [Reading("asked", Nothing) EXCEPT !.orElse = press.from]
           /\ stray' \in {fetch, stray}
        \/ own /\ Invalidate /\ ~(undo /\ Store)
        \/ /\ ~own /\ ~(undo /\ Store) /\ UNCHANGED <<fetch, stray>>
           /\ missed' = (missed \/ (undo /\ press.from.behind /\ ~shown.behind))
    BY <1>6 DEF Settle
  <2>5. UNCHANGED <<screen, row, late, stream, due, left>>
    BY <1>6 DEF Settle
  <2>6. Store => ~w.sets
    BY <2>1, WiringAssumption DEF Shapes, Wired, Store, Verbs
  <2>7. w.sets /\ good /\ ~own => ~Followable(screen)
    BY <2>1, WiringAssumption DEF Shapes, Wired, Verbs
  <2> HIDE DEF w, good, own, undo
  <2>8. /\ press' \in PressesOf(screen) /\ press'.phase = "idle"
        /\ press'.from = Nothing /\ press'.answer = Nothing
    <3>1. CASE press' = NoWrite
      BY <1>0, <3>1 DEF PressesOf, NoWrite
    <3>2. CASE press' = [press EXCEPT !.phase = "idle", !.from = Nothing, !.answer = Nothing]
      BY <1>0, <3>2 DEF Shapes, PressesOf
    <3> QED BY <2>3, <3>1, <3>2
  <2>9. /\ shown' \in CopiesOf(screen)
        /\ \/ shown'.behind = shown.behind /\ (Store => shown'.own = shown.own)
           \/ shown' = press.answer /\ good /\ w.sets
           \/ shown' = press.from /\ undo /\ ~Store
    <3>1. {shown, press.from, press.answer} \subseteq CopiesOf(screen)
      BY DEF Shapes, PressesOf
    <3>2. /\ [shown EXCEPT !.own = press.answer.own] \in CopiesOf(screen)
          /\ [shown EXCEPT !.own = press.answer.own].behind = shown.behind
      BY <3>1 DEF CopiesOf
    <3> QED BY <2>2, <3>1, <3>2
  <2>10. CASE own /\ Invalidate
    <3>1. Shapes'
      BY <2>5, <2>8, <2>9, <2>10, InvalidateReads DEF Shapes, Entity, Verbs
    <3>2. /\ Reading("asked", Nothing).copy = Nothing /\ Reading("asked", Nothing).orElse = Nothing
          /\ ~Nothing.behind
      BY NewReads, FreshCopies DEF Phases
    <3>3. NoneBehind => NoneBehind'
      BY <2>8, <2>9, <2>10, <3>2, InvalidateReads DEF NoneBehind
    <3>4. ~missed' => /\ ~missed
                      /\ \/ fetch'.phase = "asked"
                         \/ fetch'.phase = "answered" /\ ~Stale(fetch'.copy)
      BY <2>10, InvalidateReads
    <3>5. Tracked /\ ~missed' => Tracked'
      BY <2>5, <3>3, <3>4 DEF Tracked, Awaited, Overtaken, Stale, Store
    <3> QED BY <2>5, <3>1, <3>4, <3>5
  <2>11. CASE /\ undo /\ Store /\ missed' = missed
              /\ fetch' = [Reading("asked", Nothing) EXCEPT !.orElse = press.from]
              /\ stray' \in {fetch, stray}
    <3>1. fetch' = [phase |-> "asked", copy |-> Nothing, orElse |-> press.from]
      BY <2>11 DEF Reading
    <3>2. fetch' \in ReadsOf(screen) /\ fetch'.phase = "asked" /\ fetch'.copy = Nothing
          /\ fetch'.orElse = press.from
      BY <1>0, <3>1 DEF ReadsOf, Phases
    <3>3. Shapes'
      BY <2>5, <2>8, <2>9, <2>11, <3>2 DEF Shapes, Entity, Verbs
    <3>4. NoneBehind => NoneBehind'
      BY <1>0, <2>8, <2>9, <2>11, <3>2 DEF NoneBehind
    <3>5. Tracked => Tracked'
      BY <2>5, <3>2, <3>4 DEF Tracked, Awaited, Overtaken
    <3> QED BY <2>5, <2>11, <3>3, <3>5
  <2>12. CASE /\ ~own /\ ~(undo /\ Store) /\ UNCHANGED <<fetch, stray>>
              /\ missed' = (missed \/ (undo /\ press.from.behind /\ ~shown.behind))
    <3>1. press.from.behind \in BOOLEAN /\ shown.behind \in BOOLEAN
      BY <1>0 DEF Shapes, CopiesOf
    <3>2. Shapes'
      BY <2>5, <2>8, <2>9, <2>12, <3>1 DEF Shapes, Entity, Verbs
    <3>3. NoneBehind => NoneBehind'
      BY <1>0, <2>8, <2>9, <2>12 DEF NoneBehind
    <3>4. Coming => Coming'
      BY <2>5 DEF Coming, Wakes
    <3>5. Overtaken => Overtaken'
      BY <2>5, <2>12, <3>4 DEF Overtaken, Stale, Store
    <3>6. Tracked /\ ~missed' => (Stale(shown)' => Stale(shown))
      <4>1. CASE shown'.behind = shown.behind /\ (Store => shown'.own = shown.own)
        BY <2>5, <4>1 DEF Stale, Store
      <4>2. CASE shown' = press.answer /\ good /\ w.sets
        BY <2>5, <2>6, <2>7, <2>12, <4>2 DEF Tracked, NoneBehind, Stale, Store
      <4>3. CASE shown' = press.from /\ undo /\ ~Store
        BY <2>5, <2>12, <4>3 DEF Stale, Store
      <4> QED BY <2>9, <4>1, <4>2, <4>3
    <3>7. Tracked /\ ~missed' => Tracked'
      BY <2>5, <2>12, <3>3, <3>4, <3>5, <3>6 DEF Tracked, Awaited, Stale, Store
    <3> QED BY <2>5, <2>12, <3>2, <3>7
  <2> QED BY <2>4, <2>10, <2>11, <2>12
<1> QED BY <1>1, <1>2, <1>3, <1>4, <1>5, <1>6 DEF Writes

--------------------------------------------------------------------------------
(* The theorems.                                                               *)

\* The screen starts empty, with its first read asked for.
LEMMA Begins == Init => Inv
<1> SUFFICES ASSUME Init PROVE Inv
  OBVIOUS
<1>1. /\ Nothing \in CopiesOf(screen) /\ ~Nothing.behind /\ ~Nothing.own
      /\ \A phase \in Phases :
            /\ Reading(phase, Nothing) \in ReadsOf(screen)
            /\ Reading(phase, Nothing).copy = Nothing /\ Reading(phase, Nothing).orElse = Nothing
  BY FreshCopies, NewReads
<1>2. row \in Entity.states
  BY CatalogAssumption DEF Init, WellTold, Entity
<1>3. NoWrite \in PressesOf(screen) /\ NoWrite.phase = "idle"
      /\ NoWrite.from = Nothing /\ NoWrite.answer = Nothing
  BY <1>1 DEF NoWrite, PressesOf
<1>4. Shapes
  BY <1>1, <1>2, <1>3, PortalAssumption DEF Init, Shapes, Phases
<1>5. Tracked
  BY <1>1, <1>3 DEF Init, Tracked, Awaited, Overtaken, NoneBehind, Stale, Phases
<1> QED BY <1>4, <1>5 DEF Inv

LEMMA Always == Spec => []Inv
<1>1. Inv /\ UNCHANGED vars => Inv'
  BY DEF Inv, Shapes, Tracked, Awaited, Overtaken, NoneBehind, Stale, Store, Coming, Wakes,
         Entity, Verbs, vars
<1>2. Inv /\ [Next]_vars => Inv'
  BY <1>1, ReadsKeep, WritesKeep, OthersKeep, StreamKeeps DEF Next
<1> QED BY <1>2, Begins, PTL DEF Spec

\* The state keeps its shape, for every catalogue of components.
THEOREM PortalTypes == Spec => []TypeOK
<1>1. Inv => TypeOK
  <2> SUFFICES ASSUME Shapes PROVE TypeOK
    BY DEF Inv
  <2>1. shown.state \in Entity.states \union {"nothing"}
    BY DEF Shapes, CopiesOf, Entity
  <2>2. fetch.phase \in {"idle", "asked", "answered", "failed"}
    BY DEF Shapes, ReadsOf, Phases
  <2>3. /\ press.verb \in Verbs \union {"none"}
        /\ press.phase \in {"idle", "sent", "accepted", "refused"}
    BY DEF Shapes, PressesOf, Verbs
  <2>4. left.moves \in Nat /\ left.presses \in Nat /\ left.faults \in Nat
    BY DEF Shapes
  <2> QED BY <2>1, <2>2, <2>3, <2>4 DEF Shapes, TypeOK
<1> QED BY <1>1, Always, PTL

\* Nothing a frame was published for stays out of date on a screen at rest:
\* every interleaving of reads, writes, replays and reconnections keeps a read
\* or a frame on its way to what is out of date (queryClient.invalidateQueries,
\* event_stream's replay and stream.resync, the store's second snapshot).
THEOREM ScreensCatchUp == Spec => []AtRestAgrees
<1>1. Inv => AtRestAgrees
  BY DEF Inv, Tracked, Awaited, Coming, AtRest, AtRestAgrees, Stale
<1> QED BY <1>1, Always, PTL

--------------------------------------------------------------------------------
(* What is shown of the person's own writes, and after an error.               *)

\* A copy that is not marked shows the row.
Honest(c, x) == c.behind \/ c.own \/ c.state \in {x, "nothing"}

\* What is pressed was shown, and only the store has a read besides the newest.
Held ==
    /\ press.phase # "idle" => shown # Nothing
    /\ press.phase = "accepted" => press.answer # Nothing
    /\ fetch.phase = "answered" => fetch.copy # Nothing
    /\ stray.phase = "answered" => stray.copy # Nothing
    /\ ~Store => stray.phase = "idle" /\ fetch.orElse = Nothing

\* A screen shows what is not so only while a write it has shown at once is
\* unanswered, or while the store reads for it; and what an accepted write's
\* answer says is what a screen that is up to date shows.
Truthful ==
    /\ Honest(fetch.copy, row) /\ Honest(stray.copy, row)
    /\ ~Store => Honest(press.from, row)
    /\ press.phase = "accepted" => Honest(press.answer, row)
    /\ ~Honest(shown, row) =>
          \/ press.phase \in {"sent", "refused"} /\ screen.writes[press.verb].optimistic
          \/ Store /\ fetch.phase # "idle"
    /\ ~Store /\ press.phase = "accepted" /\ ~press.answer.own =>
          \A c \in {shown, fetch.copy} :
              c.behind \/ c.state \in {row, "nothing"} \/ press.answer.state = row

\* The two known ways around OwnWriteShown.
Excused == \E j \in verdict : j.kind \in {"late", "crossed"}

\* Once a write is answered, what it left out of date is being read again, and
\* not by a read that was answered before it.
Corrected ==
    ~Store /\ ~Excused =>
        /\ ~press.answer.own
        /\ press.verb = "none" =>
              /\ fetch.phase = "answered" => ~fetch.copy.own
              /\ shown.own => fetch.phase # "idle"

Shows == Held /\ Truthful /\ Corrected

\* A copy that is there when its row moves is marked.
LEMMA AgedMarks ==
    ASSUME NEW s, NEW c \in CopiesOf(s), NEW mine \in BOOLEAN
    PROVE  /\ Aged(c, mine) \in CopiesOf(s) /\ Aged(c, mine).state = c.state
           /\ c = Nothing => Aged(c, mine) = Nothing
           /\ c # Nothing => /\ Aged(c, mine) # Nothing
                             /\ mine  => Aged(c, mine).own
                             /\ ~mine => Aged(c, mine).behind
           /\ ~mine => (Aged(c, mine).own <=> c.own)
           /\ ~mine => Aged(c, mine).behind \/ Aged(c, mine).state = "nothing"
           /\ \A x : Honest(Aged(c, mine), x)
<1> DEFINE a == Aged(c, mine)
<1>1. CASE c = Nothing
  <2>1. a = c
    BY <1>1 DEF Aged
  <2>2. (\A x : Honest(c, x)) /\ c.state = "nothing"
    BY <1>1 DEF Nothing, Honest
  <2> HIDE DEF a
  <2>3. /\ a \in CopiesOf(s) /\ a.state = c.state /\ a = Nothing
        /\ (a.own <=> c.own) /\ a.state = "nothing" /\ \A x : Honest(a, x)
    BY <1>1, <2>1, <2>2
  <2> QED BY <1>1, <2>3 DEF a
<1>2. CASE c # Nothing /\ mine
  <2>1. a = [state |-> c.state, behind |-> c.behind, own |-> TRUE]
    BY <1>2 DEF CopiesOf, Aged
  <2> HIDE DEF a
  <2>2. a.own /\ ~Nothing.own
    BY <2>1 DEF Nothing
  <2>3. /\ a \in CopiesOf(s) /\ a.state = c.state /\ a # Nothing /\ a.own
        /\ \A x : Honest(a, x)
    BY <1>2, <2>1, <2>2 DEF CopiesOf, Honest
  <2> QED BY <1>2, <2>3 DEF a
<1>3. CASE c # Nothing /\ ~mine
  <2>1. a = [state |-> c.state, behind |-> TRUE, own |-> c.own]
    BY <1>3 DEF CopiesOf, Aged
  <2> HIDE DEF a
  <2>2. a.behind /\ ~Nothing.behind
    BY <2>1 DEF Nothing
  <2>3. /\ a \in CopiesOf(s) /\ a.state = c.state /\ a # Nothing /\ a.behind
        /\ (a.own <=> c.own) /\ \A x : Honest(a, x)
    BY <1>3, <2>1, <2>2 DEF CopiesOf, Honest
  <2> QED BY <1>3, <2>3 DEF a
<1> QED BY <1>1, <1>2, <1>3

LEMMA CopiesHeld ==
    ASSUME Shapes
    PROVE  /\ {shown, fetch.copy, fetch.orElse, stray.copy, stray.orElse, press.from, press.answer}
                 \subseteq CopiesOf(screen)
           /\ Copy(row) \in CopiesOf(screen) /\ Copy(row) # Nothing
           /\ ~Copy(row).own /\ Honest(Copy(row), row) /\ \A x : Honest(Nothing, x)
           /\ fetch.phase \in Phases /\ stray.phase \in Phases
           /\ screen \in Components /\ "none" \notin Verbs
           /\ press.verb # "none" => press.verb \in Verbs
<1>1. Life[screen.of].states = Entity.states /\ "nothing" \notin Entity.states
      /\ "none" \notin Verbs
  BY CatalogAssumption DEF Shapes, WellTold, Entity, Verbs
<1>2. Copy(row).state = row /\ Nothing.state = "nothing" /\ Copy(row) \in CopiesOf(screen)
  BY <1>1 DEF Copy, Nothing, Shapes, CopiesOf
<1>3. ~Copy(row).own /\ Honest(Copy(row), row) /\ \A x : Honest(Nothing, x)
  BY DEF Copy, Nothing, Honest
<1> QED BY <1>1, <1>2, <1>3 DEF Shapes, ReadsOf, PressesOf, Verbs

LEMMA QuietShows ==
    ASSUME Shows, UNCHANGED <<screen, row, shown, fetch, stray, press, verdict>>
    PROVE  Shows'
BY DEF Shows, Held, Truthful, Corrected, Excused, Store

\* A read brings the row as it was when it was answered, marked if it has moved.
LEMMA ReadsShow == Shapes /\ Shows /\ Reads => Shows'
<1> SUFFICES ASSUME Shapes, Shows, Reads PROVE Shows'
  OBVIOUS
<1> USE CopiesHeld DEF Shows
<1>0. \A phase \in Phases :
         /\ Reading(phase, Nothing).phase = phase
         /\ Reading(phase, Nothing).copy = Nothing /\ Reading(phase, Nothing).orElse = Nothing
  BY NewReads
<1>1. CASE Ask
  <2>1. /\ fetch'.phase = "asked" /\ fetch'.copy = Nothing /\ fetch'.orElse = Nothing
        /\ UNCHANGED <<screen, row, shown, stray, press, verdict>>
    BY <1>0, <1>1 DEF Ask, Phases
  <2> QED BY <2>1 DEF Held, Truthful, Corrected, Excused, Store, Nothing
<1>2. CASE AnswerRead
  <2>1. /\ fetch'.phase = "answered" /\ fetch'.copy = Copy(row) /\ fetch'.orElse = fetch.orElse
        /\ fetch.phase = "asked"
        /\ UNCHANGED <<screen, row, shown, stray, press, verdict>>
    BY <1>2 DEF AnswerRead, Shapes, ReadsOf
  <2>2. Copy(row).state = row
    BY DEF Copy
  <2> QED BY <2>1, <2>2 DEF Held, Truthful, Corrected, Excused, Store
<1>3. CASE LandRead
  <2>1. /\ fetch'.phase = "idle" /\ fetch'.copy = Nothing /\ fetch'.orElse = Nothing
        /\ fetch.phase = "answered" /\ shown' = fetch.copy
        /\ UNCHANGED <<screen, row, stray, press, verdict>>
    BY <1>0, <1>3 DEF LandRead, Phases
  <2> QED BY <2>1 DEF Held, Truthful, Corrected, Excused, Store, Nothing
<1>4. CASE LandStray
  <2> DEFINE copy == IF stray.phase = "asked" THEN Copy(row) ELSE stray.copy
  <2>1. /\ stray'.phase = "idle" /\ stray'.copy = Nothing
        /\ stray.phase \in {"asked", "answered"} /\ shown' = copy
        /\ UNCHANGED <<screen, row, fetch, press, verdict>>
    BY <1>0, <1>4 DEF LandStray, Phases, InFlight
  <2>2. copy # Nothing /\ Honest(copy, row) /\ Store
    BY <2>1 DEF Held, Truthful
  <2>3. copy.behind \/ copy.state \in {row, "nothing"} \/ copy.own
    BY <2>2 DEF Honest
  <2> HIDE DEF copy
  <2> QED BY <2>1, <2>2, <2>3 DEF Held, Truthful, Corrected, Excused, Store, Nothing
<1>5. CASE FailRead
  <2>1. /\ fetch'.phase = "failed" /\ fetch'.copy = Nothing /\ fetch'.orElse = Nothing
        /\ shown' = IF fetch.orElse = Nothing THEN shown ELSE fetch.orElse
        /\ UNCHANGED <<screen, row, stray, press, verdict>>
    BY <1>0, <1>5 DEF FailRead, Phases
  <2> QED BY <2>1 DEF Held, Truthful, Corrected, Excused, Store, Nothing
<1> QED BY <1>1, <1>2, <1>3, <1>4, <1>5 DEF Reads

\* A frame, or a write's answer, that has the screen read again.
LEMMA InvalidateShows ==
    ASSUME Shapes, Shows, Invalidate, UNCHANGED <<screen, row, shown, press, verdict>>
    PROVE  Shows'
<1> USE CopiesHeld DEF Shows
<1>1. /\ Reading("asked", Nothing).phase = "asked" /\ Reading("asked", Nothing).copy = Nothing
      /\ Reading("asked", Nothing).orElse = Nothing
  BY NewReads DEF Phases
<1>2. /\ \/ fetch' = fetch
         \/ fetch'.phase = "asked" /\ fetch'.copy = Nothing /\ fetch'.orElse = Nothing
      /\ stray' \in {fetch, stray} /\ (~Store => stray' = stray)
  BY <1>1 DEF Invalidate, Joined
<1>3. Held'
  BY <1>2 DEF Held, Store
<1>4. Truthful'
  <2>1. Honest(fetch'.copy, row) /\ Honest(stray'.copy, row)
    BY <1>2 DEF Truthful
  <2>2. fetch'.copy = fetch.copy \/ fetch'.copy.state = "nothing"
    BY <1>2 DEF Nothing
  <2>3. fetch.phase # "idle" => fetch'.phase # "idle"
    BY <1>2
  <2> QED BY <2>1, <2>2, <2>3 DEF Truthful, Store
<1>5. Corrected'
  BY <1>2 DEF Corrected, Excused, Store
<1> QED BY <1>3, <1>4, <1>5

LEMMA StreamShows == Shapes /\ Shows /\ Stream => Shows'
<1> SUFFICES ASSUME Shapes, Shows, Stream PROVE Shows'
  OBVIOUS
<1>1. CASE Opened \/ Cut \/ Resumed
  BY <1>1, QuietShows DEF Opened, Cut, Resumed
<1>2. ASSUME NEW f \in due, Deliver(f) PROVE Shows'
  BY <1>2, QuietShows, InvalidateShows DEF Deliver
<1> QED BY <1>1, <1>2 DEF Stream

\* What a move of the row does to the copies of it.
LEMMA MovedMarks ==
    ASSUME Shapes, NEW to, NEW frames, NEW mine \in BOOLEAN, Moved(to, frames, mine)
    PROVE  /\ row' = to /\ shown' = Aged(shown, mine)
           /\ fetch'.phase = fetch.phase /\ stray'.phase = stray.phase
           /\ fetch'.copy = Aged(fetch.copy, mine) /\ fetch'.orElse = Aged(fetch.orElse, mine)
           /\ stray'.copy = Aged(stray.copy, mine) /\ stray'.orElse = Aged(stray.orElse, mine)
<1>1. fetch \in ReadsOf(screen) /\ stray \in ReadsOf(screen)
  BY DEF Shapes
<1>2. /\ fetch' = [fetch EXCEPT !.copy = Aged(@, mine), !.orElse = Aged(@, mine)]
      /\ stray' = [stray EXCEPT !.copy = Aged(@, mine), !.orElse = Aged(@, mine)]
      /\ row' = to /\ shown' = Aged(shown, mine)
  BY DEF Moved
<1> QED BY <1>1, <1>2, AgedReads

\* Somebody else moves the row: every copy of it is marked.
LEMMA OthersShow == Shapes /\ Shows /\ OthersMove => Shows'
<1> SUFFICES ASSUME Shapes, Shows, OthersMove PROVE Shows'
  OBVIOUS
<1> USE CopiesHeld DEF Shows
<1> DEFINE Old(c) == Aged(c, FALSE)
<1>1. PICK m \in Entity.others :
         /\ Moved(m.to, m.frames, FALSE)
         /\ press' = [press EXCEPT !.from = Old(@), !.answer = Old(@)]
         /\ screen' = screen /\ verdict \subseteq verdict'
  BY DEF OthersMove
<1>2. /\ press'.phase = press.phase /\ press'.verb = press.verb
      /\ press'.from = Old(press.from) /\ press'.answer = Old(press.answer)
  BY <1>1 DEF Shapes, PressesOf
<1>3. /\ shown' = Old(shown)
      /\ fetch'.phase = fetch.phase /\ stray'.phase = stray.phase
      /\ fetch'.copy = Old(fetch.copy) /\ fetch'.orElse = Old(fetch.orElse)
      /\ stray'.copy = Old(stray.copy) /\ stray'.orElse = Old(stray.orElse)
  BY <1>1, MovedMarks
<1>4. \A c \in CopiesOf(screen) :
         /\ c = Nothing <=> Old(c) = Nothing
         /\ Old(c).behind \/ Old(c).state = "nothing"
         /\ Old(c).own <=> c.own
         /\ \A x : Honest(Old(c), x)
  BY AgedMarks
<1> HIDE DEF Old
<1>5. Held'
  BY <1>1, <1>2, <1>3, <1>4 DEF Held, Store
<1>6. Truthful'
  BY <1>1, <1>2, <1>3, <1>4 DEF Truthful, Store
<1>7. Excused => Excused'
  BY <1>1 DEF Excused
<1>8. Corrected'
  BY <1>1, <1>2, <1>3, <1>4, <1>7 DEF Corrected, Store
<1> QED BY <1>5, <1>6, <1>8

\* The server carries out a write: every copy is marked, and the answer says
\* what the row is.
LEMMA AcceptShows == Shapes /\ Shows /\ Accept => Shows'
<1> SUFFICES ASSUME Shapes, Shows, Accept PROVE Shows'
  OBVIOUS
<1> USE CopiesHeld DEF Shows
<1>1. PICK to \in Entity.states :
         /\ Moved(to, Entity.frames, TRUE) /\ screen' = screen /\ verdict \subseteq verdict'
         /\ press' = [press EXCEPT !.phase = "accepted", !.answer = Copy(to),
                                   !.from = Aged(@, TRUE), !.landed = @ + 1]
  BY DEF Accept, Carried
<1>2. /\ press'.phase = "accepted" /\ press'.verb = press.verb /\ press.verb # "none"
      /\ press'.from = Aged(press.from, TRUE) /\ press'.answer = Copy(to)
      /\ press.phase = "sent"
  BY <1>1 DEF Accept, Shapes, PressesOf
<1>3. /\ row' = to /\ shown' = Aged(shown, TRUE)
      /\ fetch'.phase = fetch.phase /\ stray'.phase = stray.phase
      /\ fetch'.copy = Aged(fetch.copy, TRUE) /\ fetch'.orElse = Aged(fetch.orElse, TRUE)
      /\ stray'.copy = Aged(stray.copy, TRUE) /\ stray'.orElse = Aged(stray.orElse, TRUE)
  BY <1>1, MovedMarks
<1>4. \A c \in CopiesOf(screen) :
         /\ c = Nothing <=> Aged(c, TRUE) = Nothing
         /\ \A x : Honest(Aged(c, TRUE), x)
  BY AgedMarks
<1>5. Copy(to).state = to /\ ~Copy(to).own /\ Copy(to) # Nothing /\ Honest(Copy(to), to)
  <2>1. "nothing" \notin Entity.states
    BY CatalogAssumption DEF WellTold, Entity, Shapes
  <2> QED BY <2>1 DEF Copy, Nothing, Honest
<1>6. Held'
  BY <1>1, <1>2, <1>3, <1>4, <1>5 DEF Held, Store
<1>7. Truthful'
  BY <1>1, <1>2, <1>3, <1>4, <1>5 DEF Truthful, Store
<1>8. Corrected'
  BY <1>1, <1>2, <1>5 DEF Corrected, Excused, Store
<1> QED BY <1>6, <1>7, <1>8

LEMMA LateShows == Shapes /\ Shows /\ LateAccept => Shows'
<1> SUFFICES ASSUME Shapes, Shows, LateAccept PROVE Shows'
  OBVIOUS
<1> USE CopiesHeld DEF Shows
<1>1. PICK to \in Entity.states :
         /\ Moved(to, Entity.frames, TRUE) /\ screen' = screen
         /\ Judged(late, "late") \subseteq verdict'
         /\ press' = [press EXCEPT !.landed = IF press.verb = late THEN @ + 1 ELSE @,
                                   !.from = Aged(@, TRUE), !.answer = Aged(@, TRUE)]
  BY DEF LateAccept, Carried
<1>2. /\ press'.phase = press.phase /\ press'.verb = press.verb
      /\ press'.from = Aged(press.from, TRUE) /\ press'.answer = Aged(press.answer, TRUE)
  BY <1>1 DEF Shapes, PressesOf
<1>3. /\ row' = to /\ shown' = Aged(shown, TRUE)
      /\ fetch'.phase = fetch.phase /\ stray'.phase = stray.phase
      /\ fetch'.copy = Aged(fetch.copy, TRUE) /\ fetch'.orElse = Aged(fetch.orElse, TRUE)
      /\ stray'.copy = Aged(stray.copy, TRUE) /\ stray'.orElse = Aged(stray.orElse, TRUE)
  BY <1>1, MovedMarks
<1>4. \A c \in CopiesOf(screen) :
         /\ c = Nothing <=> Aged(c, TRUE) = Nothing
         /\ c # Nothing => Aged(c, TRUE).own
         /\ \A x : Honest(Aged(c, TRUE), x)
  BY AgedMarks
<1>5. Excused'
  BY <1>1 DEF Excused, Judged
<1>6. Held'
  BY <1>1, <1>2, <1>3, <1>4 DEF Held, Store
<1>7. press'.phase = "accepted" => press'.answer.own
  BY <1>2, <1>4 DEF Held
<1>8. Truthful'
  BY <1>1, <1>2, <1>3, <1>4, <1>7 DEF Truthful, Store
<1>9. Corrected'
  BY <1>5 DEF Corrected
<1> QED BY <1>6, <1>8, <1>9

\* A press keeps what was shown, to be put back.
LEMMA PressShows ==
    ASSUME Shapes, Shows, NEW v \in Verbs, Press(v)
    PROVE  Shows'
<1> USE CopiesHeld DEF Shows
<1>1. /\ press.phase = "idle" /\ shown.state \in screen.offers[v]
      /\ press' = [verb |-> v, phase |-> "sent", from |-> shown, answer |-> Nothing,
                   landed |-> IF press.verb = v THEN press.landed ELSE 0]
      /\ UNCHANGED <<screen, row, stray, verdict>>
  BY DEF Press, Offered
<1>2. /\ press'.phase = "sent" /\ press'.verb = v /\ press'.from = shown /\ press'.answer = Nothing
      /\ v # "none" /\ ~Nothing.own
  BY <1>1 DEF Nothing
<1>3. /\ shown # Nothing /\ shown' # Nothing
      /\ \/ screen.writes[v].optimistic
         \/ UNCHANGED <<shown, fetch>>
  <2>1. /\ screen.offers[v] \subseteq Entity.states /\ "nothing" \notin Entity.states
        /\ Entity.moves[v] \subseteq Entity.states \X Entity.states
    BY CatalogAssumption DEF Shapes, WellTold, Entity, Verbs
  <2>2. shown # Nothing
    BY <1>1, <2>1 DEF Nothing
  <2>3. CASE UNCHANGED shown /\ (screen.writes[v].optimistic \/ UNCHANGED fetch)
    BY <2>2, <2>3
  <2>4. CASE screen.writes[v].optimistic /\
             \E m \in Entity.moves[v] : shown' = [shown EXCEPT !.state = m[2]]
    <3>1. PICK m \in Entity.moves[v] : shown' = [shown EXCEPT !.state = m[2]]
      BY <2>4
    <3>2. m[2] # "nothing" /\ shown'.state = m[2]
      BY <2>1, <3>1 DEF CopiesOf
    <3> QED BY <2>2, <2>4, <3>2 DEF Nothing
  <2> QED BY <2>2, <2>3, <2>4 DEF Press
<1>4. \/ fetch' = fetch
      \/ /\ ~Store /\ fetch'.phase = "idle" /\ fetch'.copy = Nothing /\ fetch'.orElse = Nothing
  <2>1. /\ Reading("idle", Nothing).phase = "idle" /\ Reading("idle", Nothing).copy = Nothing
        /\ Reading("idle", Nothing).orElse = Nothing
    BY NewReads DEF Phases
  <2> QED BY <2>1 DEF Press
<1>5. Held'
  BY <1>1, <1>2, <1>3, <1>4 DEF Held, Store
<1>6. Honest(fetch'.copy, row) /\ Honest(stray'.copy, row)
  BY <1>1, <1>4 DEF Truthful
<1>7. ~Store => Honest(shown, row)
  BY <1>1 DEF Truthful
<1>8. Truthful'
  BY <1>1, <1>2, <1>3, <1>4, <1>6, <1>7 DEF Truthful, Store
<1>9. Corrected'
  BY <1>1, <1>2 DEF Corrected
<1> QED BY <1>5, <1>8, <1>9

\* A write is refused, or given up on.
LEMMA RefuseShows == Shapes /\ Shows /\ (Refuse \/ GiveUp \/ LateRefuse) => Shows'
<1> SUFFICES ASSUME Shapes, Shows, Refuse \/ GiveUp \/ LateRefuse PROVE Shows'
  OBVIOUS
<1>1. CASE LateRefuse
  BY <1>1, QuietShows DEF LateRefuse
<1>2. CASE Refuse \/ GiveUp
  <2>1. /\ UNCHANGED <<screen, row, shown, fetch, stray>> /\ verdict \subseteq verdict'
        /\ press.phase \in {"sent", "accepted"}
        /\ press' = [press EXCEPT !.phase = "refused"]
    BY <1>2 DEF Refuse, GiveUp
  <2>2. /\ press'.phase = "refused" /\ press'.verb = press.verb /\ press'.from = press.from
        /\ press'.answer = press.answer /\ press.verb # "none"
    BY <2>1, CopiesHeld DEF Shapes, PressesOf
  <2>3. Held' /\ Truthful'
    BY <2>1, <2>2 DEF Shows, Held, Truthful, Store
  <2>4. Corrected'
    BY <2>1, <2>2 DEF Shows, Corrected, Excused, Store
  <2> QED BY <2>3, <2>4 DEF Shows
<1> QED BY <1>1, <1>2

\* An answer: what it says, or what was there before, is put on screen, or the
\* screen is read again.
LEMMA SettleShows == Shapes /\ Shows /\ Settle => Shows'
<1> SUFFICES ASSUME Shapes, Shows, Settle PROVE Shows'
  OBVIOUS
<1> USE CopiesHeld DEF Shows
<1> DEFINE w == screen.writes[press.verb]
           good == press.phase = "accepted"
           own == Covers(w.tells, screen.key) /\ (good \/ w.onError)
           undo == ~good /\ RollsBack(w)
           over == \/ fetch.phase = "answered"
                   \/ w.optimistic /\ shown.state # press.answer.state
           put == [shown EXCEPT !.own = press.answer.own]
<1>1. press.phase \in {"accepted", "refused"} /\ press.verb \in Verbs /\ press.verb # "none"
  BY DEF Settle, Shapes
<1>2. UNCHANGED <<screen, row>>
  BY DEF Settle
<1>3. \/ good /\ w.sets /\ shown' = press.answer
      \/ good /\ w.optimistic /\ ~Store /\ ~over /\ shown' = put
      \/ undo /\ ~Store /\ shown' = press.from
      \/ /\ ~(good /\ w.sets) /\ ~(good /\ w.optimistic /\ ~Store /\ ~over) /\ ~(undo /\ ~Store)
         /\ shown' = shown
  <2> DEFINE set == good /\ w.sets
             kept == good /\ w.optimistic /\ ~Store /\ ~over
             back == undo /\ ~Store
  <2>1. shown' = CASE set  -> press.answer
                   [] kept -> put
                   [] back -> press.from
                   [] OTHER -> shown
    BY DEF Settle
  <2> HIDE DEF set, kept, back, put
  <2>2. \/ set /\ shown' = press.answer
        \/ kept /\ shown' = put
        \/ back /\ shown' = press.from
        \/ ~set /\ ~kept /\ ~back /\ shown' = shown
    BY <2>1
  <2> QED BY <2>2 DEF set, kept, back
<1>4. press' = IF good THEN NoWrite
               ELSE [press EXCEPT !.phase = "idle", !.from = Nothing, !.answer = Nothing]
  BY DEF Settle
<1>5. verdict' = IF good /\ (w.sets \/ w.optimistic) /\ ~own /\ over
                 THEN verdict \union Judged(press.verb, "crossed") ELSE verdict
  BY DEF Settle
<1>6. \/ /\ undo /\ Store
         /\ fetch' = [Reading("asked", Nothing) EXCEPT !.orElse = press.from]
         /\ stray' = IF fetch.phase \in InFlight THEN fetch ELSE stray
      \/ own /\ Invalidate /\ ~(undo /\ Store)
      \/ ~own /\ ~(undo /\ Store) /\ UNCHANGED <<fetch, stray>>
  BY DEF Settle
<1>7. /\ ~Store => Covers(w.tells, screen.key) \/ w.sets \/ w.optimistic
      /\ w.optimistic => w.restores
      /\ w.sets => ~Store
  BY <1>1, WiringAssumption DEF Wired, Store, Verbs
<1>8. undo <=> ~good /\ w.optimistic
  BY <1>7 DEF RollsBack
<1>9. own => (good => Covers(w.tells, screen.key)) /\ (~good => w.onError)
  OBVIOUS
<1>10. good /\ ~own => ~Covers(w.tells, screen.key)
  OBVIOUS
<1>11. /\ put.state = shown.state /\ (put.behind <=> shown.behind)
       /\ (put.own <=> press.answer.own)
  BY DEF CopiesOf
<1> HIDE DEF w, put, undo, own
<1>12. /\ press'.phase = "idle" /\ press'.from = Nothing /\ press'.answer = Nothing
       /\ (good => press'.verb = "none") /\ (~good => press'.verb = press.verb)
  BY <1>4 DEF NoWrite, Shapes, PressesOf
<1>13. /\ \/ fetch' = fetch /\ stray' = stray /\ ~own
          \/ /\ fetch'.phase = "asked" /\ fetch'.copy = Nothing
             /\ Store \/ fetch'.orElse = Nothing
             /\ stray' \in {fetch, stray} /\ (~Store => stray' = stray)
             /\ stray' = fetch => fetch.phase \in InFlight \/ stray = fetch
       /\ own => fetch'.phase = "asked"
       /\ undo /\ Store => fetch'.phase = "asked"
  <2>1. shown # Nothing
    BY <1>1 DEF Held
  <2>2. /\ Reading("asked", Nothing).phase = "asked" /\ Reading("asked", Nothing).copy = Nothing
        /\ Reading("asked", Nothing).orElse = Nothing
    BY NewReads DEF Phases
  <2>3. [Reading("asked", Nothing) EXCEPT !.orElse = press.from].phase = "asked"
        /\ [Reading("asked", Nothing) EXCEPT !.orElse = press.from].copy = Nothing
    BY DEF Reading
  <2>4. CASE undo /\ Store
    BY <1>6, <2>3, <2>4 DEF Invalidate, Joined, InFlight
  <2>5. CASE ~(undo /\ Store)
    BY <1>6, <2>1, <2>2, <2>5 DEF Invalidate, Joined, InFlight
  <2> QED BY <2>4, <2>5
<1>14. Held'
  BY <1>2, <1>12, <1>13 DEF Held, Store, InFlight
<1>15. Truthful'
  <2>1. Honest(fetch'.copy, row) /\ Honest(stray'.copy, row)
    BY <1>13 DEF Truthful
  <2>2. ~Honest(shown', row) => Store /\ fetch'.phase # "idle"
    <3>1. CASE good /\ w.sets /\ shown' = press.answer
      BY <3>1 DEF Truthful
    <3>2. CASE good /\ w.optimistic /\ ~Store /\ ~over /\ shown' = put
      <4>1. shown.state = press.answer.state
        BY <3>2
      <4>2. press.answer.own \/ shown.behind \/ shown.state \in {row, "nothing"}
        BY <3>2, <4>1 DEF Truthful
      <4> QED BY <1>11, <3>2, <4>2 DEF Honest
    <3>3. CASE undo /\ ~Store /\ shown' = press.from
      BY <3>3 DEF Truthful
    <3>4. CASE shown' = shown /\ ~(undo /\ ~Store)
      <4>1. CASE Honest(shown, row)
        BY <3>4, <4>1
      <4>2. CASE Store /\ fetch.phase # "idle"
        BY <1>13, <3>4, <4>2
      <4>3. CASE press.phase = "refused" /\ w.optimistic
        BY <1>8, <1>13, <3>4, <4>3
      <4> QED BY <1>1, <4>1, <4>2, <4>3 DEF Truthful, w
    <3> QED BY <1>3, <3>1, <3>2, <3>3, <3>4
  <2> QED BY <1>2, <1>12, <2>1, <2>2 DEF Truthful, Store
<1>16. Excused => Excused'
  BY <1>5 DEF Excused
<1>17. Corrected'
  <2> SUFFICES ASSUME ~Store, ~Excused', press'.verb = "none"
               PROVE  /\ fetch'.phase = "answered" => ~fetch'.copy.own
                      /\ shown'.own => fetch'.phase # "idle"
    BY <1>2, <1>12 DEF Corrected, Store, Nothing
  <2>1. good /\ ~press.answer.own
    BY <1>1, <1>12, <1>16 DEF Corrected
  <2>2. CASE own
    BY <1>13, <2>2
  <2>3. CASE ~own
    <3>1. w.sets \/ w.optimistic
      BY <1>7, <1>10, <2>1, <2>3 DEF own
    <3>2. ~over
      <4> HIDE DEF over
      <4>1. over => Judged(press.verb, "crossed") \subseteq verdict'
        BY <1>5, <2>1, <2>3, <3>1
      <4>2. Judged(press.verb, "crossed") \subseteq verdict' => Excused'
        BY DEF Judged, Excused
      <4> QED BY <4>1, <4>2
    <3>3. shown' = press.answer \/ shown' = put
      BY <1>3, <1>8, <2>1, <3>1, <3>2
    <3>4. ~shown'.own
      BY <1>11, <2>1, <3>3
    <3>5. fetch'.phase # "answered"
      BY <1>13, <3>2
    <3> QED BY <3>4, <3>5
  <2> QED BY <2>2, <2>3
<1> QED BY <1>14, <1>15, <1>17

LEMMA AlwaysShows == Spec => []Shows
<1>1. Init /\ Shapes => Shows
  <2> SUFFICES ASSUME Init, Shapes PROVE Shows
    OBVIOUS
  <2>1. /\ fetch.phase = "asked" /\ fetch.copy = Nothing /\ fetch.orElse = Nothing
        /\ stray.phase = "idle" /\ stray.copy = Nothing
    BY NewReads DEF Init, Phases
  <2>2. shown = Nothing /\ press.phase = "idle" /\ press.from = Nothing /\ press.answer = Nothing
    BY DEF Init, NoWrite
  <2>3. \A x : Honest(Nothing, x) /\ ~Nothing.own
    BY DEF Nothing, Honest
  <2> QED BY <2>1, <2>2, <2>3 DEF Shows, Held, Truthful, Corrected
<1>2. Shapes /\ Shows /\ [Next]_vars => Shows'
  <2>1. Shapes /\ Shows /\ UNCHANGED vars => Shows'
    BY QuietShows DEF vars
  <2> QED
    BY <2>1, ReadsShow, StreamShows, OthersShow, AcceptShows, LateShows, PressShows, RefuseShows,
       SettleShows DEF Next, Writes
<1>3. Inv => Shapes
  BY DEF Inv
<1> QED BY <1>1, <1>2, <1>3, Always, PTL DEF Spec

--------------------------------------------------------------------------------
(* What is pressed, and what is judged.                                        *)

Copies ==
    {shown, fetch.copy, fetch.orElse, stray.copy, stray.orElse, press.from, press.answer}

\* The row may have followed what any copy of it shows, and what a write was
\* offered on: also where the copy shows what never came about.
Traced ==
    /\ \A c \in Copies : c.state = "nothing" \/ Leads(screen, c.state, row)
    /\ press.phase = "sent" => press.from.state \in screen.offers[press.verb]
    /\ late # "none" => \E x \in screen.offers[late] : Leads(screen, x, row)

Fitting == Traced /\ OfferedIsAccepted /\ StaleWriteIsOffered

LEMMA LeadsOn ==
    ASSUME NEW s
    PROVE  /\ \A x : Leads(s, x, x)
           /\ \A x, y, z : Leads(s, x, y) /\ Leads(s, y, z) => Leads(s, x, z)
           /\ \A m \in Life[s.of].others : Leads(s, m.from, m.to)
           /\ \A v \in DOMAIN s.writes : \A m \in Life[s.of].moves[v] :
                 /\ Leads(s, m[1], m[2])
                 /\ s.writes[v].optimistic => Leads(s, m[2], m[1])
BY DEF Leads, Closed

\* The copies stay, or are of the row as it is.
LEMMA StaysTraced ==
    ASSUME Fitting, UNCHANGED <<screen, row, verdict, press>>, late' \in {late, "none"},
           {shown', fetch'.copy, fetch'.orElse, stray'.copy, stray'.orElse}
               \subseteq Copies \union {Nothing, Copy(row)}
    PROVE  Fitting'
<1>1. Nothing.state = "nothing" /\ Copy(row).state = row /\ Leads(screen, row, row)
  BY LeadsOn DEF Nothing, Copy
<1>2. \A c \in Copies' : c \in Copies \union {Nothing, Copy(row)}
  BY DEF Copies
<1>3. \A c \in Copies' : c.state = "nothing" \/ Leads(screen, c.state, row)
  BY <1>1, <1>2 DEF Fitting, Traced
<1>4. OfferedIsAccepted' /\ StaleWriteIsOffered'
  BY DEF Fitting, OfferedIsAccepted, StaleWriteIsOffered
<1> QED BY <1>3, <1>4 DEF Fitting, Traced

LEMMA ReadsFit == Shapes /\ Fitting /\ Reads => Fitting'
<1> SUFFICES ASSUME Shapes, Fitting, Reads PROVE Fitting'
  OBVIOUS
<1>0. \A phase \in Phases :
         Reading(phase, Nothing).copy = Nothing /\ Reading(phase, Nothing).orElse = Nothing
  BY NewReads
<1>1. CASE Ask
  <2>1. /\ fetch'.copy = Nothing /\ fetch'.orElse = Nothing
        /\ UNCHANGED <<screen, row, shown, stray, press, late, verdict>>
    BY <1>0, <1>1 DEF Ask, Phases
  <2> QED BY <2>1, StaysTraced DEF Copies
<1>2. CASE AnswerRead
  <2>1. /\ fetch'.copy = Copy(row) /\ fetch'.orElse = fetch.orElse
        /\ UNCHANGED <<screen, row, shown, stray, press, late, verdict>>
    BY <1>2 DEF AnswerRead, Shapes, ReadsOf
  <2> QED BY <2>1, StaysTraced DEF Copies
<1>3. CASE LandRead
  <2>1. /\ fetch'.copy = Nothing /\ fetch'.orElse = Nothing /\ shown' = fetch.copy
        /\ UNCHANGED <<screen, row, stray, press, late, verdict>>
    BY <1>0, <1>3 DEF LandRead, Phases
  <2> QED BY <2>1, StaysTraced DEF Copies
<1>4. CASE LandStray
  <2>1. /\ stray'.copy = Nothing /\ stray'.orElse = Nothing /\ shown' \in {Copy(row), stray.copy}
        /\ UNCHANGED <<screen, row, fetch, press, late, verdict>>
    BY <1>0, <1>4 DEF LandStray, Phases
  <2> QED BY <2>1, StaysTraced DEF Copies
<1>5. CASE FailRead
  <2>1. /\ fetch'.copy = Nothing /\ fetch'.orElse = Nothing /\ shown' \in {shown, fetch.orElse}
        /\ UNCHANGED <<screen, row, stray, press, late, verdict>>
    BY <1>0, <1>5 DEF FailRead, Phases
  <2> QED BY <2>1, StaysTraced DEF Copies
<1> QED BY <1>1, <1>2, <1>3, <1>4, <1>5 DEF Reads

LEMMA StreamFits == Shapes /\ Fitting /\ Stream => Fitting'
<1> SUFFICES ASSUME Shapes, Fitting, Stream PROVE Fitting'
  OBVIOUS
<1>1. CASE Opened \/ Cut \/ Resumed
  <2>1. UNCHANGED <<screen, row, shown, fetch, stray, press, late, verdict>>
    BY <1>1 DEF Opened, Cut, Resumed
  <2> QED BY <2>1, StaysTraced DEF Copies
<1>2. ASSUME NEW f \in due, Deliver(f) PROVE Fitting'
  <2>1. /\ UNCHANGED <<screen, row, shown, press, late, verdict>>
        /\ fetch' \in {fetch, Reading("asked", Nothing)} /\ stray' \in {fetch, stray}
    BY <1>2 DEF Deliver, Invalidate
  <2>2. Reading("asked", Nothing).copy = Nothing /\ Reading("asked", Nothing).orElse = Nothing
    BY NewReads DEF Phases
  <2> QED BY <2>1, <2>2, StaysTraced DEF Copies
<1> QED BY <1>1, <1>2 DEF Stream

\* The row moves, and every copy of it says what it said.
LEMMA MovedTraces ==
    ASSUME Shapes, \A c \in Copies : c.state = "nothing" \/ Leads(screen, c.state, row),
           NEW to, NEW frames, NEW mine \in BOOLEAN, Moved(to, frames, mine),
           Leads(screen, row, to), UNCHANGED screen,
           press'.from = Aged(press.from, mine),
           press'.answer \in {Aged(press.answer, mine), Copy(to)}
    PROVE  \A c \in Copies' : c.state = "nothing" \/ Leads(screen, c.state, row')
<1>1. /\ row' = to /\ shown' = Aged(shown, mine)
      /\ fetch'.copy = Aged(fetch.copy, mine) /\ fetch'.orElse = Aged(fetch.orElse, mine)
      /\ stray'.copy = Aged(stray.copy, mine) /\ stray'.orElse = Aged(stray.orElse, mine)
  BY MovedMarks
<1>2. \A c \in Copies : Aged(c, mine).state = c.state
  BY AgedMarks, CopiesHeld DEF Copies
<1>3. Copy(to).state = to /\ Leads(screen, to, to)
  BY LeadsOn DEF Copy
<1>4. \A c \in Copies' : c = Copy(to) \/ \E d \in Copies : c = Aged(d, mine)
  BY <1>1 DEF Copies
<1>5. ASSUME NEW c \in Copies, c.state # "nothing"
      PROVE  Leads(screen, c.state, to)
  BY <1>5, LeadsOn
<1> QED BY <1>1, <1>2, <1>3, <1>4, <1>5

LEMMA OthersFit == Shapes /\ Fitting /\ OthersMove => Fitting'
<1> SUFFICES ASSUME Shapes, Fitting, OthersMove PROVE Fitting'
  OBVIOUS
<1> USE DEF Fitting
<1>1. PICK m \in Entity.others :
         /\ m.from = row /\ Moved(m.to, m.frames, FALSE)
         /\ press' = [press EXCEPT !.from = Aged(@, FALSE), !.answer = Aged(@, FALSE)]
         /\ UNCHANGED <<screen, late>>
         /\ verdict' = IF \E f \in m.frames : Wakes(f) THEN verdict
                       ELSE verdict \union {[kind |-> "unfollowed", verb |-> "none", at |-> m.to]}
  BY DEF OthersMove
<1>2. /\ press'.phase = press.phase /\ press'.verb = press.verb
      /\ press'.from = Aged(press.from, FALSE) /\ press'.answer = Aged(press.answer, FALSE)
      /\ press'.from.state = press.from.state
  <2>1. Aged(press.from, FALSE).state = press.from.state
    BY AgedMarks, CopiesHeld
  <2> QED BY <1>1, <2>1 DEF Shapes, PressesOf
<1>3. Leads(screen, row, m.to) /\ row' = m.to
  BY <1>1, LeadsOn DEF Entity, Moved
<1>4. \A c \in Copies' : c.state = "nothing" \/ Leads(screen, c.state, row')
  BY <1>1, <1>2, <1>3, MovedTraces DEF Traced
<1>5. Traced'
  <2>1. late # "none" => \E x \in screen.offers[late] : Leads(screen, x, row')
    BY <1>3, LeadsOn DEF Traced
  <2> QED BY <1>1, <1>2, <1>4, <2>1 DEF Traced
<1>6. \A j \in verdict' : j.kind \in {"refused", "hidden"} => j \in verdict
  BY <1>1
<1>7. OfferedIsAccepted' /\ StaleWriteIsOffered'
  BY <1>1, <1>6 DEF OfferedIsAccepted, StaleWriteIsOffered
<1> QED BY <1>5, <1>7

\* A write that is carried out was offered on a state the row may have followed.
LEMMA CarriedFits ==
    ASSUME Shapes, Fitting, NEW v \in Verbs, NEW to, NEW more, Carried(v, to, more),
           <<row, to>> \in Entity.moves[v],
           \A j \in more : j.kind = "late", UNCHANGED screen,
           NEW x \in screen.offers[v], Leads(screen, x, row)
    PROVE  OfferedIsAccepted' /\ StaleWriteIsOffered'
<1>1. verdict' = verdict \union more
         \union (IF (to # row \/ v \in Entity.adds) /\ row \notin screen.offers[v]
                 THEN Judged(v, "hidden") ELSE {})
         \union (IF v \in Entity.adds /\ press.verb = v /\ press.landed > 0
                 THEN Judged(v, "twice") ELSE {})
  BY DEF Carried
<1>2. \A kind : \A j \in Judged(v, kind) : j.kind = kind /\ j.verb = v /\ j.at = row
  BY DEF Judged
<1>3. \A j \in verdict' :
         \/ j \in verdict
         \/ j.kind \in {"late", "twice"}
         \/ /\ j.kind = "hidden" /\ j.verb = v /\ j.at = row
            /\ to # row \/ v \in Entity.adds
            /\ row \notin screen.offers[v]
  BY <1>1, <1>2
<1>4. (to # row \/ v \in Entity.adds) /\ row \notin screen.offers[v]
         => <<screen.name, v, row>> \in UnderOffered
  <2> SUFFICES ASSUME to # row \/ v \in Entity.adds, row \notin screen.offers[v]
               PROVE  <<screen.name, v, row>> \in UnderOffered
    OBVIOUS
  <2> DEFINE m == <<row, to>>
  <2>1. m \in Life[screen.of].moves[v] /\ m[1] = row /\ m[2] = to
    BY DEF Entity
  <2> HIDE DEF m
  <2>2. \/ m[1] \in screen.offers[v] \/ <<screen.name, v, m[1]>> \in UnderOffered
        \/ m[1] = m[2] /\ v \notin Life[screen.of].adds
        \/ ~\E y \in screen.offers[v] : Leads(screen, y, m[1])
    BY <2>1, FitAssumption, CopiesHeld DEF Fits, Verbs
  <2> QED BY <2>1, <2>2 DEF Entity
<1> QED BY <1>3, <1>4 DEF Fitting, OfferedIsAccepted, StaleWriteIsOffered

\* An answer puts on screen what it says, or what was shown before.
LEMMA SettleFits == Shapes /\ Fitting /\ Settle => Fitting'
<1> SUFFICES ASSUME Shapes, Fitting, Settle PROVE Fitting'
  OBVIOUS
<1> USE CopiesHeld DEF Fitting
<1> DEFINE put == [shown EXCEPT !.own = press.answer.own]
<1>1. UNCHANGED <<screen, row, late>>
  BY DEF Settle
<1>2. shown' \in {press.answer, put, press.from, shown}
  BY SMTT(60) DEF Settle
<1>3. press' \in {NoWrite, [press EXCEPT !.phase = "idle", !.from = Nothing, !.answer = Nothing]}
  BY DEF Settle
<1>4. verdict' \subseteq verdict \union Judged(press.verb, "crossed")
  BY DEF Settle
<1>5. /\ \/ fetch' = fetch \/ fetch' = Reading("asked", Nothing)
         \/ fetch' = [Reading("asked", Nothing) EXCEPT !.orElse = press.from]
      /\ stray' \in {fetch, stray}
  BY DEF Settle, Invalidate
<1>6. put.state = shown.state
  BY DEF CopiesOf
<1> HIDE DEF put
<1>7. press'.phase = "idle" /\ press'.from = Nothing /\ press'.answer = Nothing
  <2>1. CASE press' = NoWrite
    BY <2>1 DEF NoWrite
  <2>2. CASE press' = [press EXCEPT !.phase = "idle", !.from = Nothing, !.answer = Nothing]
    <3>1. press \in PressesOf(screen)
      BY DEF Shapes
    <3> QED BY <2>2, <3>1 DEF PressesOf
  <2> QED BY <1>3, <2>1, <2>2
<1>8. /\ fetch'.copy \in {fetch.copy, Nothing}
      /\ fetch'.orElse \in {fetch.orElse, Nothing, press.from}
  BY <1>5 DEF Reading
<1>9. \A c \in Copies' : c \in Copies \union {Nothing, put}
  BY <1>2, <1>5, <1>7, <1>8 DEF Copies
<1>10. \A c \in Copies' : c.state = "nothing" \/ Leads(screen, c.state, row)
  <2>1. Nothing.state = "nothing"
    BY DEF Nothing
  <2>2. shown.state = "nothing" \/ Leads(screen, shown.state, row)
    BY DEF Traced, Copies
  <2> QED BY <1>6, <1>9, <2>1, <2>2 DEF Traced
<1>11. \A j \in verdict' : j \in verdict \/ j.kind = "crossed"
  BY <1>4 DEF Judged
<1>12. OfferedIsAccepted' /\ StaleWriteIsOffered'
  BY <1>1, <1>11 DEF OfferedIsAccepted, StaleWriteIsOffered
<1> QED BY <1>1, <1>7, <1>10, <1>12 DEF Traced

LEMMA WritesFit == Shapes /\ Shows /\ Fitting /\ Writes => Fitting'
<1> SUFFICES ASSUME Shapes, Shows, Fitting, Writes PROVE Fitting'
  OBVIOUS
<1> USE CopiesHeld DEF Fitting
<1>0. \A v \in Verbs : /\ screen.offers[v] \subseteq Entity.states
                       /\ Entity.moves[v] \subseteq Entity.states \X Entity.states
  BY CatalogAssumption DEF Shapes, WellTold, Entity, Verbs
<1>1. ASSUME NEW v \in Verbs, Press(v)
      PROVE  Fitting'
  <2>1. /\ shown.state \in screen.offers[v] /\ UNCHANGED <<screen, row, stray, late, verdict>>
        /\ press' = [verb |-> v, phase |-> "sent", from |-> shown, answer |-> Nothing,
                     landed |-> IF press.verb = v THEN press.landed ELSE 0]
    BY <1>1 DEF Press, Offered
  <2>2. /\ press'.verb = v /\ press'.from = shown /\ press'.answer = Nothing
        /\ Nothing.state = "nothing"
    BY <2>1 DEF Nothing
  <2>3. fetch'.copy \in {fetch.copy, Nothing} /\ fetch'.orElse \in {fetch.orElse, Nothing}
    <3>1. Reading("idle", Nothing).copy = Nothing /\ Reading("idle", Nothing).orElse = Nothing
      BY NewReads DEF Phases
    <3> QED BY <1>1, <3>1 DEF Press
  <2>4. shown'.state = "nothing" \/ Leads(screen, shown'.state, row)
    <3>1. CASE UNCHANGED shown
      BY <3>1 DEF Traced, Copies
    <3>2. CASE screen.writes[v].optimistic /\
               \E m \in Entity.moves[v] : m[1] = shown.state /\ shown' = [shown EXCEPT !.state = m[2]]
      <4>1. PICK m \in Entity.moves[v] : m[1] = shown.state /\ shown' = [shown EXCEPT !.state = m[2]]
        BY <3>2
      <4>2. shown'.state = m[2] /\ m[1] # "nothing"
        <5>1. "nothing" \notin Entity.states
          BY CatalogAssumption DEF Shapes, WellTold, Entity
        <5> QED BY <1>0, <2>1, <4>1, <5>1 DEF CopiesOf
      <4>3. Leads(screen, m[2], m[1])
        BY <3>2, LeadsOn DEF Entity, Verbs
      <4>4. Leads(screen, m[1], row)
        BY <4>1, <4>2 DEF Traced, Copies
      <4> QED BY <4>2, <4>3, <4>4, LeadsOn
    <3> QED BY <1>1, <3>1, <3>2 DEF Press
  <2>5. \A c \in Copies' : c.state = "nothing" \/ Leads(screen, c.state, row)
    BY <2>1, <2>2, <2>3, <2>4 DEF Traced, Copies
  <2>6. OfferedIsAccepted' /\ StaleWriteIsOffered'
    BY <2>1 DEF OfferedIsAccepted, StaleWriteIsOffered
  <2> QED BY <2>1, <2>2, <2>5, <2>6 DEF Traced
<1>2. CASE Accept
  <2>1. PICK to \in Entity.states :
           /\ <<row, to>> \in Entity.moves[press.verb]
           /\ Carried(press.verb, to, {})
           /\ press' = [press EXCEPT !.phase = "accepted", !.answer = Copy(to),
                                     !.from = Aged(@, TRUE), !.landed = @ + 1]
    BY <1>2 DEF Accept
  <2>2. /\ press.verb \in Verbs /\ press.phase = "sent"
        /\ UNCHANGED <<screen, late>> /\ press'.phase = "accepted"
        /\ press'.from = Aged(press.from, TRUE) /\ press'.answer = Copy(to)
    BY <1>2, <2>1 DEF Accept, Shapes, PressesOf
  <2>3. Moved(to, Entity.frames, TRUE) /\ row' = to
    BY <2>1 DEF Carried, Moved
  <2>4. Leads(screen, row, to)
    <3> DEFINE m == <<row, to>>
    <3>1. m \in Life[screen.of].moves[press.verb] /\ m[1] = row /\ m[2] = to
      BY <2>1 DEF Entity
    <3> HIDE DEF m
    <3>2. Leads(screen, m[1], m[2])
      BY <2>2, <3>1, LeadsOn DEF Verbs
    <3> QED BY <3>1, <3>2
  <2>5. \A c \in Copies' : c.state = "nothing" \/ Leads(screen, c.state, row')
    BY <2>2, <2>3, <2>4, MovedTraces DEF Traced
  <2>6. press.from.state \in screen.offers[press.verb] /\ Leads(screen, press.from.state, row)
    <3>1. press.from.state \in screen.offers[press.verb]
      BY <2>2 DEF Traced
    <3>2. press.from.state # "nothing"
      <4>1. "nothing" \notin Entity.states
        BY CatalogAssumption DEF Shapes, WellTold, Entity
      <4> QED BY <1>0, <2>2, <3>1, <4>1
    <3> QED BY <3>1, <3>2 DEF Traced, Copies
  <2>7. OfferedIsAccepted' /\ StaleWriteIsOffered'
    BY <2>1, <2>2, <2>6, CarriedFits
  <2>8. late' # "none" => \E x \in screen.offers[late'] : Leads(screen, x, row')
    BY <2>2, <2>3, <2>4, LeadsOn DEF Traced
  <2> QED BY <2>2, <2>5, <2>7, <2>8 DEF Traced
<1>3. CASE LateAccept
  <2>1. PICK to \in Entity.states :
           <<row, to>> \in Entity.moves[late] /\ Carried(late, to, Judged(late, "late"))
    BY <1>3 DEF LateAccept
  <2>2. /\ late \in Verbs /\ UNCHANGED screen /\ late' = "none"
        /\ press' = [press EXCEPT !.landed = IF press.verb = late THEN @ + 1 ELSE @,
                                  !.from = Aged(@, TRUE), !.answer = Aged(@, TRUE)]
    BY <1>3 DEF LateAccept, Shapes
  <2>3. /\ press'.phase = press.phase /\ press'.verb = press.verb
        /\ press'.from = Aged(press.from, TRUE) /\ press'.answer = Aged(press.answer, TRUE)
    BY <2>2 DEF Shapes, PressesOf
  <2>4. Aged(press.from, TRUE).state = press.from.state
    BY AgedMarks
  <2>5. Moved(to, Entity.frames, TRUE)
    BY <2>1 DEF Carried
  <2>6. Leads(screen, row, to)
    <3> DEFINE m == <<row, to>>
    <3>1. m \in Life[screen.of].moves[late] /\ m[1] = row /\ m[2] = to
      BY <2>1 DEF Entity
    <3> HIDE DEF m
    <3>2. Leads(screen, m[1], m[2])
      BY <2>2, <3>1, LeadsOn DEF Verbs
    <3> QED BY <3>1, <3>2
  <2>7. \A c \in Copies' : c.state = "nothing" \/ Leads(screen, c.state, row')
    BY <2>2, <2>3, <2>5, <2>6, MovedTraces DEF Traced
  <2>8. PICK x \in screen.offers[late] : Leads(screen, x, row)
    BY <2>2 DEF Traced
  <2>9. \A j \in Judged(late, "late") : j.kind = "late"
    BY DEF Judged
  <2>10. OfferedIsAccepted' /\ StaleWriteIsOffered'
    BY <2>1, <2>2, <2>8, <2>9, CarriedFits
  <2> QED BY <2>2, <2>3, <2>4, <2>7, <2>10 DEF Traced
<1>4. CASE Refuse
  <2>1. /\ press.phase = "sent" /\ Refused(press.verb) /\ press.verb \in Verbs
        /\ UNCHANGED <<screen, row, shown, fetch, stray, late>>
        /\ press' = [press EXCEPT !.phase = "refused"]
        /\ verdict' = IF press.from.state = row /\ press.landed = 0
                      THEN verdict \union Judged(press.verb, "refused") ELSE verdict
    BY <1>4 DEF Refuse, Shapes
  <2>2. press'.phase = "refused" /\ press'.from = press.from /\ press'.answer = press.answer
    BY <2>1 DEF Shapes, PressesOf
  <2>3. Traced'
    BY <2>1, <2>2 DEF Traced, Copies
  <2>4. press.from.state = row => <<screen.name, press.verb, row>> \in OverOffered
    <3> SUFFICES ASSUME press.from.state = row
                 PROVE  <<screen.name, press.verb, row>> \in OverOffered
      OBVIOUS
    <3>1. row \in screen.offers[press.verb]
      BY <2>1 DEF Traced
    <3>2. ASSUME NEW m \in Entity.moves[press.verb], m[1] = row
          PROVE  FALSE
      <4>1. m = <<row, m[2]>> /\ m[2] \in Entity.states
        BY <1>0, <2>1, <3>2
      <4> QED BY <2>1, <3>2, <4>1 DEF Refused
    <3> QED BY <2>1, <3>1, <3>2, FitAssumption DEF Fits, Verbs, Entity
  <2>5. \A j \in verdict' :
           j \in verdict \/ (/\ j.kind = "refused" /\ j.verb = press.verb /\ j.at = row
                             /\ press.from.state = row)
    BY <2>1 DEF Judged
  <2>6. OfferedIsAccepted' /\ StaleWriteIsOffered'
    BY <2>1, <2>4, <2>5 DEF OfferedIsAccepted, StaleWriteIsOffered
  <2> QED BY <2>3, <2>6
<1>5. CASE GiveUp
  <2>1. /\ UNCHANGED <<screen, row, shown, fetch, stray, verdict>>
        /\ press' = [press EXCEPT !.phase = "refused"]
        /\ late' \in IF press.phase = "sent" THEN {press.verb, "none"} ELSE {"none"}
    BY <1>5 DEF GiveUp
  <2>2. press'.phase = "refused" /\ press'.from = press.from /\ press'.answer = press.answer
    BY <2>1 DEF Shapes, PressesOf
  <2>3. late' # "none" => \E x \in screen.offers[late'] : Leads(screen, x, row)
    <3> SUFFICES ASSUME late' # "none"
                 PROVE  \E x \in screen.offers[late'] : Leads(screen, x, row)
      OBVIOUS
    <3>1. late' = press.verb /\ press.phase = "sent" /\ press.verb \in Verbs
      BY <2>1
    <3>2. press.from.state \in screen.offers[press.verb]
      BY <3>1 DEF Traced
    <3>3. press.from.state # "nothing"
      <4>1. "nothing" \notin Entity.states
        BY CatalogAssumption DEF Shapes, WellTold, Entity
      <4> QED BY <1>0, <3>1, <3>2, <4>1
    <3>4. Leads(screen, press.from.state, row)
      BY <3>3 DEF Traced, Copies
    <3> QED BY <3>1, <3>2, <3>4
  <2>4. Traced'
    BY <2>1, <2>2, <2>3 DEF Traced, Copies
  <2> QED BY <2>1, <2>4 DEF OfferedIsAccepted, StaleWriteIsOffered
<1>6. CASE LateRefuse
  <2>1. UNCHANGED <<screen, row, shown, fetch, stray, press, verdict>> /\ late' = "none"
    BY <1>6 DEF LateRefuse
  <2> QED BY <2>1, StaysTraced DEF Copies
<1>7. CASE Settle
  BY <1>7, SettleFits
<1> QED BY <1>1, <1>2, <1>3, <1>4, <1>5, <1>6, <1>7 DEF Writes

LEMMA AlwaysFits == Spec => []Fitting
<1>1. Init /\ Shapes => Fitting
  <2> SUFFICES ASSUME Init, Shapes PROVE Fitting
    OBVIOUS
  <2>1. /\ fetch.copy = Nothing /\ fetch.orElse = Nothing
        /\ stray.copy = Nothing /\ stray.orElse = Nothing
    BY NewReads DEF Init, Phases
  <2>2. /\ shown = Nothing /\ press.phase = "idle" /\ press.from = Nothing
        /\ press.answer = Nothing /\ late = "none" /\ verdict = {} /\ Nothing.state = "nothing"
    BY DEF Init, NoWrite, Nothing
  <2> QED BY <2>1, <2>2 DEF Fitting, Traced, Copies, OfferedIsAccepted, StaleWriteIsOffered
<1>2. Shapes /\ Shows /\ Fitting /\ [Next]_vars => Fitting'
  <2>1. Fitting /\ UNCHANGED vars => Fitting'
    <3> SUFFICES ASSUME Fitting, UNCHANGED vars PROVE Fitting'
      OBVIOUS
    <3>1. UNCHANGED <<screen, row, shown, fetch, stray, press, late, verdict>>
      BY DEF vars
    <3> QED BY <3>1, StaysTraced DEF Copies
  <2> QED BY <2>1, ReadsFit, StreamFits, OthersFit, WritesFit DEF Next
<1>3. Inv => Shapes
  BY DEF Inv
<1> QED BY <1>1, <1>2, <1>3, Always, AlwaysShows, PTL DEF Spec

--------------------------------------------------------------------------------
(* The theorems about writes.                                                  *)

\* A write that was accepted is on screen once its answer and the reads it
\* asked for are in, however many people write and however often reads and
\* answers fail: what a component's onSuccess names, or puts, covers what it
\* shows (WiringAssumption), and no read that was answered before the write
\* lands after it, the two known ways apart.
THEOREM OwnWritesShown == Spec => []OwnWriteShown
<1>1. Shows => OwnWriteShown
  BY DEF Shows, Corrected, Excused, AtRest, OwnWriteShown
<1> QED BY <1>1, AlwaysShows, PTL

\* What the server refused, or never saw, does not stay on screen: onError puts
\* back what onMutate saved, which was never itself a write shown early, and
\* the admin store's read after an error has it to fall back on.
THEOREM RefusalsLeave == Spec => []RefusedLeavesScreen
<1>1. Shows => RefusedLeavesScreen
  BY DEF Shows, Truthful, Honest, AtRest, RefusedLeavesScreen
<1> QED BY <1>1, AlwaysShows, PTL

\* The server refuses a write pressed on an up-to-date row only where the
\* catalogue says the markup is wider than the guard, however many moves,
\* presses and faults there are.
THEOREM OffersAccepted == Spec => []OfferedIsAccepted
<1>1. Fitting => OfferedIsAccepted
  BY DEF Fitting
<1> QED BY <1>1, AlwaysFits, PTL

\* A write pressed on an out-of-date row does only what the up-to-date row
\* would have offered, the known pairs apart: whatever the row has become since
\* it was read, also while the screen shows an outcome that never came about.
THEOREM StaleWritesFit == Spec => []StaleWriteIsOffered
<1>1. Fitting => StaleWriteIsOffered
  BY DEF Fitting
<1> QED BY <1>1, AlwaysFits, PTL
===============================================================================
