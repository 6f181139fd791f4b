------------------------------- MODULE EventHub -------------------------------
(***************************************************************************)
(* The realtime hub (core/realtime.py) and one browser's EventSource: the  *)
(* outbox the database's triggers write, the poller that reads it with one *)
(* cursor, the connection's bounded queue, the backfill of a connection    *)
(* that comes back, and the resync that is owed when detail is dropped.    *)
(*                                                                         *)
(* A row is given its id when it is inserted and is seen when its          *)
(* transaction commits, which may be in another order. A frame reaches the *)
(* browser in the step that yields it: one that is cut off on its way is   *)
(* a frame that was not yielded, since all the server keeps about a        *)
(* connection dies with it. A registration that outlives its connection    *)
(* (the server notices at its next keepalive) is read by nobody and left   *)
(* out. Other browsers are seen only through the hub's being awake.        *)
(***************************************************************************)
EXTENDS Integers, Sequences, FiniteSets, SequencesExt, FiniteSetsExt

CONSTANTS MaxId,       \* rows ever written
          QueueSize,   \* QUEUE_MAXSIZE
          BatchSize,   \* BATCH_SIZE, rows of one poll
          Page,        \* rows of one backfill
          MaxFaults    \* connections cut, restarts, reads that fail

ASSUME HubAssumption ==
    /\ MaxId \in Nat /\ MaxFaults \in Nat
    /\ {QueueSize, BatchSize, Page} \subseteq Nat \ {0}

Ids == 1..MaxId
NoCursor == -1

VARIABLES
    next,      \* the id the next insert is given
    open,      \* rows inserted and not (yet) committed
    outbox,    \* sse_events: rows committed and not pruned
    mine,      \* rows whose audience this connection is in
    cursor,    \* the hub's, NoCursor before it has read the outbox
    batch,     \* rows a poll has read and not dispatched
    conn,      \* "away", "attached", "probed", "filled", "streaming" or "yielded"
    fill,      \* frames of the backfill not yet yielded
    queue,     \* the subscriber's queue
    dropped,   \* a resync is owed
    lastId,    \* the browser's last event id, 0 before the first frame
    faults     \* faults left
VARIABLES      \* history
    made,      \* rows ever committed
    known,     \* rows whose frame, or a resync after them, reached the browser
    gaps       \* rows that may stay unannounced, each for a reason given below

dbVars == <<next, open, outbox, mine, made>>
hubVars == <<cursor, batch>>
connVars == <<conn, fill, queue, dropped>>
tabVars == <<lastId, known>>
vars == <<dbVars, hubVars, connVars, tabVars, gaps, faults>>

Row(id)  == [id |-> id, resync |-> FALSE]
Resync   == [id |-> lastId, resync |-> TRUE]
Frames   == [id : 0..MaxId, resync : BOOLEAN]

\* Rows in the order of their ids, and the first n of them.
Before(e, ids) == Cardinality({f \in ids : f < e})
InOrder(ids) == [i \in 1..Cardinality(ids) |-> CHOOSE e \in ids : Before(e, ids) = i - 1]
FirstOf(ids, n) == {e \in ids : Before(e, ids) < n}
Resyncing == \E i \in DOMAIN fill : fill[i].resync
\* What this browser has yet to be told, and what of it is not in its queue.
Untold(ids) == (ids \cap mine) \ known
Unqueued(ids) == Untold(ids) \ ToSet(queue)

-------------------------------------------------------------------------------
(* The database.                                                           *)

\* A trigger writes a row, for this browser among others or not.
Insert ==
    /\ next <= MaxId
    /\ next' = next + 1 /\ open' = open \union {next}
    /\ mine' \in {mine, mine \union {next}}
    /\ UNCHANGED <<outbox, made, hubVars, connVars, tabVars, gaps, faults>>

\* Its transaction commits; one that rolls back is one that never does. Readers
\* that go by id may have passed the row already.
Commit(e) ==
    /\ e \in open
    /\ open' = open \ {e} /\ outbox' = outbox \union {e} /\ made' = made \union {e}
    /\ gaps' = IF \E f \in made : f > e THEN gaps \union {e} ELSE gaps
    /\ UNCHANGED <<next, mine, hubVars, connVars, tabVars, faults>>

\* Rows of two hours ago go, and a transaction as old is open no more. Where a
\* connection streams they were dispatched long since; one that has just probed
\* for them may lose them unannounced.
Prune ==
    \E h \in outbox :
        /\ conn \in {"streaming", "yielded"} => h <= cursor
        /\ \A e \in batch : e > h
        /\ outbox' = {e \in outbox : e > h} /\ open' = {e \in open : e > h}
        /\ gaps' = IF conn \in {"probed", "filled"} THEN gaps \union Untold({e \in outbox : e <= h}) ELSE gaps
        /\ UNCHANGED <<next, mine, made, hubVars, connVars, tabVars, faults>>

-------------------------------------------------------------------------------
(* The poller. It reads while anybody listens, this browser or another.    *)

\* The first poll of a process starts at the newest row: what was committed
\* since a connection read its backfill is not dispatched to it.
Seed ==
    /\ cursor = NoCursor
    /\ cursor' = Max(outbox \union {0})
    /\ gaps' = IF conn \in {"filled", "streaming", "yielded"}
               THEN gaps \union Unqueued({e \in outbox : Row(e) \notin ToSet(fill)}) ELSE gaps
    /\ UNCHANGED <<dbVars, batch, connVars, tabVars, faults>>

Fetch ==
    /\ cursor # NoCursor /\ batch = {}
    /\ batch' = FirstOf({e \in outbox : e > cursor}, BatchSize)
    /\ batch' # {}
    /\ UNCHANGED <<dbVars, cursor, connVars, tabVars, gaps, faults>>

\* Mutant of Registered: a connection is attached after its backfill.
RegisteredLate == conn \in {"streaming", "yielded"}

\* A connection is registered before it reads its backfill.
Registered == conn # "away"

\* Whoever is registered by then is pushed what it accepts; what does not fit
\* is dropped, and remembered as owed.
Offered(ids) == queue \o InOrder(ids)
\* Mutant of Kept: the queue has no limit.
KeptAll(ids) == Offered(ids)
Kept(ids) ==
    SubSeq(Offered(ids), 1, IF Len(Offered(ids)) > QueueSize THEN QueueSize ELSE Len(Offered(ids)))

Dispatch ==
    /\ batch # {}
    /\ cursor' = Max(batch \union {cursor})
    /\ batch' = {}
    /\ IF Registered
       THEN /\ queue' = Kept(batch \cap mine)
            /\ dropped' = (dropped \/ Len(Offered(batch \cap mine)) > QueueSize)
       ELSE UNCHANGED <<queue, dropped>>
    /\ UNCHANGED <<dbVars, conn, fill, tabVars, gaps, faults>>

-------------------------------------------------------------------------------
(* The connection: subscribe and _backfill.                                *)

\* A browser without an id starts at what comes, one with an id asks for the
\* rows after it.
Connect ==
    /\ conn = "away"
    /\ conn' = IF lastId = 0 THEN "streaming" ELSE "attached"
    /\ UNCHANGED <<dbVars, hubVars, fill, queue, dropped, tabVars, gaps, faults>>

\* Rows after the browser's last one are gone: the oldest that is left proves it.
Behind == outbox # {} /\ Min(outbox) > lastId + 1
Pruned == {e \in made \ outbox : e > lastId}

\* The oldest row is asked for. An empty outbox proves nothing, and nor does a
\* probe that fails.
Probe ==
    /\ conn = "attached" /\ conn' = "probed"
    /\ \/ /\ fill' = IF Behind THEN <<Resync>> ELSE <<>>
          /\ gaps' = IF outbox = {} THEN gaps \union Untold(Pruned) ELSE gaps
          /\ UNCHANGED faults
       \/ /\ faults > 0 /\ faults' = faults - 1
          /\ gaps' = gaps \union Untold(Pruned)
          /\ UNCHANGED fill
    /\ UNCHANGED <<dbVars, hubVars, queue, dropped, tabVars>>

\* One page of the rows after the last id is read. Rows beyond the page that the
\* hub has dispatched already come no more, nor does anything if the read fails.
Backfill ==
    LET rows == {e \in outbox \cap mine : e > lastId}
        Skipped(ids) == IF Resyncing THEN {} ELSE Unqueued({e \in ids : e <= cursor})
    IN  /\ conn = "probed" /\ conn' = "filled"
        /\ \/ /\ fill' = fill \o [i \in DOMAIN InOrder(FirstOf(rows, Page)) |->
                                    Row(InOrder(FirstOf(rows, Page))[i])]
              /\ gaps' = gaps \union Skipped(rows \ FirstOf(rows, Page))
              /\ UNCHANGED faults
           \/ /\ faults > 0 /\ faults' = faults - 1
              /\ gaps' = gaps \union Skipped(rows)
              /\ UNCHANGED fill
        /\ UNCHANGED <<dbVars, hubVars, queue, dropped, tabVars>>

\* The rows come back from the worker thread that read them.
Filled ==
    /\ conn = "filled" /\ conn' = "streaming"
    /\ UNCHANGED <<dbVars, hubVars, fill, queue, dropped, tabVars, gaps, faults>>

\* A frame reaches the browser, which reads everything again at a resync. What
\* was committed before its first frame the browser was never promised.
Receive(f) ==
    /\ lastId' = f.id
    /\ known' = known \union (IF f.resync THEN made ELSE {f.id})
    /\ gaps' = IF lastId = 0 THEN gaps \union {e \in made : e < f.id} ELSE gaps

YieldFill ==
    /\ conn = "streaming" /\ fill # <<>>
    /\ Receive(Head(fill)) /\ fill' = Tail(fill)
    /\ UNCHANGED <<dbVars, hubVars, conn, queue, dropped, faults>>

Yield ==
    /\ conn = "streaming" /\ fill = <<>> /\ queue # <<>>
    /\ Receive(Row(Head(queue))) /\ queue' = Tail(queue)
    /\ conn' = "yielded"
    /\ UNCHANGED <<dbVars, hubVars, fill, dropped, faults>>

\* Mutant of Settle: a resync is paid while something is queued, not once nothing is.
SettleUndrained ==
    /\ conn = "yielded" /\ conn' = "streaming"
    /\ IF dropped /\ queue # <<>>
       THEN dropped' = FALSE /\ Receive(Resync)
       ELSE UNCHANGED <<dropped, tabVars, gaps>>
    /\ UNCHANGED <<dbVars, hubVars, fill, queue, faults>>

\* After each event of the queue: a resync is paid once the queue is drained.
Settle ==
    /\ conn = "yielded" /\ conn' = "streaming"
    /\ IF dropped /\ queue = <<>>
       THEN dropped' = FALSE /\ Receive(Resync)
       ELSE UNCHANGED <<dropped, tabVars, gaps>>
    /\ UNCHANGED <<dbVars, hubVars, fill, queue, faults>>

\* A connection ends, and with it the resync it was owed: what was dropped
\* before the last id is not asked for again.
HangUp ==
    /\ conn' = "away" /\ fill' = <<>> /\ queue' = <<>> /\ dropped' = FALSE
    /\ gaps' = IF dropped THEN gaps \union {e \in made \cap mine : e \notin known /\ e <= lastId}
               ELSE gaps

Cut ==
    /\ conn # "away" /\ faults > 0 /\ faults' = faults - 1
    /\ HangUp
    /\ UNCHANGED <<dbVars, hubVars, tabVars>>

\* The server's process starts anew.
Restart ==
    /\ faults > 0 /\ faults' = faults - 1
    /\ cursor' = NoCursor /\ batch' = {}
    /\ HangUp
    /\ UNCHANGED <<dbVars, tabVars>>

-------------------------------------------------------------------------------
Init ==
    /\ next = 1 /\ open = {} /\ outbox = {} /\ mine = {} /\ made = {}
    /\ cursor = NoCursor /\ batch = {}
    /\ conn = "away" /\ fill = <<>> /\ queue = <<>> /\ dropped = FALSE
    /\ lastId = 0 /\ known = {} /\ gaps = {} /\ faults = MaxFaults

Database == Insert \/ (\E e \in open : Commit(e)) \/ Prune
Hub == Seed \/ Fetch \/ Dispatch
Connection ==
    Connect \/ Probe \/ Backfill \/ Filled \/ YieldFill \/ Yield \/ Settle \/ Cut \/ Restart

Next == Database \/ Hub \/ Connection

\* The browser connects again by itself, the server sends what it has, and the
\* poller reads for ever while this browser listens (it survives every error).
Fairness ==
    /\ WF_vars(Connect) /\ WF_vars(Probe) /\ WF_vars(Backfill) /\ WF_vars(Filled)
    /\ WF_vars(YieldFill) /\ WF_vars(Yield) /\ WF_vars(Settle)
    /\ WF_vars(Registered /\ Seed) /\ WF_vars(Registered /\ Fetch) /\ WF_vars(Dispatch)

Spec == Init /\ [][Next]_vars /\ Fairness

-------------------------------------------------------------------------------
(* What is claimed.                                                        *)

\* Shape of the state.
TypeOK ==
    /\ next \in 1..(MaxId + 1) /\ faults \in 0..MaxFaults
    /\ outbox \subseteq made /\ made \subseteq Ids /\ open \subseteq Ids \ made
    /\ mine \subseteq Ids /\ known \subseteq made /\ gaps \subseteq made
    /\ cursor \in 0..MaxId \union {NoCursor} /\ batch \subseteq made
    /\ conn \in {"away", "attached", "probed", "filled", "streaming", "yielded"}
    /\ fill \in Seq(Frames) /\ Len(fill) <= Page + 1
    /\ queue \in Seq(made) /\ Len(queue) <= QueueSize
    /\ dropped \in BOOLEAN /\ lastId \in 0..MaxId

\* A row is on its way while something will still announce it: the backfill that
\* starts at the last id, a frame that waits, a resync that is owed, or the
\* poller that has not passed it.
OnItsWay(e) ==
    \/ conn \in {"away", "attached"} /\ e > lastId
    \/ conn = "probed" /\ e > lastId /\ e \in outbox
    \/ Resyncing \/ dropped
    \/ Row(e) \in ToSet(fill) \/ e \in ToSet(queue)
    \/ Registered /\ e \in outbox /\ e > cursor

\* A browser that has had a frame misses nothing unannounced, however polls,
\* backfills, full queues, prunes and reconnections interleave, except for the
\* reasons named: an overtaken commit, a page or a read of the backfill that
\* fell short, a poller that starts anew, an outbox that proves nothing, and a
\* connection cut while it was owed a resync.
GapsAreNamed ==
    lastId > 0 => \A e \in made \cap mine : e \in known \union gaps \/ OnItsWay(e)

\* What is on its way arrives.
StreamCatchesUp ==
    \A e \in Ids : (lastId > 0 /\ e \in made \cap mine) ~> e \in known \union gaps
===============================================================================
