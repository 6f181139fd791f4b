--------------------------- MODULE EventHub_proofs ----------------------------
(***************************************************************************)
(* The realtime hub, for any number of rows and faults, and any size of    *)
(* the queue, a poll and a page. One inductive invariant, HubInv, carries  *)
(* both theorems. What it adds to GapsAreNamed:                            *)
(*                                                                         *)
(*   - a poll's batch leaves out no row between the cursor and its last    *)
(*     one, the queue rises towards the cursor, and a backfill leaves out  *)
(*     no row before its last one, overtaken commits apart;                *)
(*   - a browser that is owed no resync has been told of, or has lost for  *)
(*     a reason named, every row up to its last id: so a connection that   *)
(*     is cut asks again for all it has yet to hear of.                    *)
(***************************************************************************)
EXTENDS EventHub, FiniteSetTheorems, SequenceTheorems, WellFoundedInduction, TLAPS

\* Rows this browser should hear of and has not, for no reason yet named.
Unheard == (made \cap mine) \ (known \union gaps)

\* Ids are given in order, and cursors are ids of rows.
Numbered ==
    /\ made \union open \union mine \subseteq 1..(next - 1)
    /\ lastId \in made \union {0} /\ cursor \in made \union {0, NoCursor}

\* What each phase of a connection has in hand.
PhasesFit ==
    /\ conn = "away" => queue = <<>> /\ ~dropped
    /\ conn \in {"away", "attached"} => fill = <<>>
    /\ conn = "probed" => fill \in {<<>>, <<Resync>>}
    /\ lastId = 0 => fill = <<>> /\ conn \in {"away", "streaming"}

\* The outbox loses its oldest rows first, and no row is committed among those.
PrunedFirst == \A p \in made \ outbox, e \in outbox \union open : p < e

\* A batch is all there was between the cursor and its last row.
BatchWhole ==
    /\ batch \subseteq outbox /\ (batch # {} => cursor # NoCursor)
    /\ \A b \in batch : /\ cursor < b
                        /\ \A e \in outbox : cursor < e /\ e < b => e \in batch \union gaps

QueueRises ==
    /\ \A i, j \in DOMAIN queue : i < j => queue[i] < queue[j]
    /\ \A i \in DOMAIN queue : queue[i] <= cursor

FillRises ==
    /\ \A i, j \in DOMAIN fill : i < j => fill[i].id < fill[j].id
    /\ \A i \in DOMAIN fill : /\ fill[i].id \in made
                              /\ fill[i].resync => i = 1 /\ fill[i].id = lastId

\* With no resync to come: nothing is missing up to the last id, nor after it
\* while the backfill is to be read, nor before a frame of the backfill.
AskedAgain == lastId > 0 /\ ~dropped => \A e \in Unheard : e > lastId
ProbedKept == conn = "probed" /\ ~Resyncing /\ ~dropped => Unheard \subseteq outbox
FillWhole ==
    ~Resyncing /\ ~dropped =>
        \A i \in DOMAIN fill, e \in Unheard : e < fill[i].id => Row(e) \in ToSet(fill)

\* Before the first frame: nothing is missing after the head of the queue.
QueueWhole ==
    lastId = 0 =>
        \A i \in DOMAIN queue, e \in Unheard :
            e > queue[i] => e \in ToSet(queue) \/ dropped \/ (e \in outbox /\ e > cursor)

HubInv ==
    /\ TypeOK /\ Numbered /\ PhasesFit /\ PrunedFirst /\ BatchWhole
    /\ QueueRises /\ FillRises
    /\ AskedAgain /\ ProbedKept /\ FillWhole /\ QueueWhole /\ GapsAreNamed

-------------------------------------------------------------------------------
(* Least and greatest, and rows in order.                                      *)

LEMMA IdsAreNumbers == Ids \subseteq Nat \ {0} /\ IsFiniteSet(Ids)
<1>1. MaxId \in Nat
  BY HubAssumption
<1> QED BY <1>1, FS_Interval DEF Ids

LEMMA LeastOf ==
    ASSUME NEW S \in SUBSET Nat, S # {}
    PROVE  Min(S) \in S /\ \A y \in S : Min(S) <= y
<1> DEFINE Starts == {1..x : x \in S}
           R == StrictSubsetOrdering(Nat)
<1>1. Starts \subseteq FiniteSubsetsOf(Nat) /\ Starts # {}
  <2>1. \A x \in S : 1..x \in SUBSET Nat /\ IsFiniteSet(1..x)
    BY FS_Interval
  <2> QED BY <2>1 DEF FiniteSubsetsOf
<1>2. IsWellFoundedOn(R, FiniteSubsetsOf(Nat))
  BY FS_StrictSubsetOrderingWellFounded
<1>3. PICK T \in Starts : \A U \in Starts : ~(<<U, T>> \in R)
  BY <1>1, <1>2, WFMin
<1>4. PICK x \in S : \A y \in S : ~(<<1..y, 1..x>> \in R)
  BY <1>3
<1>5. ASSUME NEW y \in S, y < x
      PROVE  FALSE
  <2>1. 1..y \subseteq 1..x /\ 1..y \in SUBSET Nat /\ 1..x \in SUBSET Nat
    BY <1>5
  <2>2. x \in 1..x /\ x \notin 1..y
    BY <1>5
  <2> QED BY <1>4, <2>1, <2>2 DEF StrictSubsetOrdering
<1>6. \A y \in S : x <= y
  BY <1>5
<1> QED BY <1>6 DEF Min

LEMMA GreatestOf ==
    ASSUME NEW S \in SUBSET Nat, NEW n \in Nat, \A y \in S : y <= n, S # {}
    PROVE  Max(S) \in S /\ \A y \in S : y <= Max(S)
<1> DEFINE Below == {n - y : y \in S}
<1>1. \A y \in S : y \in Nat /\ n - y \in Nat
  OBVIOUS
<1>2. Below \in SUBSET Nat /\ Below # {}
  BY <1>1
<1>3. Min(Below) \in Below /\ \A d \in Below : Min(Below) <= d
  BY <1>2, LeastOf
<1>4. PICK x \in S : \A d \in Below : n - x <= d
  BY <1>3
<1>5. \A y \in S : n - x <= n - y
  BY <1>4
<1>6. \A y \in S : y <= x
  BY <1>1, <1>5
<1> QED BY <1>6 DEF Max

\* How many rows come before a row tells the rows apart.
LEMMA BeforeRises ==
    ASSUME NEW ids \in SUBSET Ids
    PROVE  /\ IsFiniteSet(ids) /\ Cardinality(ids) \in Nat
           /\ \A e \in ids : Before(e, ids) \in 0..(Cardinality(ids) - 1)
           /\ \A e, f \in ids : e < f => Before(e, ids) < Before(f, ids)
<1>1. IsFiniteSet(ids) /\ Cardinality(ids) \in Nat
  BY IdsAreNumbers, FS_Subset, FS_CardinalityType
<1>2. ASSUME NEW e \in ids, NEW S \in SUBSET ids, {f \in ids : f < e} \subseteq S,
             \E x \in S : x >= e
      PROVE  Before(e, ids) \in Nat /\ Before(e, ids) < Cardinality(S)
  <2> DEFINE B == {f \in ids : f < e}
  <2>1. IsFiniteSet(S) /\ Cardinality(S) \in Nat
    BY <1>1, FS_Subset, FS_CardinalityType
  <2>2. IsFiniteSet(B) /\ Cardinality(B) \in Nat /\ Cardinality(B) <= Cardinality(S)
    BY <1>2, <2>1, FS_Subset, FS_CardinalityType
  <2>3. B # S
    BY <1>2, IdsAreNumbers
  <2>4. Cardinality(B) # Cardinality(S)
    BY <1>2, <2>1, <2>3, FS_Subset
  <2> QED BY <2>1, <2>2, <2>4 DEF Before
<1>3. \A e \in ids : Before(e, ids) \in 0..(Cardinality(ids) - 1)
  <2> SUFFICES ASSUME NEW e \in ids PROVE Before(e, ids) \in 0..(Cardinality(ids) - 1)
    OBVIOUS
  <2>1. e >= e
    BY IdsAreNumbers
  <2>2. Before(e, ids) \in Nat /\ Before(e, ids) < Cardinality(ids)
    BY <1>2, <2>1
  <2> QED BY <1>1, <2>2
<1>4. ASSUME NEW e \in ids, NEW f \in ids, e < f
      PROVE  Before(e, ids) < Before(f, ids)
  <2>1. {g \in ids : g < e} \subseteq {g \in ids : g < f}
    <3>1. \A g \in ids : g \in Nat
      BY IdsAreNumbers
    <3> QED BY <1>4, <3>1
  <2>2. e \in {g \in ids : g < f} /\ e >= e
    BY <1>4, IdsAreNumbers
  <2>3. Before(e, ids) < Cardinality({g \in ids : g < f})
    BY <1>2, <2>1, <2>2
  <2> QED BY <2>3 DEF Before
<1> QED BY <1>1, <1>3, <1>4

\* The first rows are as many as asked for at most, and leave out none between.
LEMMA FirstRows ==
    ASSUME NEW ids \in SUBSET Ids, NEW n \in Nat
    PROVE  /\ FirstOf(ids, n) \subseteq ids
           /\ \A e \in ids, f \in FirstOf(ids, n) : e < f => e \in FirstOf(ids, n)
           /\ Cardinality(FirstOf(ids, n)) <= n
<1>1. \A e \in ids, f \in FirstOf(ids, n) : e < f => e \in FirstOf(ids, n)
  <2> SUFFICES ASSUME NEW e \in ids, NEW f \in FirstOf(ids, n), e < f
               PROVE  e \in FirstOf(ids, n)
    OBVIOUS
  <2>1. f \in ids /\ Before(f, ids) < n
    BY DEF FirstOf
  <2>2. /\ Before(e, ids) \in 0..(Cardinality(ids) - 1) /\ Cardinality(ids) \in Nat
        /\ Before(f, ids) \in 0..(Cardinality(ids) - 1) /\ Before(e, ids) < Before(f, ids)
    BY <2>1, BeforeRises
  <2> QED BY <2>1, <2>2 DEF FirstOf
<1>2. Cardinality(FirstOf(ids, n)) <= n
  <2> DEFINE rank == [e \in FirstOf(ids, n) |-> Before(e, ids)]
  <2>1. FirstOf(ids, n) \subseteq ids /\ Cardinality(ids) \in Nat
    BY BeforeRises DEF FirstOf
  <2>2. \A e \in FirstOf(ids, n) : rank[e] \in 0..(n - 1)
    BY <2>1, BeforeRises DEF FirstOf
  <2>3. ASSUME NEW e \in FirstOf(ids, n), NEW f \in FirstOf(ids, n), rank[e] = rank[f]
        PROVE  e = f
    <3>1. e \in ids /\ f \in ids /\ e \in Nat /\ f \in Nat
      BY <2>1, IdsAreNumbers
    <3>2. /\ Before(e, ids) \in 0..(Cardinality(ids) - 1)
          /\ Before(f, ids) \in 0..(Cardinality(ids) - 1)
          /\ e < f => Before(e, ids) < Before(f, ids)
          /\ f < e => Before(f, ids) < Before(e, ids)
      BY <3>1, BeforeRises
    <3> QED BY <2>1, <2>3, <3>1, <3>2
  <2>4. rank \in Injection(FirstOf(ids, n), 0..(n - 1))
    BY <2>2, <2>3 DEF Injection, IsInjective
  <2>5. IsFiniteSet(0..(n - 1)) /\ Cardinality(0..(n - 1)) = n
    BY FS_Interval
  <2> QED BY <2>4, <2>5, FS_Injection
<1> QED BY <1>1, <1>2 DEF FirstOf

\* Rows in order are those rows, each once, rising.
LEMMA RowsInOrder ==
    ASSUME NEW ids \in SUBSET Ids
    PROVE  /\ InOrder(ids) \in Seq(ids) /\ Len(InOrder(ids)) = Cardinality(ids)
           /\ \A i, j \in DOMAIN InOrder(ids) : i < j => InOrder(ids)[i] < InOrder(ids)[j]
           /\ \A e \in ids : \E i \in DOMAIN InOrder(ids) : InOrder(ids)[i] = e
<1> DEFINE n == Cardinality(ids)
           rank == [e \in ids |-> Before(e, ids)]
           At(i) == CHOOSE e \in ids : Before(e, ids) = i - 1
<1>1. /\ n \in Nat /\ IsFiniteSet(ids)
      /\ \A e \in ids : Before(e, ids) \in 0..(n - 1)
      /\ \A e, f \in ids : e < f => Before(e, ids) < Before(f, ids)
  BY BeforeRises
<1> HIDE DEF n
<1>2. \A e, f \in ids : Before(e, ids) = Before(f, ids) => e = f
  <2> SUFFICES ASSUME NEW e \in ids, NEW f \in ids, Before(e, ids) = Before(f, ids)
               PROVE  e = f
    OBVIOUS
  <2>1. e \in Int /\ f \in Int /\ Before(e, ids) \in Int
    BY <1>1, IdsAreNumbers
  <2> QED BY <1>1, <2>1
<1>3. rank \in Injection(ids, 0..(n - 1))
  BY <1>1, <1>2 DEF Injection, IsInjective
<1>4. IsFiniteSet(0..(n - 1)) /\ Cardinality(0..(n - 1)) = n
  BY <1>1, FS_Interval
<1>5. rank \in Surjection(ids, 0..(n - 1))
  BY <1>1, <1>3, <1>4, FS_Injection DEF n
<1>6. \A i \in 1..n : At(i) \in ids /\ Before(At(i), ids) = i - 1
  <2> SUFFICES ASSUME NEW i \in 1..n PROVE \E e \in ids : Before(e, ids) = i - 1
    OBVIOUS
  <2>1. i - 1 \in 0..(n - 1)
    BY <1>1
  <2> QED BY <1>5, <2>1 DEF Surjection
<1>7. InOrder(ids) = [i \in 1..n |-> At(i)]
  BY DEF InOrder, n
<1>8. InOrder(ids) \in Seq(ids) /\ Len(InOrder(ids)) = n /\ DOMAIN InOrder(ids) = 1..n
  BY <1>1, <1>6, <1>7
<1>9. ASSUME NEW i \in 1..n, NEW j \in 1..n, i < j
      PROVE  At(i) < At(j)
  <2>1. /\ At(i) \in ids /\ At(j) \in ids
        /\ Before(At(i), ids) = i - 1 /\ Before(At(j), ids) = j - 1
    BY <1>6
  <2> HIDE DEF At
  <2>2. At(i) \in Int /\ At(j) \in Int
    <3>1. \A e \in ids : e \in Int
      BY IdsAreNumbers
    <3> QED BY <2>1, <3>1
  <2>3. ~(At(j) < At(i)) /\ At(i) # At(j)
    BY <1>1, <1>9, <2>1
  <2> QED BY <2>2, <2>3
<1>10. ASSUME NEW e \in ids
       PROVE  \E i \in 1..n : At(i) = e
  <2>1. Before(e, ids) + 1 \in 1..n
    BY <1>1
  <2>2. At(Before(e, ids) + 1) \in ids /\ Before(At(Before(e, ids) + 1), ids) = Before(e, ids)
    BY <1>1, <1>6, <2>1
  <2>3. At(Before(e, ids) + 1) = e
    BY <1>2, <2>2
  <2> QED BY <2>1, <2>3
<1> HIDE DEF At
<1>11. \A i \in 1..n : InOrder(ids)[i] = At(i)
  BY <1>7
<1>12. Len(InOrder(ids)) = Cardinality(ids)
  BY <1>8 DEF n
<1> QED BY <1>8, <1>9, <1>10, <1>11, <1>12

-------------------------------------------------------------------------------
(* The database's steps.                                                       *)

LEMMA HubNumbers ==
    ASSUME HubInv
    PROVE  /\ \A e \in Ids : e \in Nat /\ e > 0
           /\ UNION {made, open, outbox, batch, mine, known, gaps, Unheard} \subseteq Ids
           /\ outbox \subseteq made /\ gaps \subseteq made /\ known \subseteq made
           /\ batch \subseteq outbox /\ Unheard \subseteq made
           /\ cursor \in Int /\ lastId \in Nat
<1>1. \A e \in Ids : e \in Nat /\ e > 0
  BY IdsAreNumbers
<1>2. cursor \in Int /\ lastId \in Nat
  BY HubAssumption DEF HubInv, TypeOK, NoCursor
<1> QED BY <1>1, <1>2 DEF HubInv, TypeOK, BatchWhole, Unheard

LEMMA InsertKeeps == HubInv /\ Insert => HubInv'
<1> SUFFICES ASSUME HubInv, Insert PROVE HubInv'
  OBVIOUS
<1> USE HubAssumption DEF HubInv
<1>1. /\ next \in 1..MaxId /\ next \notin made \union open \union mine
      /\ next' = next + 1 /\ open' = open \union {next} /\ mine' \in {mine, mine \union {next}}
      /\ UNCHANGED <<outbox, made, cursor, batch, conn, fill, queue, dropped, lastId, known,
                     gaps, faults>>
  BY DEF Insert, TypeOK, Numbered, hubVars, connVars, tabVars
<1>2. Unheard' = Unheard
  BY <1>1 DEF Unheard
<1>3. TypeOK' /\ Numbered'
  BY <1>1 DEF TypeOK, Numbered, Ids, Frames
<1>4. PrunedFirst' /\ BatchWhole'
  <2>1. \A p \in made : p < next
    BY DEF TypeOK, Numbered
  <2> QED BY <1>1, <2>1 DEF PrunedFirst, BatchWhole
<1>5. PhasesFit' /\ QueueRises' /\ FillRises'
  BY <1>1 DEF PhasesFit, QueueRises, FillRises, Resync
<1>6. AskedAgain' /\ ProbedKept' /\ FillWhole' /\ QueueWhole'
  BY <1>1, <1>2 DEF AskedAgain, ProbedKept, FillWhole, QueueWhole, Resyncing
<1>7. GapsAreNamed'
  BY <1>1, <1>2 DEF GapsAreNamed, OnItsWay, Registered, Resyncing, Unheard
<1> QED BY <1>3, <1>4, <1>5, <1>6, <1>7

\* A row that commits after a later one is a gap; any other is ahead of all
\* that has been read.
LEMMA CommitKeeps == HubInv /\ (\E e \in open : Commit(e)) => HubInv'
<1> SUFFICES ASSUME HubInv, NEW c \in open, Commit(c) PROVE HubInv'
  OBVIOUS
<1> USE HubAssumption DEF HubInv
<1>1. /\ open' = open \ {c} /\ outbox' = outbox \union {c} /\ made' = made \union {c}
      /\ gaps' = IF \E f \in made : f > c THEN gaps \union {c} ELSE gaps
      /\ UNCHANGED <<next, mine, cursor, batch, conn, fill, queue, dropped, lastId, known, faults>>
  BY DEF Commit, hubVars, connVars, tabVars
<1>2. /\ Unheard' \subseteq Unheard \union {c}
      /\ c \in Unheard' => \A f \in made : c > f
      /\ c \in Ids /\ c \notin made
  <2>1. c \in Ids /\ c \notin made /\ made \subseteq Int
    BY DEF TypeOK, Ids
  <2> QED BY <1>1, <2>1 DEF Unheard, Ids
<1>3. TypeOK' /\ Numbered'
  <2>1. queue \in Seq(made')
    BY <1>1, SeqMonotonic DEF TypeOK
  <2> QED BY <1>1, <1>2, <2>1 DEF TypeOK, Numbered, Ids, Frames
<1>4. PrunedFirst'
  BY <1>1 DEF PrunedFirst
<1>5. BatchWhole'
  <2>1. \A b \in batch : b \in made
    BY DEF TypeOK
  <2> QED BY <1>1, <1>2, <2>1 DEF BatchWhole, TypeOK, Ids
<1>6. PhasesFit' /\ QueueRises' /\ FillRises'
  BY <1>1 DEF PhasesFit, QueueRises, FillRises, Resync
<1>7. c \in Unheard' => c > lastId /\ c > cursor /\ c \in outbox'
  BY <1>1, <1>2 DEF Numbered, NoCursor, Ids
<1>8. AskedAgain' /\ ProbedKept' /\ QueueWhole'
  BY <1>1, <1>2, <1>7 DEF AskedAgain, ProbedKept, QueueWhole, Resyncing
<1>9. FillWhole'
  <2>1. \A i \in DOMAIN fill : c \in Unheard' => ~(c < fill[i].id)
    BY <1>2, HubNumbers DEF FillRises
  <2> QED BY <1>1, <1>2, <2>1 DEF FillWhole, Resyncing
<1>10. GapsAreNamed'
  <2>1. \A e \in Unheard : lastId > 0 => OnItsWay(e)
    BY DEF GapsAreNamed, Unheard
  <2>2. \A e \in Unheard' : lastId > 0 => OnItsWay(e)'
    BY <1>1, <1>2, <1>7, <2>1 DEF OnItsWay, Registered, Resyncing, PhasesFit
  <2> QED BY <1>1, <2>2 DEF GapsAreNamed, Unheard
<1> QED BY <1>3, <1>4, <1>5, <1>6, <1>8, <1>9, <1>10

\* What is pruned was dispatched, or is a gap, or is still to be asked for.
LEMMA PruneKeeps == HubInv /\ Prune => HubInv'
<1> SUFFICES ASSUME HubInv, Prune PROVE HubInv'
  OBVIOUS
<1> USE HubAssumption DEF HubInv
<1>1. PICK h \in outbox :
        /\ conn \in {"streaming", "yielded"} => h <= cursor
        /\ \A e \in batch : e > h
        /\ outbox' = {e \in outbox : e > h} /\ open' = {e \in open : e > h}
        /\ gaps' = IF conn \in {"probed", "filled"}
                   THEN gaps \union Untold({e \in outbox : e <= h}) ELSE gaps
        /\ UNCHANGED <<next, mine, made, cursor, batch, conn, fill, queue, dropped, lastId, known,
                       faults>>
  BY DEF Prune, hubVars, connVars, tabVars
<1>2. /\ outbox \subseteq Ids /\ \A e \in Ids : e \in Int
      /\ made \subseteq Ids /\ h \in Int
  BY HubNumbers
<1>3. /\ Unheard' \subseteq Unheard /\ gaps \subseteq gaps' /\ gaps' \subseteq made
      /\ conn \in {"probed", "filled"} => \A e \in Unheard' : e \in outbox => e \in outbox'
  <2>1. gaps \subseteq gaps' /\ gaps' \subseteq made /\ Unheard' \subseteq Unheard
    BY <1>1, HubNumbers DEF Unheard, Untold
  <2>2. ASSUME conn \in {"probed", "filled"}, NEW e \in Unheard', e \in outbox
        PROVE  e \in outbox'
    <3>1. e \in mine \ known /\ e \notin gaps'
      BY <1>1 DEF Unheard
    <3>2. ~(e <= h)
      BY <1>1, <2>2, <3>1 DEF Untold
    <3> QED BY <1>1, <1>2, <2>2, <3>2
  <2> QED BY <2>1, <2>2
<1>4. TypeOK' /\ Numbered'
  BY <1>1, <1>3 DEF TypeOK, Numbered
<1>5. PrunedFirst'
  <2> SUFFICES ASSUME NEW p \in made \ outbox', NEW e \in outbox' \union open'
               PROVE  p < e
    BY <1>1 DEF PrunedFirst
  <2>1. e \in outbox \union open /\ e > h /\ p \in Int /\ e \in Int
    BY <1>1, <1>2 DEF TypeOK
  <2>2. p \in outbox => p <= h
    BY <1>1, <1>2
  <2> QED BY <2>1, <2>2, <1>2 DEF PrunedFirst
<1>6. BatchWhole'
  BY <1>1, <1>2, <1>3 DEF BatchWhole, TypeOK
<1>7. PhasesFit' /\ QueueRises' /\ FillRises'
  BY <1>1 DEF PhasesFit, QueueRises, FillRises, Resync
<1>8. AskedAgain' /\ ProbedKept'
  BY <1>1, <1>3 DEF AskedAgain, ProbedKept, Resyncing
<1>9. FillWhole'
  BY <1>1, <1>3 DEF FillWhole, Resyncing
<1>10. \A e \in Unheard' : Registered /\ e \in outbox /\ e > cursor /\ conn # "attached"
                            => e \in outbox'
  <2> SUFFICES ASSUME NEW e \in Unheard', conn \in {"streaming", "yielded"}, e \in outbox, e > cursor
               PROVE  e \in outbox'
    BY <1>3 DEF Registered, TypeOK
  <2>1. cursor \in Int /\ e \in Int
    BY <1>2 DEF TypeOK, NoCursor
  <2> QED BY <1>1, <1>2, <2>1
<1>11. QueueWhole'
  <2>1. lastId = 0 /\ DOMAIN queue # {} => conn = "streaming"
    BY DEF PhasesFit
  <2> QED BY <1>1, <1>3, <1>10, <2>1 DEF QueueWhole, Registered
<1>12. GapsAreNamed'
  <2> SUFFICES ASSUME NEW e \in Unheard', lastId > 0
               PROVE  OnItsWay(e)'
    BY <1>1 DEF GapsAreNamed, Unheard
  <2>1. OnItsWay(e)
    BY <1>3 DEF GapsAreNamed, Unheard
  <2>2. conn = "attached" /\ ~dropped => e > lastId
    BY <1>3 DEF AskedAgain
  <2> QED BY <1>1, <1>3, <1>10, <2>1, <2>2 DEF OnItsWay, Registered, Resyncing
<1> QED BY <1>4, <1>5, <1>6, <1>7, <1>8, <1>9, <1>11, <1>12

-------------------------------------------------------------------------------
(* The poller's steps.                                                         *)

\* What the queue keeps rises, is old or offered, and is all of it unless the
\* queue would overflow.
LEMMA KeptRows ==
    ASSUME HubInv, NEW ids \in SUBSET made,
           \A i \in DOMAIN queue, e \in ids : queue[i] < e
    PROVE  /\ Kept(ids) \in Seq(made) /\ Len(Kept(ids)) <= QueueSize
           /\ \A i, j \in DOMAIN Kept(ids) : i < j => Kept(ids)[i] < Kept(ids)[j]
           /\ \A k \in DOMAIN Kept(ids) :
                 Kept(ids)[k] \in ids \/ \E i \in DOMAIN queue : Kept(ids)[k] = queue[i]
           /\ ~(Len(Offered(ids)) > QueueSize) => ToSet(queue) \union ids \subseteq ToSet(Kept(ids))
<1> DEFINE new == InOrder(ids)
           all == Offered(ids)
           n   == IF Len(all) > QueueSize THEN QueueSize ELSE Len(all)
<1>1. /\ ids \in SUBSET Ids /\ \A e \in made : e \in Int
      /\ queue \in Seq(made) /\ QueueSize \in Nat \ {0}
  BY HubNumbers, HubAssumption DEF HubInv, TypeOK
<1>2. /\ new \in Seq(ids) /\ new \in Seq(made)
      /\ \A i, j \in DOMAIN new : i < j => new[i] < new[j]
      /\ \A e \in ids : \E i \in DOMAIN new : new[i] = e
  BY <1>1, RowsInOrder, SeqMonotonic
<1> HIDE DEF new
<1>3. /\ all \in Seq(made) /\ Len(all) = Len(queue) + Len(new)
      /\ DOMAIN queue = 1..Len(queue) /\ DOMAIN new = 1..Len(new) /\ DOMAIN all = 1..Len(all)
      /\ Len(queue) \in Nat /\ Len(new) \in Nat
      /\ \A i \in 1..Len(all) : all[i] = IF i <= Len(queue) THEN queue[i] ELSE new[i - Len(queue)]
  BY <1>1, <1>2, ConcatProperties, LenProperties DEF Offered, new
<1> HIDE DEF all
<1>4. \A i \in DOMAIN new : new[i] \in ids
  BY <1>2, ElementOfSeq, LenProperties
<1>5. \A i, j \in 1..Len(all) : i < j => all[i] < all[j]
  <2> SUFFICES ASSUME NEW i \in 1..Len(all), NEW j \in 1..Len(all), i < j
               PROVE  all[i] < all[j]
    OBVIOUS
  <2>1. CASE j <= Len(queue)
    BY <1>3, <2>1 DEF HubInv, QueueRises
  <2>2. CASE i <= Len(queue) /\ ~(j <= Len(queue))
    <3>1. j - Len(queue) \in DOMAIN new /\ i \in DOMAIN queue
      BY <1>3, <2>2
    <3> QED BY <1>3, <1>4, <2>2, <3>1
  <2>3. CASE ~(i <= Len(queue))
    <3>1. /\ i - Len(queue) \in DOMAIN new /\ j - Len(queue) \in DOMAIN new
          /\ i - Len(queue) < j - Len(queue) /\ ~(j <= Len(queue))
      BY <1>3, <2>3
    <3> QED BY <1>2, <1>3, <2>3, <3>1
  <2> QED BY <1>3, <2>1, <2>2, <2>3
<1>6. \A i \in 1..Len(all) : all[i] \in ids \/ \E k \in DOMAIN queue : all[i] = queue[k]
  <2> SUFFICES ASSUME NEW i \in 1..Len(all), ~(i <= Len(queue))
               PROVE  all[i] \in ids
    BY <1>3
  <2>1. i - Len(queue) \in DOMAIN new
    BY <1>3
  <2> QED BY <1>3, <1>4, <2>1
<1>7. \A x \in ToSet(queue) \union ids : \E i \in 1..Len(all) : all[i] = x
  <2>1. ASSUME NEW x \in ToSet(queue)
        PROVE  \E i \in 1..Len(all) : all[i] = x
    <3>1. PICK i \in DOMAIN queue : queue[i] = x
      BY DEF ToSet
    <3>2. i \in 1..Len(all) /\ all[i] = x
      BY <1>3, <3>1
    <3> QED BY <3>2
  <2>2. ASSUME NEW x \in ids
        PROVE  \E i \in 1..Len(all) : all[i] = x
    <3>1. PICK i \in DOMAIN new : new[i] = x
      BY <1>2
    <3>2. i + Len(queue) \in 1..Len(all) /\ all[i + Len(queue)] = x
      BY <1>3, <3>1
    <3> QED BY <3>2
  <2> QED BY <2>1, <2>2
<1>8. n \in 0..Len(all) /\ n <= QueueSize /\ Len(all) \in Nat
  BY <1>1, <1>3
<1>9. \A i \in 1..n : all[i] \in made
  BY <1>3, <1>8
<1>10. /\ Kept(ids) = SubSeq(all, 1, n)
       /\ SubSeq(all, 1, n) \in Seq(made) /\ Len(SubSeq(all, 1, n)) = n
       /\ \A i \in 1..n : SubSeq(all, 1, n)[i] = all[i]
  <2>1. Kept(ids) = SubSeq(all, 1, n)
    BY DEF Kept, all
  <2> HIDE DEF n
  <2> QED BY <1>8, <1>9, <2>1, SubSeqProperties
<1>11. ~(Len(all) > QueueSize) => n = Len(all)
  OBVIOUS
<1> HIDE DEF n
<1>12. /\ Kept(ids) \in Seq(made) /\ Len(Kept(ids)) = n /\ DOMAIN Kept(ids) = 1..n
       /\ \A i \in 1..n : Kept(ids)[i] = all[i] /\ i \in 1..Len(all)
  BY <1>8, <1>10, LenProperties
<1>13. ~(Len(all) > QueueSize) => ToSet(queue) \union ids \subseteq ToSet(Kept(ids))
  BY <1>7, <1>11, <1>12 DEF ToSet
<1> QED BY <1>5, <1>6, <1>8, <1>12, <1>13 DEF all

LEMMA FetchKeeps == HubInv /\ Fetch => HubInv'
<1> SUFFICES ASSUME HubInv, Fetch PROVE HubInv'
  OBVIOUS
<1> USE DEF HubInv
<1> DEFINE ahead == {e \in outbox : e > cursor}
<1>1. /\ cursor # NoCursor /\ batch' = FirstOf(ahead, BatchSize)
      /\ UNCHANGED <<next, open, outbox, mine, made, cursor, conn, fill, queue, dropped, lastId,
                     known, gaps, faults>>
  BY DEF Fetch, dbVars, connVars, tabVars
<1>2. ahead \in SUBSET Ids /\ BatchSize \in Nat
  BY HubNumbers, HubAssumption
<1>3. /\ batch' \subseteq ahead
      /\ \A e \in ahead, f \in batch' : e < f => e \in batch'
  BY <1>1, <1>2, FirstRows
<1>4. BatchWhole' /\ batch' \subseteq made
  BY <1>1, <1>3, HubNumbers DEF BatchWhole
<1>5. TypeOK'
  BY <1>1, <1>4 DEF TypeOK
<1>6. Unheard' = Unheard
  BY <1>1 DEF Unheard
<1>7. Numbered' /\ PhasesFit' /\ PrunedFirst' /\ QueueRises' /\ FillRises'
  BY <1>1 DEF Numbered, PhasesFit, PrunedFirst, QueueRises, FillRises, Resync
<1>8. AskedAgain' /\ ProbedKept' /\ FillWhole' /\ QueueWhole'
  BY <1>1, <1>6 DEF AskedAgain, ProbedKept, FillWhole, QueueWhole, Resyncing
<1>9. GapsAreNamed'
  BY <1>1 DEF GapsAreNamed, OnItsWay, Registered, Resyncing
<1> QED BY <1>4, <1>5, <1>7, <1>8, <1>9

\* A poller that starts anew passes rows that only a backfill may still bring.
LEMMA SeedKeeps == HubInv /\ Seed => HubInv'
<1> SUFFICES ASSUME HubInv, Seed PROVE HubInv'
  OBVIOUS
<1> USE DEF HubInv
<1>1. /\ cursor = NoCursor /\ cursor' = Max(outbox \union {0})
      /\ gaps' = IF conn \in {"filled", "streaming", "yielded"}
                 THEN gaps \union Unqueued({e \in outbox : Row(e) \notin ToSet(fill)}) ELSE gaps
      /\ UNCHANGED <<next, open, outbox, mine, made, batch, conn, fill, queue, dropped, lastId,
                     known, faults>>
  BY DEF Seed, dbVars, connVars, tabVars
<1>2. cursor' \in outbox \union {0} /\ \A e \in outbox : e <= cursor'
  <2>1. /\ outbox \union {0} \in SUBSET Nat /\ outbox \union {0} # {} /\ MaxId \in Nat
        /\ \A e \in outbox \union {0} : e <= MaxId
    BY HubNumbers, HubAssumption DEF Ids
  <2> QED BY <1>1, <2>1, GreatestOf
<1>3. batch = {} /\ DOMAIN queue = {}
  <2>1. \A i \in DOMAIN queue : queue[i] \in Ids
    BY HubNumbers, ElementOfSeq, LenProperties DEF TypeOK
  <2>2. \A i \in DOMAIN queue : queue[i] \in Nat /\ queue[i] <= -1
    BY <1>1, <2>1, HubNumbers DEF QueueRises, NoCursor
  <2>3. ASSUME NEW i \in DOMAIN queue
        PROVE  FALSE
    <3>1. queue[i] \in Nat /\ queue[i] <= -1
      BY <2>2
    <3> QED BY <3>1
  <2> QED BY <1>1, <2>3 DEF BatchWhole
<1>4. ToSet(queue) = {}
  BY <1>3 DEF ToSet
<1>5. gaps \subseteq gaps' /\ gaps' \subseteq made /\ Unheard' \subseteq Unheard
  BY <1>1, HubNumbers DEF Unheard, Unqueued, Untold
<1>6. ASSUME NEW e \in Unheard', e \in outbox, conn \in {"filled", "streaming", "yielded"}
      PROVE  Row(e) \in ToSet(fill)
  <2>1. e \in mine \ known /\ e \notin gaps'
    BY <1>1 DEF Unheard
  <2> QED BY <1>1, <1>4, <1>6, <2>1 DEF Unqueued, Untold
<1>7. TypeOK' /\ Numbered'
  <2>1. cursor' \in 0..MaxId
    BY <1>2, HubNumbers, HubAssumption DEF Ids
  <2> QED BY <1>1, <1>2, <1>5, <2>1, HubNumbers DEF TypeOK, Numbered
<1>8. PhasesFit' /\ PrunedFirst' /\ FillRises' /\ BatchWhole' /\ QueueRises'
  BY <1>1, <1>3 DEF PhasesFit, PrunedFirst, FillRises, Resync, BatchWhole, QueueRises
<1>9. AskedAgain' /\ ProbedKept' /\ QueueWhole'
  BY <1>1, <1>3, <1>5 DEF AskedAgain, ProbedKept, QueueWhole, Resyncing
<1>10. FillWhole'
  BY <1>1, <1>5 DEF FillWhole, Resyncing
<1>11. GapsAreNamed'
  <2> SUFFICES ASSUME NEW e \in Unheard', lastId > 0
               PROVE  OnItsWay(e)'
    BY <1>1 DEF GapsAreNamed, Unheard
  <2>1. OnItsWay(e) /\ e \in Unheard
    BY <1>5 DEF GapsAreNamed, Unheard
  <2>2. /\ ~dropped => e > lastId
        /\ conn = "probed" /\ ~Resyncing /\ ~dropped => e \in outbox
    BY <2>1 DEF AskedAgain, ProbedKept
  <2> QED BY <1>1, <1>6, <2>1, <2>2 DEF OnItsWay, Registered, Resyncing, TypeOK
<1> QED BY <1>7, <1>8, <1>9, <1>10, <1>11

\* What a poll has read is queued, or a resync is owed for it; what it has not
\* read is ahead of the cursor, or was overtaken.
LEMMA DispatchKeeps == HubInv /\ Dispatch => HubInv'
<1> SUFFICES ASSUME HubInv, Dispatch PROVE HubInv'
  OBVIOUS
<1> USE DEF HubInv
<1> DEFINE ids == batch \cap mine
<1>1. /\ batch # {} /\ cursor' = Max(batch \union {cursor}) /\ batch' = {}
      /\ Registered => /\ queue' = Kept(ids)
                       /\ dropped' = (dropped \/ Len(Offered(ids)) > QueueSize)
      /\ ~Registered => UNCHANGED <<queue, dropped>>
      /\ UNCHANGED <<next, open, outbox, mine, made, conn, fill, lastId, known, gaps, faults>>
  BY DEF Dispatch, dbVars, tabVars
<1>2. /\ cursor' \in batch /\ cursor < cursor' /\ \A b \in batch : b <= cursor' /\ cursor < b
      /\ cursor \in Nat
  <2>1. cursor \in Nat /\ \A b \in batch : cursor < b /\ b \in Nat
    BY <1>1, HubNumbers DEF BatchWhole, TypeOK, NoCursor
  <2>2. /\ batch \union {cursor} \in SUBSET Nat /\ batch \union {cursor} # {} /\ MaxId \in Nat
        /\ \A e \in batch \union {cursor} : e <= MaxId
    BY <1>1, <2>1, HubNumbers, HubAssumption DEF Ids, TypeOK, NoCursor
  <2>3. Max(batch \union {cursor}) \in batch \union {cursor}
        /\ \A e \in batch \union {cursor} : e <= Max(batch \union {cursor})
    BY <2>2, GreatestOf
  <2>4. PICK b \in batch : cursor < b
    BY <1>1, <2>1
  <2>5. cursor' \in batch \union {cursor} /\ \A e \in batch \union {cursor} : e <= cursor'
    BY <1>1, <2>3
  <2>6. cursor' \in Nat /\ b <= cursor' /\ b \in Nat
    BY <2>1, <2>5
  <2>7. cursor < cursor' /\ cursor' # cursor
    BY <2>1, <2>4, <2>6
  <2> QED BY <2>1, <2>5, <2>7
<1>3. /\ ids \in SUBSET made
      /\ \A i \in DOMAIN queue, e \in ids : queue[i] < e
  <2>1. \A i \in DOMAIN queue : queue[i] \in Int /\ queue[i] <= cursor
    BY HubNumbers, ElementOfSeq, LenProperties DEF TypeOK, QueueRises
  <2>2. \A e \in ids : e \in Int /\ e \in made
    BY HubNumbers
  <2> QED BY <1>2, <2>1, <2>2
<1>4. /\ Kept(ids) \in Seq(made) /\ Len(Kept(ids)) <= QueueSize
      /\ \A i, j \in DOMAIN Kept(ids) : i < j => Kept(ids)[i] < Kept(ids)[j]
      /\ \A k \in DOMAIN Kept(ids) :
            Kept(ids)[k] \in ids \/ \E i \in DOMAIN queue : Kept(ids)[k] = queue[i]
      /\ ~(Len(Offered(ids)) > QueueSize) => ToSet(queue) \union ids \subseteq ToSet(Kept(ids))
  BY <1>3, KeptRows
<1>5. Unheard' = Unheard
  BY <1>1 DEF Unheard
<1>6. /\ dropped => dropped' /\ dropped' \in BOOLEAN
      /\ ToSet(queue) \subseteq ToSet(queue') \/ dropped'
      /\ Registered => ids \subseteq ToSet(queue') \/ dropped'
  <2>1. CASE Registered
    BY <1>1, <1>4, <2>1 DEF TypeOK
  <2>2. CASE ~Registered
    BY <1>1, <2>2 DEF TypeOK
  <2> QED BY <2>1, <2>2
<1>7. \A e \in Unheard : e \in outbox /\ e > cursor => e > cursor' \/ e \in ids
  <2> SUFFICES ASSUME NEW e \in Unheard, e \in outbox, e > cursor, ~(e > cursor')
               PROVE  e \in batch /\ e \in mine
    OBVIOUS
  <2>1. e \in mine /\ e \notin gaps /\ e \in Int /\ cursor' \in Int
    BY <1>2, HubNumbers DEF Unheard
  <2> QED BY <1>2, <2>1 DEF BatchWhole
<1>8. TypeOK' /\ Numbered'
  <2>1. queue' \in Seq(made) /\ Len(queue') <= QueueSize /\ dropped' \in BOOLEAN
    BY <1>1, <1>4 DEF TypeOK
  <2>2. cursor' \in 0..MaxId /\ cursor' \in made
    BY <1>2, HubNumbers, HubAssumption DEF Ids
  <2> QED BY <1>1, <2>1, <2>2 DEF TypeOK, Numbered
<1>9. PhasesFit' /\ PrunedFirst' /\ FillRises' /\ BatchWhole'
  BY <1>1 DEF PhasesFit, PrunedFirst, FillRises, Resync, BatchWhole, Registered
<1>10. QueueRises'
  <2>1. \A i \in DOMAIN queue : queue[i] <= cursor'
    BY <1>2, HubNumbers, ElementOfSeq, LenProperties DEF TypeOK, QueueRises
  <2>2. CASE Registered
    BY <1>1, <1>2, <1>4, <2>1, <2>2 DEF QueueRises
  <2>3. CASE ~Registered
    BY <1>1, <2>1, <2>3 DEF QueueRises
  <2> QED BY <2>2, <2>3
<1>11. AskedAgain' /\ ProbedKept' /\ FillWhole'
  BY <1>1, <1>5, <1>6 DEF AskedAgain, ProbedKept, FillWhole, Resyncing
<1>12. QueueWhole'
  <2> SUFFICES ASSUME lastId = 0, NEW i \in DOMAIN queue', NEW e \in Unheard, e > queue'[i],
                      ~dropped'
               PROVE  e \in ToSet(queue') \/ (e \in outbox /\ e > cursor')
    BY <1>1, <1>5 DEF QueueWhole
  <2>1. Registered
    BY <1>1 DEF Registered, PhasesFit
  <2>2. e \in outbox /\ e > cursor => e \in ToSet(queue') \/ (e \in outbox /\ e > cursor')
    BY <1>6, <1>7, <2>1
  <2>3. CASE queue'[i] \in ids
    <3>1. queue'[i] \in batch /\ e \in made /\ e \in Int /\ queue'[i] \in Int
      BY <2>3, HubNumbers
    <3>2. e \in outbox
      BY <3>1, HubNumbers DEF PrunedFirst
    <3> QED BY <1>2, <2>2, <3>1, <3>2
  <2>4. CASE \E k \in DOMAIN queue : queue'[i] = queue[k]
    BY <1>1, <1>6, <2>2, <2>4 DEF QueueWhole
  <2> QED BY <1>1, <1>4, <2>1, <2>3, <2>4
<1>13. GapsAreNamed'
  <2> SUFFICES ASSUME NEW e \in Unheard, lastId > 0
               PROVE  OnItsWay(e)'
    BY <1>1 DEF GapsAreNamed, Unheard
  <2>1. OnItsWay(e)
    BY DEF GapsAreNamed, Unheard
  <2>2. Registered /\ e \in outbox /\ e > cursor
        => e \in ToSet(queue') \/ dropped' \/ (e \in outbox' /\ e > cursor')
    BY <1>1, <1>6, <1>7
  <2> QED BY <1>1, <1>6, <2>1, <2>2 DEF OnItsWay, Registered, Resyncing
<1> QED BY <1>8, <1>9, <1>10, <1>11, <1>12, <1>13

-------------------------------------------------------------------------------
(* The connection's steps.                                                     *)

LEMMA ConnectKeeps == HubInv /\ (Connect \/ Filled) => HubInv'
<1> SUFFICES ASSUME HubInv, Connect \/ Filled PROVE HubInv'
  OBVIOUS
<1> USE DEF HubInv
<1>1. /\ \/ conn = "away" /\ conn' = IF lastId = 0 THEN "streaming" ELSE "attached"
         \/ conn = "filled" /\ conn' = "streaming"
      /\ UNCHANGED <<next, open, outbox, mine, made, cursor, batch, fill, queue, dropped, lastId,
                     known, gaps, faults>>
  BY DEF Connect, Filled, dbVars, hubVars, tabVars
<1>2. Unheard' = Unheard
  BY <1>1 DEF Unheard
<1>3. TypeOK' /\ Numbered' /\ PrunedFirst' /\ BatchWhole' /\ QueueRises' /\ FillRises'
  BY <1>1 DEF TypeOK, Numbered, PrunedFirst, BatchWhole, QueueRises, FillRises
<1>4. PhasesFit'
  BY <1>1 DEF PhasesFit, Resync
<1>5. AskedAgain' /\ ProbedKept' /\ FillWhole' /\ QueueWhole'
  BY <1>1, <1>2 DEF AskedAgain, ProbedKept, FillWhole, QueueWhole, Resyncing
<1>6. GapsAreNamed'
  <2> SUFFICES ASSUME NEW e \in Unheard, lastId > 0
               PROVE  OnItsWay(e)'
    BY <1>1 DEF GapsAreNamed, Unheard
  <2>1. OnItsWay(e) /\ (~dropped => e > lastId)
    BY DEF GapsAreNamed, Unheard, AskedAgain
  <2> QED BY <1>1, <2>1 DEF OnItsWay, Registered, Resyncing, PhasesFit
<1> QED BY <1>3, <1>4, <1>5, <1>6

\* Rows after the last id that are gone are told by a resync, or are gaps.
LEMMA ProbeKeeps == HubInv /\ Probe => HubInv'
<1> SUFFICES ASSUME HubInv, Probe PROVE HubInv'
  OBVIOUS
<1> USE DEF HubInv
<1>1. /\ conn = "attached" /\ conn' = "probed" /\ fill = <<>>
      /\ fill' \in {<<>>, <<Resync>>} /\ gaps' \in {gaps, gaps \union Untold(Pruned)}
      /\ \/ gaps' = gaps \union Untold(Pruned)
         \/ outbox # {} /\ Behind /\ fill' = <<Resync>>
         \/ outbox # {} /\ ~Behind
      /\ faults' \in 0..MaxFaults
      /\ UNCHANGED <<next, open, outbox, mine, made, cursor, batch, queue, dropped, lastId, known>>
  BY HubAssumption DEF Probe, dbVars, hubVars, tabVars, PhasesFit, TypeOK
<1>2. lastId \in made /\ lastId > 0 /\ Resync \in Frames /\ Resync.id = lastId /\ Resync.resync
  BY <1>1, HubNumbers DEF PhasesFit, Numbered, Resync, Frames, TypeOK
<1>3. gaps \subseteq gaps' /\ gaps' \subseteq made /\ Unheard' \subseteq Unheard
  BY <1>1, HubNumbers DEF Unheard, Untold, Pruned
<1>4. TypeOK' /\ Numbered'
  <2>1. fill' \in Seq(Frames) /\ Len(fill') <= Page + 1
    <3>1. <<Resync>> \in Seq(Frames) /\ Len(<<Resync>>) = 1
      BY <1>2
    <3>2. <<>> \in Seq(Frames) /\ Len(<<>>) = 0
      OBVIOUS
    <3>3. fill' \in Seq(Frames) /\ (Len(fill') = 0 \/ Len(fill') = 1)
      <4>1. CASE fill' = <<>>
        BY <3>2, <4>1
      <4>2. CASE fill' = <<Resync>>
        BY <3>1, <4>2
      <4> QED BY <1>1, <4>1, <4>2
    <3>4. Page \in Nat
      BY HubAssumption
    <3> QED BY <3>3, <3>4
  <2> QED BY <1>1, <1>3, <2>1 DEF TypeOK, Numbered
<1>5. PhasesFit' /\ PrunedFirst' /\ QueueRises'
  BY <1>1, <1>2 DEF PhasesFit, PrunedFirst, QueueRises, Resync
<1>6. BatchWhole'
  BY <1>1, <1>3 DEF BatchWhole
<1>7. FillRises'
  BY <1>1, <1>2 DEF FillRises
<1>8. Resyncing' <=> fill' = <<Resync>>
  BY <1>1, <1>2 DEF Resyncing
<1>9. AskedAgain' /\ FillWhole' /\ QueueWhole'
  BY <1>1, <1>2, <1>3, <1>8 DEF AskedAgain, FillWhole, QueueWhole
<1>10. ProbedKept'
  <2> SUFFICES ASSUME ~Resyncing', ~dropped, NEW e \in Unheard', e \notin outbox
               PROVE  FALSE
    BY <1>1 DEF ProbedKept
  <2>1. e \in Unheard /\ e > lastId /\ e \in made \cap mine /\ e \notin known /\ e \notin gaps'
    BY <1>1, <1>2, <1>3 DEF AskedAgain, Unheard
  <2>2. outbox # {} /\ ~Behind
    BY <1>1, <1>8, <2>1 DEF Untold, Pruned
  <2>3. Min(outbox) \in outbox /\ Min(outbox) <= lastId + 1
    <3>1. outbox \in SUBSET Nat
      BY HubNumbers
    <3>2. Min(outbox) \in outbox /\ Min(outbox) \in Nat
      BY <2>2, <3>1, LeastOf
    <3> QED BY <2>2, <3>2, HubNumbers DEF Behind
  <2>4. e < Min(outbox) /\ e \in Nat /\ Min(outbox) \in Nat
    BY <2>1, <2>3, HubNumbers DEF PrunedFirst
  <2> QED BY <2>1, <2>3, <2>4, HubNumbers
<1>11. GapsAreNamed'
  <2> SUFFICES ASSUME NEW e \in Unheard'
               PROVE  OnItsWay(e)'
    BY DEF GapsAreNamed, Unheard
  <2>1. ~dropped => e > lastId
    BY <1>2, <1>3 DEF AskedAgain
  <2>2. ~Resyncing' /\ ~dropped' => e \in outbox'
    BY <1>1, <1>10 DEF ProbedKept
  <2> QED BY <1>1, <2>1, <2>2 DEF OnItsWay
<1> QED BY <1>4, <1>5, <1>6, <1>7, <1>9, <1>10, <1>11

\* The frames of a backfill come after the resync, if there is one, in order.
LEMMA BackfillFrames ==
    ASSUME HubInv, NEW F \in SUBSET made, Cardinality(F) <= Page, conn = "probed",
           \A e \in F : e > lastId,
           fill' = fill \o [i \in DOMAIN InOrder(F) |-> Row(InOrder(F)[i])]
    PROVE  /\ fill' \in Seq(Frames) /\ Len(fill') <= Page + 1
           /\ \A i, j \in DOMAIN fill' : i < j => fill'[i].id < fill'[j].id
           /\ \A i \in DOMAIN fill' : /\ fill'[i].id \in made
                                      /\ fill'[i].resync => i = 1 /\ fill'[i].id = lastId
                                      /\ fill'[i].id \in F \/ i \in DOMAIN fill
           /\ \A e \in F : Row(e) \in ToSet(fill')
           /\ \A i \in DOMAIN fill : i \in DOMAIN fill' /\ fill'[i] = fill[i]
<1> DEFINE o == InOrder(F)
           rows == [i \in DOMAIN o |-> Row(o[i])]
<1> USE DEF HubInv
<1>1. /\ F \in SUBSET Ids /\ \A e \in made : e \in Int /\ e \in 0..MaxId
      /\ Page \in Nat /\ lastId \in Int
  BY HubNumbers, HubAssumption DEF Ids
<1>2. /\ o \in Seq(F) /\ Len(o) = Cardinality(F)
      /\ \A i, j \in DOMAIN o : i < j => o[i] < o[j]
      /\ \A e \in F : \E i \in DOMAIN o : o[i] = e
  BY <1>1, RowsInOrder
<1> HIDE DEF o
<1>3. DOMAIN o = 1..Len(o) /\ Len(o) \in Nat /\ \A i \in 1..Len(o) : o[i] \in F
  BY <1>2, LenProperties, ElementOfSeq
<1>4. /\ rows \in Seq(Frames) /\ Len(rows) = Len(o)
      /\ \A i \in 1..Len(o) : rows[i] = Row(o[i]) /\ rows[i].id = o[i] /\ ~rows[i].resync
  <2>1. \A i \in 1..Len(o) : Row(o[i]) \in Frames
    BY <1>1, <1>3 DEF Row, Frames
  <2> QED BY <1>3, <2>1 DEF Row
<1> HIDE DEF rows
<1>5. /\ fill \in Seq(Frames) /\ Len(fill) \in 0..1
      /\ DOMAIN fill = 1..Len(fill)
      /\ \A i \in 1..Len(fill) : fill[i].id \in made /\ i = 1
                                 /\ fill[i].id = lastId
  BY DEF PhasesFit, TypeOK, FillRises, Resync
<1>6. /\ fill' \in Seq(Frames) /\ Len(fill') = Len(fill) + Len(o)
      /\ DOMAIN fill' = 1..Len(fill')
      /\ \A i \in 1..Len(fill') :
            fill'[i] = IF i <= Len(fill) THEN fill[i] ELSE rows[i - Len(fill)]
  BY <1>4, <1>5, ConcatProperties, LenProperties DEF rows, o
<1>7. \A i \in 1..Len(fill') :
         \/ i \in DOMAIN fill /\ fill'[i] = fill[i]
         \/ /\ i - Len(fill) \in 1..Len(o) /\ fill'[i] = Row(o[i - Len(fill)])
            /\ fill'[i].id = o[i - Len(fill)] /\ ~fill'[i].resync
            /\ o[i - Len(fill)] \in F
  <2> SUFFICES ASSUME NEW i \in 1..Len(fill'), ~(i <= Len(fill))
               PROVE  /\ i - Len(fill) \in 1..Len(o) /\ fill'[i] = Row(o[i - Len(fill)])
                      /\ fill'[i].id = o[i - Len(fill)] /\ ~fill'[i].resync
                      /\ o[i - Len(fill)] \in F
    BY <1>5, <1>6
  <2>1. i - Len(fill) \in 1..Len(o)
    BY <1>3, <1>5, <1>6
  <2> QED BY <1>3, <1>4, <1>6, <2>1
<1>8. \A i, j \in 1..Len(fill') : i < j => fill'[i].id < fill'[j].id
  <2> SUFFICES ASSUME NEW i \in 1..Len(fill'), NEW j \in 1..Len(fill'), i < j
               PROVE  fill'[i].id < fill'[j].id
    OBVIOUS
  <2>1. /\ j - Len(fill) \in 1..Len(o) /\ fill'[j].id = o[j - Len(fill)]
        /\ o[j - Len(fill)] \in F
    BY <1>5, <1>7
  <2>2. CASE i \in DOMAIN fill
    BY <1>1, <1>5, <1>7, <2>1, <2>2
  <2>3. CASE i \notin DOMAIN fill
    <3>1. i - Len(fill) \in 1..Len(o) /\ fill'[i].id = o[i - Len(fill)]
      BY <1>7, <2>3
    <3>2. i - Len(fill) < j - Len(fill)
      BY <1>5, <1>6
    <3> QED BY <1>2, <1>3, <2>1, <3>1, <3>2
  <2> QED BY <2>2, <2>3
<1>9. \A e \in F : Row(e) \in ToSet(fill')
  <2> SUFFICES ASSUME NEW e \in F PROVE \E i \in 1..Len(fill') : fill'[i] = Row(e)
    BY <1>6 DEF ToSet
  <2>1. PICK i \in 1..Len(o) : o[i] = e
    BY <1>2, <1>3
  <2>2. i + Len(fill) \in 1..Len(fill') /\ ~(i + Len(fill) <= Len(fill))
        /\ (i + Len(fill)) - Len(fill) = i
    BY <1>3, <1>5, <1>6
  <2>3. fill'[i + Len(fill)] = rows[i]
    BY <1>6, <2>2
  <2> QED BY <1>4, <2>1, <2>2, <2>3
<1>10. Len(fill') <= Page + 1
  BY <1>1, <1>2, <1>3, <1>5, <1>6
<1>11. \A i \in DOMAIN fill : i \in DOMAIN fill' /\ fill'[i] = fill[i]
  BY <1>3, <1>5, <1>6
<1>12. ASSUME NEW i \in 1..Len(fill')
       PROVE  /\ fill'[i].id \in made
              /\ fill'[i].resync => i = 1 /\ fill'[i].id = lastId
              /\ fill'[i].id \in F \/ i \in DOMAIN fill
  <2>1. CASE i \in DOMAIN fill /\ fill'[i] = fill[i]
    BY <1>5, <2>1
  <2>2. CASE fill'[i].id \in F /\ ~fill'[i].resync
    BY <2>2
  <2> QED BY <1>7, <2>1, <2>2
<1>13. fill' \in Seq(Frames) /\ DOMAIN fill' = 1..Len(fill')
  BY <1>6
<1> QED BY <1>8, <1>9, <1>10, <1>11, <1>12, <1>13

\* The rows after the last id are in the backfill up to the page's end, and what
\* is left out is still ahead of the cursor, queued or a gap.
LEMMA BackfillKeeps == HubInv /\ Backfill => HubInv'
<1> SUFFICES ASSUME HubInv, Backfill PROVE HubInv'
  OBVIOUS
<1> USE DEF HubInv
<1> DEFINE rows == {e \in outbox \cap mine : e > lastId}
           missed(F) == Unqueued({e \in rows \ F : e <= cursor})
           Read(F) == fill \o [i \in DOMAIN InOrder(F) |-> Row(InOrder(F)[i])]
<1>1. /\ conn = "probed" /\ conn' = "filled"
      /\ \/ /\ fill' = Read(FirstOf(rows, Page))
            /\ gaps' = gaps \union (IF Resyncing THEN {} ELSE missed(FirstOf(rows, Page)))
         \/ fill' = fill /\ gaps' = gaps \union (IF Resyncing THEN {} ELSE missed({}))
      /\ faults' \in 0..MaxFaults
      /\ UNCHANGED <<next, open, outbox, mine, made, cursor, batch, queue, dropped, lastId, known>>
  <2> DEFINE Skipped(ids) == IF Resyncing THEN {} ELSE Unqueued({e \in ids : e <= cursor})
  <2>1. /\ conn = "probed" /\ conn' = "filled"
        /\ \/ /\ fill' = Read(FirstOf(rows, Page))
              /\ gaps' = gaps \union Skipped(rows \ FirstOf(rows, Page))
              /\ UNCHANGED faults
           \/ /\ faults > 0 /\ faults' = faults - 1
              /\ gaps' = gaps \union Skipped(rows)
              /\ UNCHANGED fill
        /\ UNCHANGED <<dbVars, hubVars, queue, dropped, tabVars>>
    BY DEF Backfill
  <2>2. UNCHANGED <<next, open, outbox, mine, made, cursor, batch, queue, dropped, lastId, known>>
    BY <2>1 DEF dbVars, hubVars, tabVars
  <2>3. faults' \in 0..MaxFaults
    BY <2>1, HubAssumption DEF TypeOK
  <2>4. rows = rows \ {}
    OBVIOUS
  <2>5. Skipped(rows) = IF Resyncing THEN {} ELSE missed({})
    BY <2>4
  <2>6. Skipped(rows \ FirstOf(rows, Page)) = IF Resyncing THEN {} ELSE missed(FirstOf(rows, Page))
    OBVIOUS
  <2> HIDE DEF Skipped, missed, Read, rows
  <2> QED BY <2>1, <2>2, <2>3, <2>5, <2>6
<1>2. lastId > 0 /\ lastId \in made /\ rows \in SUBSET Ids /\ Page \in Nat
  BY <1>1, HubNumbers, HubAssumption DEF PhasesFit, Numbered
<1> HIDE DEF Read
<1>3. PICK F \in SUBSET rows :
        /\ fill' = Read(F) \/ (F = {} /\ fill' = fill)
        /\ gaps' = gaps \union (IF Resyncing THEN {} ELSE missed(F))
        /\ Cardinality(F) <= Page
        /\ \A e \in rows, f \in F : e < f => e \in F
  <2>1. /\ FirstOf(rows, Page) \subseteq rows /\ Cardinality(FirstOf(rows, Page)) <= Page
        /\ \A e \in rows, f \in FirstOf(rows, Page) : e < f => e \in FirstOf(rows, Page)
    BY <1>2, FirstRows
  <2>2. Cardinality({}) <= Page
    BY <1>2, FS_EmptySet
  <2>3. CASE fill' = Read(FirstOf(rows, Page))
             /\ gaps' = gaps \union (IF Resyncing THEN {} ELSE missed(FirstOf(rows, Page)))
    BY <2>1, <2>3
  <2>4. CASE fill' = fill /\ gaps' = gaps \union (IF Resyncing THEN {} ELSE missed({}))
    <3>1. {} \in SUBSET rows
      OBVIOUS
    <3> HIDE DEF missed, rows
    <3> QED BY <2>2, <2>4, <3>1
  <2> HIDE DEF missed, rows
  <2> QED BY <1>1, <2>3, <2>4
<1>4. /\ fill' \in Seq(Frames) /\ Len(fill') <= Page + 1
      /\ \A i, j \in DOMAIN fill' : i < j => fill'[i].id < fill'[j].id
      /\ \A i \in DOMAIN fill' : /\ fill'[i].id \in made
                                 /\ fill'[i].resync => i = 1 /\ fill'[i].id = lastId
                                 /\ fill'[i].id \in F \/ i \in DOMAIN fill
      /\ \A e \in F : Row(e) \in ToSet(fill')
      /\ \A i \in DOMAIN fill : i \in DOMAIN fill' /\ fill'[i] = fill[i]
  <2>1. CASE fill' = Read(F)
    <3>1. F \in SUBSET made /\ \A e \in F : e > lastId
      BY HubNumbers
    <3>2. fill' = fill \o [i \in DOMAIN InOrder(F) |-> Row(InOrder(F)[i])]
      BY <2>1 DEF Read
    <3> HIDE DEF rows
    <3> QED BY <1>1, <1>3, <3>1, <3>2, BackfillFrames
  <2>2. CASE F = {} /\ fill' = fill
    BY <2>2 DEF TypeOK, FillRises
  <2> QED BY <1>3, <2>1, <2>2
<1>5. gaps \subseteq gaps' /\ gaps' \subseteq made /\ Unheard' \subseteq Unheard
  BY <1>1, <1>3, HubNumbers DEF Unheard, Unqueued, Untold
<1>6. Resyncing => Resyncing'
  BY <1>4 DEF Resyncing
<1>7. ~Resyncing => fill = <<>>
  <2>1. CASE fill = <<Resync>>
    <3>1. 1 \in DOMAIN fill /\ fill[1].resync
      BY <2>1 DEF Resync
    <3> QED BY <3>1 DEF Resyncing
  <2> QED BY <1>1, <2>1 DEF PhasesFit
<1>8. ASSUME NEW e \in Unheard', ~Resyncing', ~dropped
      PROVE  e \in rows
  <2>1. e \in Unheard /\ e \in mine
    BY <1>1, <1>5 DEF Unheard
  <2> QED BY <1>1, <1>2, <1>6, <1>8, <2>1 DEF AskedAgain, ProbedKept
<1>9. TypeOK' /\ Numbered'
  BY <1>1, <1>4, <1>5 DEF TypeOK, Numbered
<1>10. PhasesFit' /\ PrunedFirst' /\ QueueRises' /\ BatchWhole'
  BY <1>1, <1>2, <1>5, HubNumbers DEF PhasesFit, PrunedFirst, QueueRises, BatchWhole
<1>11. FillRises'
  BY <1>1, <1>4 DEF FillRises
<1>12. AskedAgain' /\ ProbedKept' /\ QueueWhole'
  BY <1>1, <1>2, <1>5, HubNumbers DEF AskedAgain, ProbedKept, QueueWhole
<1>13. FillWhole'
  <2> SUFFICES ASSUME ~Resyncing', ~dropped, NEW i \in DOMAIN fill', NEW e \in Unheard',
                      e < fill'[i].id
               PROVE  Row(e) \in ToSet(fill')
    BY <1>1 DEF FillWhole
  <2>1. fill'[i].id \in F
    BY <1>4, <1>6, <1>7
  <2> QED BY <1>3, <1>4, <1>8, <2>1
<1>14. GapsAreNamed'
  <2> SUFFICES ASSUME NEW e \in Unheard', ~Resyncing', ~dropped, Row(e) \notin ToSet(fill'),
                      e \notin ToSet(queue)
               PROVE  e \in outbox /\ e > cursor
    BY <1>1 DEF GapsAreNamed, OnItsWay, Unheard, Registered
  <2>1. e \in rows \ F /\ ~Resyncing
    BY <1>4, <1>6, <1>8
  <2>2. e \notin missed(F) /\ e \in mine \ known
    BY <1>1, <1>3, <2>1 DEF Unheard
  <2>3. ~(e <= cursor)
    BY <2>1, <2>2 DEF Unqueued, Untold
  <2> QED BY <2>1, <2>3, HubNumbers
<1> QED BY <1>9, <1>10, <1>11, <1>12, <1>13, <1>14

\* A frame of the backfill: a resync tells everything, and a row comes when
\* nothing before it is missing.
LEMMA YieldFillKeeps == HubInv /\ YieldFill => HubInv'
<1> SUFFICES ASSUME HubInv, YieldFill PROVE HubInv'
  OBVIOUS
<1> USE DEF HubInv
<1> DEFINE f == Head(fill)
<1>1. /\ conn = "streaming" /\ fill # <<>> /\ fill' = Tail(fill)
      /\ UNCHANGED <<next, open, outbox, mine, made, cursor, batch, conn, queue, dropped, faults>>
      /\ lastId' = f.id /\ known' = known \union (IF f.resync THEN made ELSE {f.id})
      /\ gaps' = IF lastId = 0 THEN gaps \union {e \in made : e < f.id} ELSE gaps
  BY DEF YieldFill, Receive, dbVars, hubVars
<1>2. lastId > 0 /\ gaps' = gaps
  BY <1>1, HubNumbers DEF PhasesFit
<1>3. /\ fill' \in Seq(Frames) /\ Len(fill') = Len(fill) - 1 /\ Len(fill) \in Nat
      /\ DOMAIN fill = 1..Len(fill) /\ DOMAIN fill' = 1..Len(fill')
      /\ 1 \in DOMAIN fill /\ f = fill[1]
      /\ \A i \in 1..Len(fill') : i + 1 \in DOMAIN fill /\ fill'[i] = fill[i + 1]
  BY <1>1, HeadTailProperties, LenProperties, EmptySeq DEF TypeOK
<1>4. f.id \in made /\ f.id \in Nat /\ f.id > 0 /\ f.id <= MaxId
  BY <1>3, HubNumbers, HubAssumption DEF FillRises, Ids
<1> HIDE DEF f
<1>5. known' \subseteq made /\ Unheard' \subseteq Unheard /\ f.id \notin Unheard'
  BY <1>1, <1>2, <1>4, HubNumbers DEF Unheard
<1>6. f.resync => Unheard' = {}
  BY <1>1 DEF Unheard
<1>7. ~f.resync => ~Resyncing /\ ~Resyncing'
  <2>1. ASSUME ~f.resync, NEW i \in DOMAIN fill
        PROVE  ~fill[i].resync
    BY <1>3, <2>1 DEF FillRises
  <2> QED BY <1>3, <2>1 DEF Resyncing
<1>8. \A e : e \in ToSet(fill) => e = f \/ e \in ToSet(fill')
  <2> SUFFICES ASSUME NEW i \in DOMAIN fill, i # 1
               PROVE  i - 1 \in DOMAIN fill' /\ fill'[i - 1] = fill[i]
    BY <1>3 DEF ToSet
  <2> QED BY <1>3
<1>9. ASSUME NEW e \in Unheard', ~dropped
      PROVE  e > lastId'
  <2>1. ~f.resync /\ ~Resyncing /\ e \in Unheard /\ e # f.id
    BY <1>5, <1>6, <1>7, <1>9
  <2>2. ASSUME e < f.id
        PROVE  FALSE
    <3>1. Row(e) \in ToSet(fill)
      BY <1>3, <1>9, <2>1, <2>2 DEF FillWhole
    <3>2. PICK i \in DOMAIN fill : fill[i] = Row(e)
      BY <3>1 DEF ToSet
    <3>3. fill[i].id = e /\ i # 1
      BY <1>3, <2>1, <3>2 DEF Row
    <3>4. f.id < e
      BY <1>3, <3>3 DEF FillRises
    <3> QED BY <1>4, <2>1, <2>2, <3>4, HubNumbers
  <2> QED BY <1>1, <1>4, <2>1, <2>2, HubNumbers
<1>10. TypeOK' /\ Numbered'
  <2>1. lastId' \in 0..MaxId /\ lastId' \in made /\ Len(fill') <= Page + 1
    BY <1>1, <1>3, <1>4, HubAssumption DEF TypeOK
  <2> QED BY <1>1, <1>2, <1>3, <1>5, <2>1 DEF TypeOK, Numbered
<1>11. PhasesFit' /\ PrunedFirst' /\ QueueRises'
  BY <1>1, <1>4 DEF PhasesFit, PrunedFirst, QueueRises
<1>12. BatchWhole'
  BY <1>1, <1>2 DEF BatchWhole
<1>13. FillRises'
  <2>1. ASSUME NEW i \in DOMAIN fill', NEW j \in DOMAIN fill', i < j
        PROVE  fill'[i].id < fill'[j].id
    <3>1. i + 1 \in DOMAIN fill /\ j + 1 \in DOMAIN fill /\ i + 1 < j + 1
      BY <1>3, <2>1
    <3> QED BY <1>3, <3>1 DEF FillRises
  <2>2. \A i \in DOMAIN fill' : fill'[i].id \in made /\ ~fill'[i].resync
    BY <1>3 DEF FillRises
  <2> QED BY <1>1, <2>1, <2>2 DEF FillRises
<1>14. AskedAgain' /\ ProbedKept' /\ QueueWhole'
  BY <1>1, <1>4, <1>9 DEF AskedAgain, ProbedKept, QueueWhole
<1>15. FillWhole'
  <2> SUFFICES ASSUME ~dropped, NEW i \in DOMAIN fill', NEW e \in Unheard', e < fill'[i].id
               PROVE  Row(e) \in ToSet(fill')
    BY <1>1 DEF FillWhole
  <2>1. ~f.resync /\ ~Resyncing /\ e \in Unheard /\ e # f.id
    BY <1>5, <1>6, <1>7
  <2>2. Row(e) \in ToSet(fill)
    BY <1>3, <2>1 DEF FillWhole
  <2>3. Row(e) # f
    BY <2>1 DEF Row
  <2> QED BY <1>8, <2>2, <2>3
<1>16. GapsAreNamed'
  <2> SUFFICES ASSUME NEW e \in Unheard'
               PROVE  OnItsWay(e)'
    BY <1>1 DEF GapsAreNamed, Unheard
  <2>1. ~f.resync /\ ~Resyncing /\ e \in Unheard /\ e # f.id
    BY <1>5, <1>6, <1>7
  <2>2. OnItsWay(e)
    BY <1>2, <2>1 DEF GapsAreNamed, Unheard
  <2>3. Row(e) # f
    BY <2>1 DEF Row
  <2> QED BY <1>1, <1>8, <2>1, <2>2, <2>3 DEF OnItsWay, Registered
<1> QED BY <1>10, <1>11, <1>12, <1>13, <1>14, <1>15, <1>16

\* The head of the queue comes when what is missing before it is a gap, or a
\* resync is owed.
LEMMA YieldKeeps == HubInv /\ Yield => HubInv'
<1> SUFFICES ASSUME HubInv, Yield PROVE HubInv'
  OBVIOUS
<1> USE DEF HubInv
<1> DEFINE h == Head(queue)
<1>1. /\ conn = "streaming" /\ fill = <<>> /\ queue # <<>> /\ queue' = Tail(queue)
      /\ conn' = "yielded"
      /\ UNCHANGED <<next, open, outbox, mine, made, cursor, batch, fill, dropped, faults>>
      /\ lastId' = h /\ known' = known \union {h}
      /\ gaps' = IF lastId = 0 THEN gaps \union {e \in made : e < h} ELSE gaps
  BY DEF Yield, Receive, Row, dbVars, hubVars
<1>2. /\ queue' \in Seq(made) /\ Len(queue') = Len(queue) - 1 /\ Len(queue) \in Nat
      /\ DOMAIN queue = 1..Len(queue) /\ DOMAIN queue' = 1..Len(queue')
      /\ 1 \in DOMAIN queue /\ h = queue[1]
      /\ \A i \in 1..Len(queue') : i + 1 \in DOMAIN queue /\ queue'[i] = queue[i + 1]
  BY <1>1, HeadTailProperties, LenProperties, EmptySeq DEF TypeOK
<1>3. h \in made /\ h \in Nat /\ h > 0 /\ h <= MaxId /\ h <= cursor
  <2>1. h \in made /\ h <= cursor
    BY <1>2, ElementOfSeq DEF TypeOK, QueueRises
  <2> QED BY <2>1, HubNumbers, HubAssumption DEF Ids
<1> HIDE DEF h
<1>4. /\ known' \subseteq made /\ gaps \subseteq gaps' /\ gaps' \subseteq made
      /\ Unheard' \subseteq Unheard /\ h \notin Unheard'
      /\ lastId = 0 => \A e \in Unheard' : ~(e < h)
  BY <1>1, <1>3, HubNumbers DEF Unheard
<1>5. \A e : e \in ToSet(queue) => e = h \/ e \in ToSet(queue')
  <2> SUFFICES ASSUME NEW i \in DOMAIN queue, i # 1
               PROVE  i - 1 \in DOMAIN queue' /\ queue'[i - 1] = queue[i]
    BY <1>2 DEF ToSet
  <2> QED BY <1>2
<1>6. \A e \in ToSet(queue) : e = h \/ e > h
  <2> SUFFICES ASSUME NEW i \in DOMAIN queue, i # 1
               PROVE  queue[i] > h
    BY <1>2 DEF ToSet
  <2>1. queue[i] \in Int /\ 1 < i
    BY <1>2, HubNumbers, ElementOfSeq DEF TypeOK
  <2> QED BY <1>2, <1>3, <2>1 DEF QueueRises
<1>7. ~Resyncing
  BY <1>1 DEF Resyncing
<1>8. ASSUME NEW e \in Unheard', ~dropped
      PROVE  e > h /\ (e \in ToSet(queue') \/ (e \in outbox /\ e > cursor))
  <2>1. e \in Unheard /\ e # h /\ e \in Int
    BY <1>4, HubNumbers
  <2>2. CASE lastId = 0
    <3>1. e > h
      BY <1>3, <1>4, <2>1, <2>2
    <3> QED BY <1>2, <1>5, <1>8, <2>1, <2>2, <3>1 DEF QueueWhole
  <2>3. CASE lastId > 0
    <3>1. e \in ToSet(queue) \/ (e \in outbox /\ e > cursor)
      BY <1>1, <1>7, <1>8, <2>1, <2>3 DEF GapsAreNamed, OnItsWay, Unheard, ToSet
    <3>2. e > cursor => e > h
      BY <1>3, <2>1, HubNumbers
    <3> QED BY <1>5, <1>6, <2>1, <3>1, <3>2
  <2> QED BY <2>2, <2>3, HubNumbers
<1>9. TypeOK' /\ Numbered'
  <2>1. lastId' \in 0..MaxId /\ lastId' \in made /\ Len(queue') <= QueueSize
    BY <1>1, <1>2, <1>3, HubAssumption DEF TypeOK
  <2> QED BY <1>1, <1>2, <1>4, <2>1 DEF TypeOK, Numbered
<1>10. PhasesFit' /\ PrunedFirst' /\ FillRises'
  <2>1. DOMAIN fill' = {}
    BY <1>1
  <2>2. PhasesFit'
    BY <1>1, <1>3 DEF PhasesFit
  <2> QED BY <1>1, <2>1, <2>2 DEF PrunedFirst, FillRises
<1>11. BatchWhole'
  BY <1>1, <1>4 DEF BatchWhole
<1>12. QueueRises'
  <2>1. ASSUME NEW i \in DOMAIN queue', NEW j \in DOMAIN queue', i < j
        PROVE  queue'[i] < queue'[j]
    <3>1. i + 1 \in DOMAIN queue /\ j + 1 \in DOMAIN queue /\ i + 1 < j + 1
      BY <1>2, <2>1
    <3> QED BY <1>2, <3>1 DEF QueueRises
  <2>2. \A i \in DOMAIN queue' : queue'[i] <= cursor
    BY <1>2 DEF QueueRises
  <2> QED BY <1>1, <2>1, <2>2 DEF QueueRises
<1>13. AskedAgain' /\ ProbedKept' /\ FillWhole' /\ QueueWhole'
  BY <1>1, <1>3, <1>8 DEF AskedAgain, ProbedKept, FillWhole, QueueWhole
<1>14. GapsAreNamed'
  <2> SUFFICES ASSUME NEW e \in Unheard'
               PROVE  OnItsWay(e)'
    BY <1>1 DEF GapsAreNamed, Unheard
  <2> QED BY <1>1, <1>8 DEF OnItsWay, Registered
<1> QED BY <1>9, <1>10, <1>11, <1>12, <1>13, <1>14

\* A resync that is paid tells everything that was committed.
LEMMA SettleKeeps == HubInv /\ Settle => HubInv'
<1> SUFFICES ASSUME HubInv, Settle PROVE HubInv'
  OBVIOUS
<1> USE DEF HubInv
<1>1. /\ conn = "yielded" /\ conn' = "streaming" /\ lastId' = lastId
      /\ UNCHANGED <<next, open, outbox, mine, made, cursor, batch, fill, queue, faults>>
      /\ \/ /\ dropped /\ queue = <<>> /\ dropped' = FALSE /\ known' = known \union made
            /\ gaps' = IF lastId = 0 THEN gaps \union {e \in made : e < lastId} ELSE gaps
         \/ UNCHANGED <<dropped, known, gaps>>
  BY DEF Settle, Receive, Resync, dbVars, hubVars, tabVars
<1>2. lastId > 0 /\ lastId \in Nat
  BY <1>1, HubNumbers DEF PhasesFit
<1>3. /\ gaps' = gaps /\ known' \subseteq made /\ dropped' \in BOOLEAN
      /\ Unheard' = {} \/ (Unheard' = Unheard /\ dropped' = dropped)
  <2>1. gaps' = gaps
    BY <1>1, <1>2
  <2>2. CASE known' = known \union made /\ dropped' = FALSE
    BY <1>1, <2>1, <2>2, HubNumbers DEF Unheard
  <2>3. CASE UNCHANGED <<dropped, known, gaps>>
    BY <1>1, <2>3 DEF Unheard, TypeOK
  <2> QED BY <1>1, <2>1, <2>2, <2>3
<1>4. TypeOK' /\ Numbered' /\ PhasesFit' /\ PrunedFirst' /\ QueueRises' /\ FillRises'
  BY <1>1, <1>2, <1>3 DEF TypeOK, Numbered, PhasesFit, PrunedFirst, QueueRises, FillRises
<1>5. BatchWhole'
  BY <1>1, <1>3 DEF BatchWhole
<1>6. AskedAgain' /\ ProbedKept' /\ FillWhole' /\ QueueWhole'
  BY <1>1, <1>2, <1>3 DEF AskedAgain, ProbedKept, FillWhole, QueueWhole, Resyncing
<1>7. GapsAreNamed'
  <2> SUFFICES ASSUME NEW e \in Unheard'
               PROVE  OnItsWay(e)'
    BY <1>1 DEF GapsAreNamed, Unheard
  <2>1. OnItsWay(e)
    BY <1>2, <1>3 DEF GapsAreNamed, Unheard
  <2> QED BY <1>1, <1>3, <2>1 DEF OnItsWay, Registered, Resyncing
<1> QED BY <1>4, <1>5, <1>6, <1>7

\* A connection that is cut leaves a browser that asks for all it has yet to hear.
LEMMA HangUpKeeps == HubInv /\ (Cut \/ Restart) => HubInv'
<1> SUFFICES ASSUME HubInv, Cut \/ Restart PROVE HubInv'
  OBVIOUS
<1> USE DEF HubInv
<1>1. /\ conn' = "away" /\ fill' = <<>> /\ queue' = <<>> /\ dropped' = FALSE
      /\ gaps' = IF dropped THEN gaps \union {e \in made \cap mine : e \notin known /\ e <= lastId}
                 ELSE gaps
      /\ \/ UNCHANGED <<cursor, batch>>
         \/ cursor' = NoCursor /\ batch' = {}
      /\ faults > 0 /\ faults' = faults - 1
      /\ UNCHANGED <<next, open, outbox, mine, made, lastId, known>>
  BY DEF Cut, Restart, HangUp, dbVars, hubVars, tabVars
<1>2. DOMAIN fill' = {} /\ DOMAIN queue' = {} /\ Len(fill') = 0 /\ Len(queue') = 0
      /\ fill' \in Seq(Frames) /\ queue' \in Seq(made)
  BY <1>1
<1>3. faults' \in 0..MaxFaults /\ Page \in Nat /\ QueueSize \in Nat
  BY <1>1, HubAssumption DEF TypeOK
<1>4. /\ gaps \subseteq gaps' /\ gaps' \subseteq made /\ Unheard' \subseteq Unheard
  BY <1>1, HubNumbers DEF Unheard
<1>5. ASSUME NEW e \in Unheard', lastId > 0
      PROVE  e > lastId
  <2>1. e \in Unheard /\ e \in made \cap mine /\ e \notin known /\ e \notin gaps' /\ e \in Int
        /\ lastId \in Int
    BY <1>1, <1>4, HubNumbers DEF Unheard
  <2>2. CASE dropped
    BY <1>1, <2>1, <2>2
  <2>3. CASE ~dropped
    BY <1>5, <2>1, <2>3 DEF AskedAgain
  <2> QED BY <2>2, <2>3
<1>6. TypeOK' /\ Numbered'
  <2>1. batch' \subseteq made /\ cursor' \in made \union {0, NoCursor}
        /\ cursor' \in 0..MaxId \union {NoCursor}
    BY <1>1 DEF TypeOK, Numbered
  <2>2. known' \subseteq made /\ Len(fill') <= Page + 1 /\ Len(queue') <= QueueSize
    BY <1>1, <1>2, <1>3 DEF TypeOK
  <2> QED BY <1>1, <1>2, <1>3, <1>4, <2>1, <2>2 DEF TypeOK, Numbered
<1>7. PhasesFit' /\ PrunedFirst' /\ QueueRises' /\ FillRises'
  BY <1>1, <1>2 DEF PhasesFit, PrunedFirst, QueueRises, FillRises
<1>8. BatchWhole'
  BY <1>1, <1>4 DEF BatchWhole
<1>9. AskedAgain' /\ ProbedKept' /\ FillWhole' /\ QueueWhole'
  BY <1>1, <1>2, <1>5 DEF AskedAgain, ProbedKept, FillWhole, QueueWhole
<1>10. GapsAreNamed'
  BY <1>1, <1>5 DEF GapsAreNamed, OnItsWay, Unheard
<1> QED BY <1>6, <1>7, <1>8, <1>9, <1>10

-------------------------------------------------------------------------------
(* The theorems.                                                               *)

LEMMA HubStarts == Init => HubInv
<1> SUFFICES ASSUME Init PROVE HubInv
  OBVIOUS
<1>1. Unheard = {} /\ DOMAIN fill = {} /\ DOMAIN queue = {} /\ Len(fill) = 0 /\ Len(queue) = 0
  BY DEF Init, Unheard
<1>2. MaxId \in Nat /\ MaxFaults \in Nat /\ Page \in Nat /\ QueueSize \in Nat
  BY HubAssumption
<1>3. TypeOK /\ Numbered
  <2>1. fill \in Seq(Frames) /\ queue \in Seq(made) /\ Len(fill) <= Page + 1
        /\ Len(queue) <= QueueSize
    BY <1>1, <1>2 DEF Init
  <2>2. next \in 1..(MaxId + 1) /\ faults \in 0..MaxFaults /\ lastId \in 0..MaxId
    BY <1>2 DEF Init
  <2> QED BY <2>1, <2>2 DEF Init, TypeOK, Numbered
<1>4. PhasesFit /\ PrunedFirst /\ BatchWhole /\ QueueRises /\ FillRises
  BY <1>1 DEF Init, PhasesFit, PrunedFirst, BatchWhole, QueueRises, FillRises
<1>5. AskedAgain /\ ProbedKept /\ FillWhole /\ QueueWhole /\ GapsAreNamed
  BY <1>1 DEF Init, AskedAgain, ProbedKept, FillWhole, QueueWhole, GapsAreNamed
<1> QED BY <1>3, <1>4, <1>5 DEF HubInv

LEMMA HubStutters == HubInv /\ UNCHANGED vars => HubInv'
<1> SUFFICES ASSUME HubInv, UNCHANGED vars PROVE HubInv'
  OBVIOUS
<1>1. UNCHANGED <<next, open, outbox, mine, made, cursor, batch, conn, fill, queue, dropped,
                  lastId, known, gaps, faults>>
  BY DEF vars, dbVars, hubVars, connVars, tabVars
<1>2. Unheard' = Unheard /\ (Resyncing' <=> Resyncing) /\ (Registered' <=> Registered)
  BY <1>1 DEF Unheard, Resyncing, Registered
<1>3. TypeOK' /\ Numbered' /\ PhasesFit' /\ PrunedFirst' /\ BatchWhole' /\ QueueRises' /\ FillRises'
  BY <1>1 DEF HubInv, TypeOK, Numbered, PhasesFit, PrunedFirst, BatchWhole, QueueRises, FillRises,
     Resync
<1>4. AskedAgain' /\ ProbedKept' /\ FillWhole' /\ QueueWhole'
  BY <1>1, <1>2 DEF HubInv, AskedAgain, ProbedKept, FillWhole, QueueWhole
<1>5. GapsAreNamed'
  BY <1>1, <1>2 DEF HubInv, GapsAreNamed, OnItsWay
<1> QED BY <1>3, <1>4, <1>5 DEF HubInv

LEMMA HubInductive == HubInv /\ [Next]_vars => HubInv'
<1> SUFFICES ASSUME HubInv, [Next]_vars PROVE HubInv'
  OBVIOUS
<1>1. CASE Database
  BY <1>1, InsertKeeps, CommitKeeps, PruneKeeps DEF Database
<1>2. CASE Hub
  BY <1>2, SeedKeeps, FetchKeeps, DispatchKeeps DEF Hub
<1>3. CASE Connection
  BY <1>3, ConnectKeeps, ProbeKeeps, BackfillKeeps, YieldFillKeeps, YieldKeeps, SettleKeeps,
     HangUpKeeps DEF Connection
<1>4. CASE UNCHANGED vars
  BY <1>4, HubStutters
<1> QED BY <1>1, <1>2, <1>3, <1>4 DEF Next

LEMMA HubHolds == Spec => []HubInv
BY HubStarts, HubInductive, PTL DEF Spec

\* Every variable of the hub, of the connection and of the browser keeps its
\* type (poll_loop, subscribe and _backfill): the queue never exceeds
\* QUEUE_MAXSIZE, and a batch, a backfill and a queue hold committed rows only.
THEOREM HubTypes == Spec => []TypeOK
<1>1. HubInv => TypeOK
  BY DEF HubInv
<1> QED BY <1>1, HubHolds, PTL

\* A browser that has had a frame misses nothing unannounced, whatever the
\* sizes of the queue, of a poll and of a page, and however many connections
\* are cut and processes restarted: what it has not been told of, for no reason
\* named, some frame, resync, backfill or poll is still to announce.
THEOREM GapsNamed == Spec => []GapsAreNamed
<1>1. HubInv => GapsAreNamed
  BY DEF HubInv
<1> QED BY <1>1, HubHolds, PTL
===============================================================================
