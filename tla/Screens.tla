------------------------------- MODULE Screens -------------------------------
(***************************************************************************)
(* The vocabulary in which the browser application's components are told.  *)
(* A component is, to its person, one read of the server (a query key and  *)
(* the entity whose row it shows) and a set of writes.  The code that      *)
(* declares the writes says what an answer does to the cache; the markup   *)
(* says in which shown states each write is offered.  The catalogs         *)
(* (ResidentScreens, AdminScreens, ...) hold one definition for each half. *)
(* Keys are sequences, and an invalidation names a prefix, as in           *)
(* react-query.                                                            *)
(***************************************************************************)
EXTENDS Sequences, SequencesExt, TLC

\* Is this key under one of the invalidated prefixes?
Covers(prefixes, key) == \E p \in prefixes : IsPrefix(p, key)

\* What the answer to a write does to the cache: the prefixes it invalidates,
\* whether the answer itself is written over the shown row, whether an error
\* invalidates as well, and whether the row is changed on screen at once, to
\* be put back on an error.
Tells(prefixes) == [tells |-> prefixes, sets |-> FALSE, onError |-> FALSE,
                    optimistic |-> FALSE, restores |-> FALSE]
SetsAnd(prefixes)   == [Tells(prefixes) EXCEPT !.sets = TRUE]
TellsBoth(prefixes) == [Tells(prefixes) EXCEPT !.onError = TRUE]
Optimistic          == [Tells({}) EXCEPT !.optimistic = TRUE, !.restores = TRUE]

\* A component: its read, the entity shown, what its writes do and where
\* each is offered. The two functions have the same verbs.
Screen(name, portal, key, of, writes, offers) ==
    [name |-> name, portal |-> portal, key |-> key, of |-> of,
     writes |-> writes, offers |-> offers, cache |-> "query"]

\* A component of the admin store, which holds one snapshot of everything.
Dashboard == <<"dashboard">>
StoreScreen(name, of, writes, offers) ==
    [Screen(name, "admin", Dashboard, of, writes, offers) EXCEPT !.cache = "store"]

\* A component that only shows.
Display(name, portal, key, of) == Screen(name, portal, key, of, <<>>, <<>>)
=============================================================================
