----------------------------- MODULE MemoryStore -----------------------------
(***************************************************************************)
(* Long-term memory (memory/manager.py): records in SQLite (sqlite.py,     *)
(* every method one step under its lock, in a thread) and their vectors in *)
(* Qdrant (qdrant.py), which may be down and of which every failure is     *)
(* swallowed.  Operations run concurrently and are interleaved between the *)
(* two stores.  Of a record only its expires_at counts, of which SQLite    *)
(* compares the text and the manager the instant.  Ranking and the limit   *)
(* of a search are left out.                                               *)
(***************************************************************************)
EXTENDS Naturals, FiniteSets

CONSTANTS Ids, Ops,     \* memories, and operations on them
          None

VARIABLES
    sqlite,     \* id |-> None or the record: how its expiry is written
    vectors,    \* ids that have a vector
    available,  \* does Qdrant answer?
    clock,      \* see Passed
    op,         \* per operation: see NotBegun
    stale       \* per search: ids that were gone when it began, and not recorded since

memoryVars == <<sqlite, vectors, available, clock, op, stale>>

(* How expires_at is written, all of them the same instant: never, in UTC,  *)
(* or with the offset of a place in the east or in the west, which is kept.*)
Record == {"never", "utc", "east", "west"}

(* at: where it is; id: what it stores or deletes; all: include_expired;    *)
(* todo: hits still to fetch; asOf: the clock it fetches by; found: the    *)
(* answer of a search.                                                     *)
NotBegun == [at |-> "idle", id |-> None, all |-> FALSE, todo |-> {}, asOf |-> 0, found |-> {}]

Init ==
    /\ \E r \in Record : sqlite \in [Ids -> {None, r}]
    /\ vectors = {m \in Ids : sqlite[m] # None}
    /\ available = TRUE /\ clock = 0
    /\ op = [o \in Ops |-> NotBegun]
    /\ stale = [o \in Ops |-> {}]

At(o, place) == op[o].at = place
Goes(o, place) == op' = [op EXCEPT ![o].at = place]
Ends(o) == op' = [op EXCEPT ![o] = [NotBegun EXCEPT !.at = "done", !.found = op[o].found]]
Recorded(m) == stale' = [o \in Ops |-> stale[o] \ {m}]

(* At 2 the instant has passed.  The text of the present, which is in UTC,  *)
(* is behind what was written in the west by 1 already and behind what was *)
(* written in the east only by 3.                                          *)
Passed(r, time) == r # "never" /\ time >= 2

Lapsed(r) ==
    \/ r = "west" /\ clock >= 1
    \/ r = "utc" /\ clock >= 2
    \/ r = "east" /\ clock >= 3

-----------------------------------------------------------------------------
(* store and update *)

(* evaluate, then sqlite.store; a record that holds a secret, whose expiry  *)
(* has passed or that nobody confirmed is refused and changes nothing.     *)
Store(o) ==
    /\ At(o, "idle")
    /\ \E m \in Ids, r \in Record :
          /\ ~Passed(r, clock)
          /\ sqlite' = [sqlite EXCEPT ![m] = r]
          /\ op' = [op EXCEPT ![o].at = "ask", ![o].id = m]
          /\ Recorded(m)
    /\ UNCHANGED <<vectors, available, clock>>

(* Only new content asks for a new vector; a new expiry the policy does not *)
(* see.                                                                    *)
Update(o) ==
    /\ At(o, "idle")
    /\ \E m \in Ids, r \in Record :
          /\ sqlite[m] # None
          /\ sqlite' = [sqlite EXCEPT ![m] = r]
          /\ Ends(o) \/ op' = [op EXCEPT ![o].at = "ask", ![o].id = m]
          /\ Recorded(m)
    /\ UNCHANGED <<vectors, available, clock>>

(* is_available, then embed: if either fails the record stays without its   *)
(* vector, or with the one it had.                                         *)
AskIndex(o) ==
    /\ At(o, "ask")
    /\ Goes(o, "upsert") \/ Ends(o)
    /\ available \/ op'[o].at = "done"
    /\ UNCHANGED <<sqlite, vectors, available, clock, stale>>

(* The request may reach a server whose answer does not come back. *)
Upsert(o) ==
    /\ At(o, "upsert")
    /\ \/ available /\ vectors' = vectors \cup {op[o].id}
       \/ UNCHANGED vectors
    /\ Ends(o)
    /\ UNCHANGED <<sqlite, available, clock, stale>>

-----------------------------------------------------------------------------
(* delete and cleanup_expired *)

DeleteVector(o) ==
    /\ At(o, "idle")
    /\ \E m \in Ids :
          /\ op' = [op EXCEPT ![o].at = "delete", ![o].id = m]
          /\ \/ available /\ vectors' = vectors \ {m}
             \/ UNCHANGED vectors
    /\ UNCHANGED <<sqlite, available, clock, stale>>

DeleteRecord(o) ==
    /\ At(o, "delete")
    /\ sqlite' = [sqlite EXCEPT ![op[o].id] = None]
    /\ Ends(o)
    /\ UNCHANGED <<vectors, available, clock, stale>>

(* Records only: their vectors stay. *)
CleanupExpired(o) ==
    /\ At(o, "idle")
    /\ sqlite' = [m \in Ids |-> IF Lapsed(sqlite[m]) THEN None ELSE sqlite[m]]
    /\ Ends(o)
    /\ UNCHANGED <<vectors, available, clock, stale>>

-----------------------------------------------------------------------------
(* search *)

Keyword(o) == {m \in Ids : sqlite[m] # None /\ (op[o].all \/ ~Lapsed(sqlite[m]))}

Gone(m, all) == sqlite[m] = None \/ (~all /\ Passed(sqlite[m], clock) /\ Lapsed(sqlite[m]))

BeginSearch(o) ==
    /\ At(o, "idle")
    /\ \E all \in BOOLEAN :
          /\ op' = [op EXCEPT ![o].at = "search", ![o].all = all]
          /\ stale' = [stale EXCEPT ![o] = {m \in Ids : Gone(m, all)}]
    /\ UNCHANGED <<sqlite, vectors, available, clock>>

(* sqlite.search, which may match any of its records; without Qdrant or the *)
(* embedding model, or after an exception, that is the answer.             *)
KeywordOnly(o) ==
    /\ At(o, "search") \/ At(o, "hits") \/ At(o, "fetch")
    /\ \E found \in SUBSET Keyword(o) :
          op' = [op EXCEPT ![o] = [NotBegun EXCEPT !.at = "done", !.found = found]]
    /\ UNCHANGED <<sqlite, vectors, available, clock, stale>>

KeywordFirst(o) ==
    /\ At(o, "search") /\ available
    /\ \E matched \in SUBSET Keyword(o) :
          op' = [op EXCEPT ![o].at = "hits", ![o].todo = matched]
    /\ UNCHANGED <<sqlite, vectors, available, clock, stale>>

(* The hits of Qdrant join those of SQLite; no answer is no hit.  The clock *)
(* is read once, before the first fetch.                                   *)
SemanticHits(o) ==
    /\ At(o, "hits")
    /\ \E hits \in SUBSET vectors :
          /\ available \/ hits = {}
          /\ op' = [op EXCEPT ![o].at = "fetch", ![o].todo = @ \cup hits, ![o].asOf = clock]
    /\ UNCHANGED <<sqlite, vectors, available, clock, stale>>

Matches(o, m) == sqlite[m] # None /\ (op[o].all \/ ~Passed(sqlite[m], op[o].asOf))

(* Each candidate is read again before it is returned. *)
Fetch_TrustsHits(o) ==
    /\ At(o, "fetch")
    /\ \E m \in op[o].todo :
          op' = [op EXCEPT ![o].todo = @ \ {m},
                           ![o].found = IF sqlite[m] # None THEN @ \cup {m} ELSE @]
    /\ UNCHANGED <<sqlite, vectors, available, clock, stale>>

Fetch(o) ==
    /\ At(o, "fetch")
    /\ \E m \in op[o].todo :
          op' = [op EXCEPT ![o].todo = @ \ {m},
                           ![o].found = IF Matches(o, m) THEN @ \cup {m} ELSE @]
    /\ UNCHANGED <<sqlite, vectors, available, clock, stale>>

Found(o) ==
    /\ At(o, "fetch") /\ op[o].todo = {}
    /\ Ends(o)
    /\ UNCHANGED <<sqlite, vectors, available, clock, stale>>

-----------------------------------------------------------------------------
IndexGoesOrComes ==
    /\ available' = ~available
    /\ UNCHANGED <<sqlite, vectors, clock, op, stale>>

Tick ==
    /\ clock < 3
    /\ clock' = clock + 1
    /\ UNCHANGED <<sqlite, vectors, available, op, stale>>

Next ==
    \/ IndexGoesOrComes \/ Tick
    \/ \E o \in Ops :
          \/ Store(o) \/ Update(o) \/ AskIndex(o) \/ Upsert(o)
          \/ DeleteVector(o) \/ DeleteRecord(o) \/ CleanupExpired(o)
          \/ BeginSearch(o) \/ KeywordOnly(o) \/ KeywordFirst(o) \/ SemanticHits(o)
          \/ Fetch(o) \/ Found(o)

-----------------------------------------------------------------------------
(* A search does not return a memory that had been forgotten before it      *)
(* began, nor, unless it asks for them (include_expired), one that had     *)
(* expired by then, although the index keeps the vectors of deleted and    *)
(* expired records (a failed delete, a late upsert, cleanup_expired): the  *)
(* candidates are read again and filtered (search, _record_matches_query). *)
(* Expired is what has expired as an instant and as a text: the answer of  *)
(* SQLite alone holds what was written in the east for hours longer.       *)
ForgottenIsNotRecalled == \A o \in Ops : op[o].found \cap stale[o] = {}
=============================================================================
