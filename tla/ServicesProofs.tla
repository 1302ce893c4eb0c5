--------------------------- MODULE ServicesProofs ---------------------------
(***************************************************************************)
(* The parts of MCServices, for any number of models, evictors, memories,  *)
(* operations and requests.  A step of the composition is a step of one    *)
(* part or leaves that part alone, so each part is proved by itself, and   *)
(* its theorem is about the whole behaviour, whatever its subject is.      *)
(***************************************************************************)
EXTENDS MCServices, SequenceTheorems, WellFoundedInduction, TLAPS

LEMMA EachPartByItself ==
    [ServicesNext]_serviceVars =>
       /\ [Agent!Next]_agentVars /\ [Lifecycle!Next]_lifecycleVars /\ [Memory!Next]_memoryVars
       /\ [Http!Next]_httpVars /\ [Web!Next]_webVars
       /\ [Program!Next]_appVars /\ [Seeing!Next]_visionVars /\ [Next]_vars
BY DEF ServicesNext, AgentNext, LifecycleNext, MemoryNext, HttpNext, WebNext, AppNext,
   VisionNext, LoopNext, PromptNext, serviceVars, loopVars, vars

-----------------------------------------------------------------------------
(* Vision *)

(***************************************************************************)
(* ModelOnlyUnderLease is not inductive: with a governor nobody may come   *)
(* to the model from a look at the free memory.                            *)
(***************************************************************************)
WayToModel ==
    \A r \in Requests : governed => request[r].pc # "memory"

OneLease ==
    /\ leased = {} \/ \E r \in Requests : leased = {r}
    /\ governed => \A r \in Requests : request[r].pc = "model" <=> r \in leased

VisionInv == Seeing!TypeOK /\ WayToModel /\ OneLease

LEMMA VisionStarts == Seeing!Init => VisionInv
BY DEF Seeing!Init, VisionInv, Seeing!TypeOK, WayToModel, OneLease, Seeing!VisionTools,
   Seeing!Tiers, Seeing!Pcs

LEMMA VisionMoves == VisionInv /\ [Seeing!Next]_visionVars => VisionInv'
<1> SUFFICES ASSUME VisionInv, [Seeing!Next]_visionVars
             PROVE  VisionInv'
  OBVIOUS
<1> USE DEF VisionInv, Seeing!TypeOK, Seeing!VisionTools, Seeing!Tiers, Seeing!Pcs
<1>1. CASE Seeing!WindowChanges
  BY <1>1 DEF Seeing!WindowChanges, WayToModel, OneLease
<1>2. ASSUME NEW r \in Requests,
             \/ Seeing!Checked(r) \/ Seeing!Grabbed(r) \/ Seeing!Read(r) \/ Seeing!Located(r)
      PROVE  VisionInv'
  BY <1>2 DEF Seeing!Checked, Seeing!Grabbed, Seeing!Read, Seeing!Located, Seeing!At,
     Seeing!Goes, WayToModel, OneLease
<1>3. ASSUME NEW r \in Requests, Seeing!Escalates(r)
      PROVE  VisionInv'
  BY <1>3 DEF Seeing!Escalates, Seeing!At, Seeing!TierOf, WayToModel, OneLease
<1>4. ASSUME NEW r \in Requests,
             \/ Seeing!MemoryChecked(r) \/ Seeing!Leased(r) \/ Seeing!LeaseRefused(r)
      PROVE  VisionInv'
  BY <1>4 DEF Seeing!MemoryChecked, Seeing!Leased, Seeing!LeaseRefused, Seeing!WithoutModel,
     Seeing!Locating, Seeing!At, Seeing!Goes, WayToModel, OneLease
<1>5. ASSUME NEW r \in Requests,
             \/ Seeing!ModelAnswers(r) \/ Seeing!ModelFails(r) \/ Seeing!Cancelled(r)
      PROVE  VisionInv'
  BY <1>5 DEF Seeing!ModelAnswers, Seeing!ModelFails, Seeing!Cancelled, Seeing!HandsBack,
     Seeing!Locating, Seeing!At, Seeing!Goes, WayToModel, OneLease
<1>6. CASE UNCHANGED visionVars
  BY <1>6 DEF visionVars, WayToModel, OneLease
<1> QED
  BY <1>1, <1>2, <1>3, <1>4, <1>5, <1>6 DEF Seeing!Next

(* However the requests of the vision tools interleave, fail or are         *)
(* cancelled, with a governor the visual model serves its leaseholder      *)
(* alone, and the lease is held only there (analyze).                      *)
THEOREM ModelUnderLease == ServicesSpec => []ModelOnlyUnderLease
<1>1. VisionInv => ModelOnlyUnderLease
  BY DEF VisionInv, OneLease, WayToModel, ModelOnlyUnderLease, Seeing!ModelOnlyUnderLease,
     Seeing!At, Seeing!TypeOK
<1>2. ServicesInit => VisionInv
  BY VisionStarts DEF ServicesInit
<1>3. VisionInv /\ [ServicesNext]_serviceVars => VisionInv'
  BY VisionMoves, EachPartByItself
<1> QED
  BY <1>1, <1>2, <1>3, PTL DEF ServicesSpec

-----------------------------------------------------------------------------
(* Memory *)

(***************************************************************************)
(* ForgottenIsNotRecalled is not inductive: what a search has not returned *)
(* yet must not be in its way, and of what was gone when it began and was  *)
(* not recorded again there is no record, or one that both clocks of the   *)
(* search find expired.                                                    *)
(***************************************************************************)
NothingFoundYet == \A o \in Ops : op[o].at \in {"idle", "search", "hits"} => op[o].found = {}
StaleIsGone ==
    \A o \in Ops : \A m \in stale[o] : sqlite[m] # None =>
       /\ ~op[o].all
       /\ Memory!Passed(sqlite[m], clock) /\ Memory!Lapsed(sqlite[m])
       /\ op[o].at = "fetch" => Memory!Passed(sqlite[m], op[o].asOf)

MemoryOps == [at : {"idle", "ask", "upsert", "delete", "search", "hits", "fetch", "done"},
              id : Ids \cup {None}, all : BOOLEAN,
              todo : SUBSET Ids, asOf : Nat, found : SUBSET Ids]

MemoryTyped ==
    /\ sqlite \in [Ids -> Memory!Record \cup {None}]
    /\ vectors \subseteq Ids
    /\ clock \in Nat
    /\ op \in [Ops -> MemoryOps]
    /\ \A o \in Ops : op[o].at \in {"ask", "upsert"} => op[o].id \in Ids
    /\ stale \in [Ops -> SUBSET Ids]

MemoryInv == MemoryTyped /\ NothingFoundYet /\ StaleIsGone /\ Memory!ForgottenIsNotRecalled

LEMMA MemoryStarts == Memory!Init => MemoryInv
BY DEF Memory!Init, Memory!NotBegun, MemoryInv, MemoryTyped, MemoryOps, NothingFoundYet,
   StaleIsGone, Memory!ForgottenIsNotRecalled, Memory!Record

(* An operation that has ended has what it found, and nothing else. *)
LEMMA MemoryEnds ==
    ASSUME MemoryTyped, NEW o \in Ops, Memory!Ends(o)
    PROVE  /\ op' \in [Ops -> MemoryOps]
           /\ \A x \in Ops : op'[x].at \in {"ask", "upsert"} => op'[x].id \in Ids
           /\ op'[o].at = "done" /\ op'[o].found = op[o].found /\ ~op'[o].all
           /\ \A x \in Ops \ {o} : op'[x] = op[x]
<1> DEFINE end == [Memory!NotBegun EXCEPT !.at = "done", !.found = op[o].found]
<1>1. end \in MemoryOps /\ end.at = "done" /\ end.found = op[o].found /\ ~end.all
  BY DEF MemoryTyped, MemoryOps, Memory!NotBegun
<1>2. op' = [op EXCEPT ![o] = end]
  BY DEF Memory!Ends
<1> HIDE DEF end
<1> QED
  BY <1>1, <1>2 DEF MemoryTyped

LEMMA MemoryGoes ==
    ASSUME MemoryTyped, NEW o \in Ops, NEW next \in MemoryOps, op' = [op EXCEPT ![o] = next],
           next.at \in {"ask", "upsert"} => next.id \in Ids
    PROVE  /\ op' \in [Ops -> MemoryOps]
           /\ \A x \in Ops : op'[x].at \in {"ask", "upsert"} => op'[x].id \in Ids
BY DEF MemoryTyped

LEMMA MemoryTypes == MemoryTyped /\ [Memory!Next]_memoryVars => MemoryTyped'
<1> SUFFICES ASSUME MemoryTyped, [Memory!Next]_memoryVars
             PROVE  MemoryTyped'
  OBVIOUS
<1> USE DEF MemoryTyped
<1>1. CASE Memory!IndexGoesOrComes \/ Memory!Tick \/ UNCHANGED memoryVars
  BY <1>1 DEF Memory!IndexGoesOrComes, Memory!Tick, memoryVars
<1> DEFINE OpTyped == /\ op \in [Ops -> MemoryOps]
                      /\ \A o \in Ops : op[o].at \in {"ask", "upsert"} => op[o].id \in Ids
<1>2. ASSUME NEW o \in Ops, Memory!Store(o) \/ Memory!Update(o)
      PROVE  MemoryTyped'
  <2>1. PICK m \in Ids, r \in Memory!Record :
           /\ sqlite' = [sqlite EXCEPT ![m] = r]
           /\ Memory!Ends(o) \/ op' = [op EXCEPT ![o].at = "ask", ![o].id = m]
    BY <1>2 DEF Memory!Store, Memory!Update
  <2>2. stale' \in [Ops -> SUBSET Ids] /\ UNCHANGED <<vectors, clock>>
    BY <1>2 DEF Memory!Store, Memory!Update, Memory!Recorded
  <2>3. CASE Memory!Ends(o)
    <3>1. OpTyped'
      BY <2>3, MemoryEnds
    <3> QED
      BY <2>1, <2>2, <3>1
  <2>4. CASE op' = [op EXCEPT ![o].at = "ask", ![o].id = m]
    <3> DEFINE next == [op[o] EXCEPT !.at = "ask", !.id = m]
    <3>1. next \in MemoryOps /\ next.id \in Ids
      BY DEF MemoryOps
    <3>2. op' = [op EXCEPT ![o] = next]
      BY <2>4
    <3> HIDE DEF next
    <3>3. OpTyped'
      BY <3>1, <3>2, MemoryGoes
    <3> QED
      BY <2>1, <2>2, <3>3
  <2> QED
    BY <2>1, <2>3, <2>4
<1>3. ASSUME NEW o \in Ops, NEW place \in {"upsert", "delete"}, NEW m \in Ids \cup {None},
             op' = [op EXCEPT ![o].at = place, ![o].id = m], place = "upsert" => m \in Ids
      PROVE  OpTyped'
  <2> DEFINE next == [op[o] EXCEPT !.at = place, !.id = m]
  <2>1. next \in MemoryOps /\ (next.at \in {"ask", "upsert"} => next.id \in Ids)
    BY <1>3 DEF MemoryOps
  <2>2. op' = [op EXCEPT ![o] = next]
    BY <1>3
  <2> HIDE DEF next
  <2> QED
    BY <2>1, <2>2, MemoryGoes
<1>4. ASSUME NEW o \in Ops,
             \/ Memory!AskIndex(o) \/ Memory!Upsert(o) \/ Memory!DeleteVector(o)
             \/ Memory!DeleteRecord(o) \/ Memory!CleanupExpired(o)
      PROVE  MemoryTyped'
  <2>1. CASE Memory!AskIndex(o)
    <3>1. CASE Memory!Ends(o)
      BY <2>1, <3>1, MemoryEnds DEF Memory!AskIndex
    <3>2. CASE Memory!Goes(o, "upsert")
      <4>1. op' = [op EXCEPT ![o].at = "upsert", ![o].id = op[o].id] /\ op[o].id \in Ids
        BY <2>1, <3>2 DEF Memory!AskIndex, Memory!Goes, Memory!At, MemoryOps
      <4>2. OpTyped'
        BY <4>1, <1>3
      <4> QED
        BY <2>1, <4>2 DEF Memory!AskIndex
    <3> QED
      BY <2>1, <3>1, <3>2 DEF Memory!AskIndex
  <2>2. CASE Memory!Upsert(o)
    <3>1. vectors' \subseteq Ids
      BY <2>2 DEF Memory!Upsert, Memory!At
    <3>2. OpTyped'
      BY <2>2, MemoryEnds DEF Memory!Upsert
    <3> QED
      BY <2>2, <3>1, <3>2 DEF Memory!Upsert
  <2>3. CASE Memory!DeleteVector(o)
    <3>1. OpTyped'
      BY <2>3, <1>3 DEF Memory!DeleteVector
    <3> QED
      BY <2>3, <3>1 DEF Memory!DeleteVector
  <2>4. CASE Memory!DeleteRecord(o) \/ Memory!CleanupExpired(o)
    <3>1. OpTyped'
      BY <2>4, MemoryEnds DEF Memory!DeleteRecord, Memory!CleanupExpired
    <3>2. sqlite' \in [Ids -> Memory!Record \cup {None}]
      BY <2>4 DEF Memory!DeleteRecord, Memory!CleanupExpired
    <3> QED
      BY <2>4, <3>1, <3>2 DEF Memory!DeleteRecord, Memory!CleanupExpired
  <2> QED
    BY <1>4, <2>1, <2>2, <2>3, <2>4
<1>5. ASSUME NEW o \in Ops, NEW next \in MemoryOps, op' = [op EXCEPT ![o] = next],
             next.at \notin {"ask", "upsert"}, UNCHANGED <<sqlite, vectors, clock>>,
             stale' \in [Ops -> SUBSET Ids]
      PROVE  MemoryTyped'
  <2>1. OpTyped'
    BY <1>5, MemoryGoes
  <2> QED
    BY <1>5, <2>1
<1>6. ASSUME NEW o \in Ops,
             \/ Memory!BeginSearch(o) \/ Memory!KeywordOnly(o) \/ Memory!KeywordFirst(o)
             \/ Memory!SemanticHits(o) \/ Memory!Fetch(o) \/ Memory!Found(o)
      PROVE  MemoryTyped'
  <2>1. CASE Memory!BeginSearch(o)
    <3>1. PICK all \in BOOLEAN :
             /\ op' = [op EXCEPT ![o].at = "search", ![o].all = all]
             /\ stale' = [stale EXCEPT ![o] = {m \in Ids : Memory!Gone(m, all)}]
      BY <2>1 DEF Memory!BeginSearch
    <3> DEFINE next == [op[o] EXCEPT !.at = "search", !.all = all]
    <3>2. next \in MemoryOps /\ next.at = "search" /\ op' = [op EXCEPT ![o] = next]
      BY <3>1 DEF MemoryOps
    <3>3. stale' \in [Ops -> SUBSET Ids]
      BY <3>1
    <3> HIDE DEF next
    <3> QED
      BY <2>1, <3>2, <3>3, <1>5 DEF Memory!BeginSearch
  <2>2. CASE Memory!KeywordOnly(o)
    <3>1. PICK reply \in SUBSET Ids :
             op' = [op EXCEPT ![o] = [Memory!NotBegun EXCEPT !.at = "done", !.found = reply]]
      BY <2>2 DEF Memory!KeywordOnly, Memory!Keyword
    <3> DEFINE next == [Memory!NotBegun EXCEPT !.at = "done", !.found = reply]
    <3>2. next \in MemoryOps /\ next.at = "done" /\ op' = [op EXCEPT ![o] = next]
      BY <3>1 DEF MemoryOps, Memory!NotBegun
    <3> HIDE DEF next
    <3> QED
      BY <2>2, <3>2, <1>5 DEF Memory!KeywordOnly
  <2>3. CASE Memory!KeywordFirst(o)
    <3>1. PICK hits \in SUBSET Ids : op' = [op EXCEPT ![o].at = "hits", ![o].todo = hits]
      BY <2>3 DEF Memory!KeywordFirst, Memory!Keyword
    <3> DEFINE next == [op[o] EXCEPT !.at = "hits", !.todo = hits]
    <3>2. next \in MemoryOps /\ next.at = "hits" /\ op' = [op EXCEPT ![o] = next]
      BY <3>1 DEF MemoryOps
    <3> HIDE DEF next
    <3> QED
      BY <2>3, <3>2, <1>5 DEF Memory!KeywordFirst
  <2>4. CASE Memory!SemanticHits(o)
    <3>1. PICK hits \in SUBSET Ids :
             op' = [op EXCEPT ![o].at = "fetch", ![o].todo = @ \cup hits, ![o].asOf = clock]
      BY <2>4 DEF Memory!SemanticHits
    <3> DEFINE next == [op[o] EXCEPT !.at = "fetch", !.todo = @ \cup hits, !.asOf = clock]
    <3>2. next \in MemoryOps /\ next.at = "fetch"
      BY DEF MemoryOps
    <3>3. op' = [op EXCEPT ![o] = next]
      BY <3>1
    <3> HIDE DEF next
    <3> QED
      BY <2>4, <3>2, <3>3, <1>5 DEF Memory!SemanticHits
  <2>5. CASE Memory!Fetch(o)
    <3>1. PICK m \in op[o].todo :
             op' = [op EXCEPT ![o].todo = @ \ {m},
                              ![o].found = IF Memory!Matches(o, m) THEN @ \cup {m} ELSE @]
      BY <2>5 DEF Memory!Fetch
    <3> DEFINE fetched == IF Memory!Matches(o, m) THEN op[o].found \cup {m} ELSE op[o].found
               next == [op[o] EXCEPT !.todo = @ \ {m}, !.found = fetched]
    <3>2. fetched \in SUBSET Ids
      BY <3>1 DEF MemoryOps
    <3>3. op' = [op EXCEPT ![o] = next]
      BY <3>1
    <3> HIDE DEF fetched
    <3>4. next \in MemoryOps /\ next.at = "fetch"
      BY <2>5, <3>2 DEF MemoryOps, Memory!Fetch, Memory!At
    <3> HIDE DEF next
    <3> QED
      BY <2>5, <3>3, <3>4, <1>5 DEF Memory!Fetch
  <2>6. CASE Memory!Found(o)
    BY <2>6, MemoryEnds DEF Memory!Found
  <2> QED
    BY <1>6, <2>1, <2>2, <2>3, <2>4, <2>5, <2>6
<1> QED
  BY <1>1, <1>2, <1>4, <1>6 DEF Memory!Next

LEMMA MemoryMoves == MemoryInv /\ [Memory!Next]_memoryVars => MemoryInv'
<1> DEFINE Kept == NothingFoundYet' /\ StaleIsGone' /\ Memory!ForgottenIsNotRecalled'
<1> SUFFICES ASSUME MemoryInv, [Memory!Next]_memoryVars
             PROVE  Kept
  BY MemoryTypes DEF MemoryInv
<1> USE DEF MemoryInv, NothingFoundYet, StaleIsGone, Memory!ForgottenIsNotRecalled
<1>1. CASE Memory!IndexGoesOrComes \/ UNCHANGED memoryVars
  BY <1>1 DEF Memory!IndexGoesOrComes, memoryVars, Memory!Lapsed
<1>2. CASE Memory!Tick
  BY <1>2 DEF Memory!Tick, Memory!Lapsed, Memory!Passed, MemoryTyped
<1>3. ASSUME NEW o \in Ops, Memory!Store(o) \/ Memory!Update(o)
      PROVE  Kept
  <2>1. PICK m \in Ids, r \in Memory!Record :
           /\ sqlite' = [sqlite EXCEPT ![m] = r]
           /\ Memory!Ends(o) \/ op' = [op EXCEPT ![o].at = "ask", ![o].id = m]
           /\ stale' = [x \in Ops |-> stale[x] \ {m}]
    BY <1>3 DEF Memory!Store, Memory!Update, Memory!Recorded
  <2>2. /\ op'[o].found = op[o].found /\ op'[o].at \in {"ask", "done"}
        /\ ~op[o].all => ~op'[o].all
        /\ \A x \in Ops \ {o} : op'[x] = op[x]
    BY <2>1, MemoryEnds DEF MemoryTyped, MemoryOps
  <2>3. clock' = clock /\ \A n \in Ids \ {m} : sqlite'[n] = sqlite[n]
    BY <1>3, <2>1 DEF Memory!Store, Memory!Update, MemoryTyped
  <2> QED
    BY <2>1, <2>2, <2>3 DEF MemoryTyped, Memory!Lapsed
<1>4. ASSUME NEW o \in Ops,
             \/ Memory!AskIndex(o) \/ Memory!Upsert(o) \/ Memory!DeleteVector(o)
             \/ Memory!DeleteRecord(o) \/ Memory!CleanupExpired(o) \/ Memory!Found(o)
      PROVE  Kept
  <2>1. /\ op'[o].found = op[o].found
        /\ op'[o].at \in {"ask", "upsert", "delete", "done"}
        /\ ~op[o].all => ~op'[o].all
        /\ \A x \in Ops \ {o} : op'[x] = op[x]
    BY <1>4, MemoryEnds DEF Memory!AskIndex, Memory!Upsert, Memory!DeleteVector,
       Memory!DeleteRecord, Memory!CleanupExpired, Memory!Found, Memory!Goes,
       MemoryTyped, MemoryOps
  <2>2. UNCHANGED <<clock, stale>> /\ \A m \in Ids : sqlite'[m] \in {sqlite[m], None}
    BY <1>4 DEF Memory!AskIndex, Memory!Upsert, Memory!DeleteVector, Memory!DeleteRecord,
       Memory!CleanupExpired, Memory!Found, MemoryTyped
  <2> QED
    BY <2>1, <2>2 DEF MemoryTyped, Memory!Lapsed
<1>5. ASSUME NEW o \in Ops, Memory!BeginSearch(o)
      PROVE  Kept
  <2>1. PICK all \in BOOLEAN :
           /\ op' = [op EXCEPT ![o].at = "search", ![o].all = all]
           /\ stale' = [stale EXCEPT ![o] = {m \in Ids : Memory!Gone(m, all)}]
    BY <1>5 DEF Memory!BeginSearch
  <2>2. op'[o].found = {} /\ op'[o].at = "search" /\ op'[o].all = all
    BY <1>5, <2>1 DEF Memory!BeginSearch, Memory!At, MemoryTyped, MemoryOps
  <2>3. \A m \in stale'[o] : sqlite[m] # None =>
           ~all /\ Memory!Passed(sqlite[m], clock) /\ Memory!Lapsed(sqlite[m])
    BY <2>1 DEF Memory!Gone, MemoryTyped
  <2>4. \A x \in Ops \ {o} : op'[x] = op[x] /\ stale'[x] = stale[x]
    BY <2>1 DEF MemoryTyped
  <2>5. UNCHANGED <<sqlite, clock>>
    BY <1>5 DEF Memory!BeginSearch
  <2> QED
    BY <2>2, <2>3, <2>4, <2>5 DEF MemoryTyped, Memory!Lapsed
<1>6. ASSUME NEW o \in Ops, Memory!KeywordOnly(o)
      PROVE  Kept
  <2>1. PICK reply \in SUBSET Memory!Keyword(o) :
           op' = [op EXCEPT ![o] = [Memory!NotBegun EXCEPT !.at = "done", !.found = reply]]
    BY <1>6 DEF Memory!KeywordOnly
  <2>2. op'[o].found = reply /\ op'[o].at = "done" /\ ~op'[o].all
    BY <2>1 DEF Memory!NotBegun, MemoryTyped
  <2>3. reply \cap stale[o] = {}
    BY DEF Memory!Keyword
  <2>4. \A x \in Ops \ {o} : op'[x] = op[x]
    BY <2>1 DEF MemoryTyped
  <2>5. UNCHANGED <<sqlite, clock, stale>>
    BY <1>6 DEF Memory!KeywordOnly
  <2> QED
    BY <2>2, <2>3, <2>4, <2>5 DEF MemoryTyped, Memory!Lapsed
<1>7. ASSUME NEW o \in Ops, Memory!KeywordFirst(o) \/ Memory!SemanticHits(o)
      PROVE  Kept
  <2>1. /\ op'[o].found = {} /\ op'[o].all = op[o].all
        /\ op'[o].at = "fetch" => op'[o].asOf = clock
        /\ \A x \in Ops \ {o} : op'[x] = op[x]
    <3>1. CASE Memory!KeywordFirst(o)
      <4>1. PICK hits : op' = [op EXCEPT ![o].at = "hits", ![o].todo = hits]
        BY <3>1 DEF Memory!KeywordFirst
      <4>2. op[o].found = {}
        BY <3>1 DEF Memory!KeywordFirst, Memory!At
      <4> QED
        BY <4>1, <4>2 DEF MemoryTyped, MemoryOps
    <3>2. CASE Memory!SemanticHits(o)
      <4>1. PICK hits :
               op' = [op EXCEPT ![o].at = "fetch", ![o].todo = @ \cup hits, ![o].asOf = clock]
        BY <3>2 DEF Memory!SemanticHits
      <4>2. op[o].found = {}
        BY <3>2 DEF Memory!SemanticHits, Memory!At
      <4> QED
        BY <4>1, <4>2 DEF MemoryTyped, MemoryOps
    <3> QED
      BY <1>7, <3>1, <3>2
  <2>2. UNCHANGED <<sqlite, clock, stale>>
    BY <1>7 DEF Memory!KeywordFirst, Memory!SemanticHits
  <2> QED
    BY <2>1, <2>2 DEF MemoryTyped, Memory!Lapsed
<1>8. ASSUME NEW o \in Ops, Memory!Fetch(o)
      PROVE  Kept
  <2>1. PICK m \in op[o].todo :
           op' = [op EXCEPT ![o].todo = @ \ {m},
                            ![o].found = IF Memory!Matches(o, m) THEN @ \cup {m} ELSE @]
    BY <1>8 DEF Memory!Fetch
  <2>2. /\ op'[o].at = "fetch" /\ op'[o].all = op[o].all /\ op'[o].asOf = op[o].asOf
        /\ op'[o].found \in {op[o].found, op[o].found \cup {m}}
        /\ op'[o].found # op[o].found => Memory!Matches(o, m)
        /\ \A x \in Ops \ {o} : op'[x] = op[x]
    BY <1>8, <2>1 DEF Memory!Fetch, Memory!At, MemoryTyped, MemoryOps
  <2>3. m \in stale[o] => ~Memory!Matches(o, m)
    BY <1>8 DEF Memory!Fetch, Memory!At, Memory!Matches
  <2>4. UNCHANGED <<sqlite, clock, stale>>
    BY <1>8 DEF Memory!Fetch
  <2>5. op'[o].found \cap stale[o] = {}
    BY <2>2, <2>3
  <2>6. Memory!ForgottenIsNotRecalled'
    BY <2>2, <2>4, <2>5
  <2>7. op[o].at = "fetch"
    BY <1>8 DEF Memory!Fetch, Memory!At
  <2>8. StaleIsGone'
    BY <2>2, <2>4, <2>7 DEF MemoryTyped, Memory!Lapsed
  <2>9. NothingFoundYet'
    BY <2>2
  <2> QED
    BY <2>6, <2>8, <2>9
<1> QED
  BY <1>1, <1>2, <1>3, <1>4, <1>5, <1>6, <1>7, <1>8 DEF Memory!Next

(* However stores, updates, deletes, cleanups, failures of the index and    *)
(* the steps of searches interleave, none returns what had been forgotten  *)
(* before it began, nor, unless it asks for that, what had expired as an   *)
(* instant and as a text (search, _record_matches_query).                  *)
THEOREM ForgottenStaysForgotten == ServicesSpec => []ForgottenIsNotRecalled
<1>1. MemoryInv => ForgottenIsNotRecalled
  BY DEF MemoryInv, ForgottenIsNotRecalled
<1>2. ServicesInit => MemoryInv
  BY MemoryStarts DEF ServicesInit
<1>3. MemoryInv /\ [ServicesNext]_serviceVars => MemoryInv'
  BY MemoryMoves, EachPartByItself
<1> QED
  BY <1>1, <1>2, <1>3, PTL DEF ServicesSpec

-----------------------------------------------------------------------------
(* Model lifecycle *)

(***************************************************************************)
(* The last release of a model is that of its only user because a BUSY     *)
(* model counts its users, whatever became of it while an eviction ran.    *)
(***************************************************************************)
LifecycleTyped ==
    /\ models \in [Models -> Lifecycle!Record \cup {Unregistered}]
    /\ eviction \in [Evictors -> Models \cup {Unregistered}]

LifecycleInv == LifecycleTyped /\ Lifecycle!RecordsAgree

LEMMA LifecycleStarts == Lifecycle!Init => LifecycleInv
BY DEF Lifecycle!Init, LifecycleInv, LifecycleTyped, Lifecycle!RecordsAgree, Lifecycle!Registered

LEMMA Transitions ==
    \A s \in Lifecycle!ModelStates :
       /\ "BUSY" \in Lifecycle!ValidTransitions[s] => s \in {"READY", "IDLE"}
       /\ "UNLOADED" \in Lifecycle!ValidTransitions[s] => s # "BUSY"
BY DEF Lifecycle!ModelStates, Lifecycle!ValidTransitions

(* One record is replaced by another that agrees with itself. *)
LEMMA RecordMoves ==
    ASSUME LifecycleInv, NEW m \in Models, NEW to \in Lifecycle!Record,
           models' = [models EXCEPT ![m] = to],
           eviction' \in [Evictors -> Models \cup {Unregistered}],
           to.state = "BUSY" => to.acquisitions > 0,
           to.confirmed => ~to.resident /\ to.state \in {"UNLOADED", "ERROR"}
    PROVE  LifecycleInv'
BY UnregisteredAssumption
DEF LifecycleInv, LifecycleTyped, Lifecycle!RecordsAgree, Lifecycle!Registered, Lifecycle!State

LEMMA LifecycleMoves == LifecycleInv /\ [Lifecycle!Next]_lifecycleVars => LifecycleInv'
<1> SUFFICES ASSUME LifecycleInv, [Lifecycle!Next]_lifecycleVars
             PROVE  LifecycleInv'
  OBVIOUS
<1>1. CASE UNCHANGED lifecycleVars
  BY <1>1 DEF lifecycleVars, LifecycleInv, LifecycleTyped, Lifecycle!RecordsAgree,
     Lifecycle!Registered, Lifecycle!State
<1>2. ASSUME NEW m \in Models, Lifecycle!RegisterModel(m)
      PROVE  LifecycleInv'
  <2>1. Lifecycle!New \in Lifecycle!Record
    BY DEF Lifecycle!New, Lifecycle!Record, Lifecycle!ModelStates
  <2> QED
    BY <1>2, <2>1, RecordMoves DEF Lifecycle!RegisterModel, Lifecycle!Becomes, Lifecycle!New,
       LifecycleInv, LifecycleTyped
<1>3. ASSUME NEW m \in Models, Lifecycle!UnregisterModel(m)
      PROVE  LifecycleInv'
  BY <1>3, UnregisteredAssumption
  DEF Lifecycle!UnregisterModel, Lifecycle!Becomes, LifecycleInv, LifecycleTyped,
      Lifecycle!RecordsAgree, Lifecycle!Registered, Lifecycle!State
<1>4. ASSUME NEW m \in Models, NEW to \in Lifecycle!Record, Lifecycle!Registered(m),
             models' = [models EXCEPT ![m] = to], UNCHANGED eviction,
             to.state = "BUSY" => to.acquisitions > 0,
             to.confirmed => ~to.resident /\ to.state \in {"UNLOADED", "ERROR"}
      PROVE  LifecycleInv'
  BY <1>4, RecordMoves DEF LifecycleInv, LifecycleTyped
<1>5. ASSUME NEW m \in Models,
             \/ Lifecycle!RecordAcquire(m) \/ Lifecycle!RecordRelease(m)
             \/ Lifecycle!RecordError(m)
             \/ \E b \in BOOLEAN : Lifecycle!RecordReady(m, b) \/ Lifecycle!RecordUnloaded(m, b)
      PROVE  LifecycleInv'
  <2>1. Lifecycle!Registered(m) /\ models[m] \in Lifecycle!Record
    BY <1>5 DEF Lifecycle!RecordAcquire, Lifecycle!RecordRelease, Lifecycle!RecordError,
       Lifecycle!RecordReady, Lifecycle!RecordUnloaded, Lifecycle!CanBecome,
       Lifecycle!Registered, LifecycleInv, LifecycleTyped
  <2>2. /\ models[m].state = "BUSY" => models[m].acquisitions > 0
        /\ models[m].confirmed => /\ ~models[m].resident
                                  /\ models[m].state \in {"UNLOADED", "ERROR"}
    BY <2>1 DEF LifecycleInv, Lifecycle!RecordsAgree, Lifecycle!State
  <2> USE <2>1, <2>2, <1>4 DEF Lifecycle!Record, Lifecycle!ModelStates, Lifecycle!Becomes,
          Lifecycle!State, Lifecycle!New
  <2>3. CASE Lifecycle!RecordAcquire(m)
    <3> DEFINE users == models[m].acquisitions + 1
               to == [models[m] EXCEPT !.state = "BUSY", !.acquisitions = users]
    <3>1. models[m].state \in {"BUSY", "READY", "IDLE"}
      BY <2>3, Transitions DEF Lifecycle!RecordAcquire, Lifecycle!CanBecome
    <3>2. users \in Nat /\ users > 0
      OBVIOUS
    <3>3. models' = [models EXCEPT ![m] = to]
      BY <2>3 DEF Lifecycle!RecordAcquire
    <3> HIDE DEF users
    <3>4. to \in Lifecycle!Record /\ ~to.confirmed /\ to.acquisitions > 0
      BY <3>1, <3>2
    <3> QED
      BY <2>3, <3>3, <3>4 DEF Lifecycle!RecordAcquire
  <2>4. CASE Lifecycle!RecordRelease(m)
    <3> DEFINE n == models[m].acquisitions
               left == IF n > 0 THEN n - 1 ELSE 0
               to == [models[m] EXCEPT !.acquisitions = left,
                                       !.state = IF left = 0 THEN "IDLE" ELSE "BUSY"]
    <3>1. left \in Nat /\ models' = [models EXCEPT ![m] = to] /\ UNCHANGED eviction
      BY <2>4 DEF Lifecycle!RecordRelease
    <3>2. ~models[m].confirmed
      BY <2>4 DEF Lifecycle!RecordRelease
    <3> HIDE DEF left
    <3>3. /\ to \in Lifecycle!Record /\ ~to.confirmed
          /\ to.state = "BUSY" => to.acquisitions > 0
      <4>1. CASE left = 0
        BY <3>1, <3>2, <4>1
      <4>2. CASE left > 0
        BY <3>1, <3>2, <4>2
      <4> QED
        BY <3>1, <4>1, <4>2
    <3> HIDE DEF to
    <3> QED
      BY <3>1, <3>3
  <2>5. CASE Lifecycle!RecordError(m)
    <3> DEFINE to == [models[m] EXCEPT !.state = "ERROR", !.acquisitions = 0]
    <3>1. to \in Lifecycle!Record /\ to.state = "ERROR" /\ (to.confirmed => ~to.resident)
      OBVIOUS
    <3> QED
      BY <2>5, <3>1 DEF Lifecycle!RecordError
  <2>6. ASSUME NEW b \in BOOLEAN, Lifecycle!RecordReady(m, b)
        PROVE  LifecycleInv'
    BY <2>6 DEF Lifecycle!RecordReady
  <2>7. ASSUME NEW b \in BOOLEAN, Lifecycle!RecordUnloaded(m, b)
        PROVE  LifecycleInv'
    BY <2>7 DEF Lifecycle!RecordUnloaded
  <2> QED
    BY <1>5, <2>3, <2>4, <2>5, <2>6, <2>7
<1>6. ASSUME NEW m \in Models, NEW e \in Evictors, Lifecycle!TriggerEviction(e, m)
      PROVE  LifecycleInv'
  BY <1>6 DEF Lifecycle!TriggerEviction, LifecycleInv, LifecycleTyped, Lifecycle!RecordsAgree,
     Lifecycle!Registered, Lifecycle!State
<1>7. ASSUME NEW e \in Evictors, Lifecycle!EvictionFails(e)
      PROVE  LifecycleInv'
  BY <1>7 DEF Lifecycle!EvictionFails, LifecycleInv, LifecycleTyped, Lifecycle!RecordsAgree,
     Lifecycle!Registered, Lifecycle!State
<1>8. ASSUME NEW e \in Evictors, Lifecycle!EvictionSucceeds(e)
      PROVE  LifecycleInv'
  <2> DEFINE m == eviction[e]
  <2>1. m \in Models /\ eviction' \in [Evictors -> Models \cup {Unregistered}]
    BY <1>8 DEF Lifecycle!EvictionSucceeds, LifecycleInv, LifecycleTyped
  <2>2. CASE Lifecycle!CanBecome(m, "UNLOADED")
    <3> DEFINE to == [models[m] EXCEPT !.state = "UNLOADED", !.resident = FALSE, !.confirmed = TRUE]
    <3>1. models[m] \in Lifecycle!Record
      BY <2>1, <2>2 DEF Lifecycle!CanBecome, Lifecycle!Registered, LifecycleInv, LifecycleTyped
    <3>2. to \in Lifecycle!Record /\ to.state = "UNLOADED" /\ ~to.resident
      BY <3>1 DEF Lifecycle!Record, Lifecycle!ModelStates
    <3>3. models' = [models EXCEPT ![m] = to]
      BY <1>8, <2>2 DEF Lifecycle!EvictionSucceeds
    <3> QED
      BY <2>1, <3>2, <3>3, RecordMoves
  <2>3. CASE ~Lifecycle!CanBecome(m, "UNLOADED")
    BY <1>8, <2>1, <2>3 DEF Lifecycle!EvictionSucceeds, LifecycleInv, LifecycleTyped,
       Lifecycle!RecordsAgree, Lifecycle!Registered, Lifecycle!State
  <2> QED
    BY <2>2, <2>3
<1> QED
  BY <1>1, <1>2, <1>3, <1>5, <1>6, <1>7, <1>8 DEF Lifecycle!Next

LEMMA BusySteps == LifecycleInv /\ [Lifecycle!Next]_lifecycleVars =>
                      \A m \in Models : Lifecycle!Registered(m) /\ Lifecycle!State(m) = "BUSY" =>
                         /\ models'[m] # Unregistered
                         /\ models'[m].state # "UNLOADED"
                         /\ models'[m].state = "IDLE" => models[m].acquisitions = 1
<1> SUFFICES ASSUME LifecycleInv, [Lifecycle!Next]_lifecycleVars, NEW m \in Models,
                    Lifecycle!Registered(m), models[m].state = "BUSY"
             PROVE  /\ models'[m] # Unregistered
                    /\ models'[m].state # "UNLOADED"
                    /\ models'[m].state = "IDLE" => models[m].acquisitions = 1
  BY DEF Lifecycle!State
<1> DEFINE Spared == /\ models'[m] # Unregistered
                     /\ models'[m].state # "UNLOADED"
                     /\ models'[m].state = "IDLE" => models[m].acquisitions = 1
<1>1. models[m] \in Lifecycle!Record /\ models[m].acquisitions \in Nat
  BY DEF LifecycleInv, LifecycleTyped, Lifecycle!Registered, Lifecycle!Record
<1>2. CASE models'[m] = models[m]
  BY <1>2 DEF Lifecycle!Registered
<1>3. models[m].acquisitions > 0
  BY DEF LifecycleInv, Lifecycle!RecordsAgree, Lifecycle!State
<1>4. ~Lifecycle!CanBecome(m, "UNLOADED") /\ models'[m] \in Lifecycle!Record \cup {Unregistered}
  BY <1>1, Transitions, LifecycleMoves
  DEF Lifecycle!CanBecome, Lifecycle!State, Lifecycle!Record, LifecycleInv, LifecycleTyped
<1>5. ASSUME NEW x \in Models,
             \/ Lifecycle!RegisterModel(x) \/ Lifecycle!UnregisterModel(x)
             \/ \E b \in BOOLEAN : Lifecycle!RecordUnloaded(x, b)
      PROVE  models'[m] = models[m]
  BY <1>5 DEF Lifecycle!RegisterModel, Lifecycle!UnregisterModel, Lifecycle!RecordUnloaded,
     Lifecycle!Becomes, Lifecycle!State, LifecycleInv, LifecycleTyped
<1>6. ASSUME NEW to \in Lifecycle!Record, models'[m] = to, to.state # "UNLOADED",
             to.state = "IDLE" => models[m].acquisitions = 1
      PROVE  Spared
  BY <1>6, UnregisteredAssumption
<1>7. ASSUME NEW x \in Models,
             \/ Lifecycle!RecordAcquire(x) \/ Lifecycle!RecordRelease(x) \/ Lifecycle!RecordError(x)
      PROVE  Spared
  <2> DEFINE Counting(state, n) == [models[m] EXCEPT !.state = state, !.acquisitions = n]
  <2>1. ASSUME NEW state \in {"BUSY", "ERROR", "IDLE"}, NEW n \in Nat,
               models' = [models EXCEPT ![m] = Counting(state, n)],
               state = "IDLE" => models[m].acquisitions = 1
        PROVE  Spared
    <3>1. Counting(state, n) \in Lifecycle!Record /\ Counting(state, n).state = state
      BY <1>1 DEF Lifecycle!Record, Lifecycle!ModelStates
    <3>2. models'[m] = Counting(state, n)
      BY <2>1 DEF LifecycleInv, LifecycleTyped
    <3> HIDE DEF Counting
    <3> QED
      BY <2>1, <3>1, <3>2, <1>6
  <2>2. CASE x # m
    BY <1>2, <1>7, <2>2 DEF Lifecycle!RecordAcquire, Lifecycle!RecordRelease, Lifecycle!RecordError,
       Lifecycle!Becomes, LifecycleInv, LifecycleTyped
  <2>3. CASE x = m /\ Lifecycle!RecordAcquire(x)
    <3>1. models' = [models EXCEPT ![m] = Counting("BUSY", models[m].acquisitions + 1)]
      BY <2>3 DEF Lifecycle!RecordAcquire, Lifecycle!Becomes
    <3>2. models[m].acquisitions + 1 \in Nat
      BY <1>1
    <3> QED
      BY <2>1, <3>1, <3>2
  <2>4. CASE x = m /\ Lifecycle!RecordRelease(x)
    <3> DEFINE left == models[m].acquisitions - 1
    <3>1. left \in Nat /\ (left = 0 => models[m].acquisitions = 1)
      BY <1>1, <1>3
    <3>2. Lifecycle!Becomes(m, [models[m] EXCEPT !.acquisitions = left,
                                                 !.state = IF left = 0 THEN "IDLE" ELSE "BUSY"])
      BY <1>1, <1>3, <2>4 DEF Lifecycle!RecordRelease
    <3> HIDE DEF left
    <3>3. models' = [models EXCEPT ![m] = Counting(IF left = 0 THEN "IDLE" ELSE "BUSY", left)]
      BY <1>1, <3>2 DEF Lifecycle!Becomes, Lifecycle!Record
    <3> QED
      BY <2>1, <3>1, <3>3
  <2>5. CASE x = m /\ Lifecycle!RecordError(x)
    <3>1. models' = [models EXCEPT ![m] = Counting("ERROR", 0)]
      BY <2>5 DEF Lifecycle!RecordError, Lifecycle!Becomes
    <3> QED
      BY <2>1, <3>1
  <2> QED
    BY <1>7, <2>2, <2>3, <2>4, <2>5
<1>8. ASSUME NEW x \in Models, NEW b \in BOOLEAN, Lifecycle!RecordReady(x, b)
      PROVE  Spared
  <2>1. CASE x # m
    BY <1>2, <1>8, <2>1 DEF Lifecycle!RecordReady, Lifecycle!Becomes, LifecycleInv, LifecycleTyped
  <2>2. CASE x = m
    <3> DEFINE to == [models[m] EXCEPT !.state = "READY", !.resident = b, !.confirmed = FALSE]
    <3>1. models'[m] = to
      BY <1>8, <2>2 DEF Lifecycle!RecordReady, Lifecycle!Becomes, Lifecycle!State, LifecycleInv,
         LifecycleTyped
    <3>2. to \in Lifecycle!Record /\ to.state = "READY"
      BY <1>1 DEF Lifecycle!Record, Lifecycle!ModelStates
    <3> HIDE DEF to
    <3> QED
      BY <1>6, <3>1, <3>2
  <2> QED
    BY <2>1, <2>2
<1>9. ASSUME NEW e \in Evictors,
             \/ \E x \in Models : Lifecycle!TriggerEviction(e, x)
             \/ Lifecycle!EvictionFails(e) \/ Lifecycle!EvictionSucceeds(e)
      PROVE  models'[m] = models[m]
  BY <1>4, <1>9 DEF Lifecycle!TriggerEviction, Lifecycle!EvictionFails, Lifecycle!EvictionSucceeds,
     LifecycleInv, LifecycleTyped
<1>10. CASE UNCHANGED lifecycleVars
  BY <1>2, <1>10 DEF lifecycleVars
<1> QED
  BY <1>2, <1>5, <1>6, <1>7, <1>8, <1>9, <1>10 DEF Lifecycle!Next

(* Nobody takes a model away from those who use it: however acquisitions,   *)
(* releases, errors, unloads and eviction hooks interleave, one in use is   *)
(* neither unloaded nor unregistered, and only its last user's release     *)
(* makes it idle (record_release, trigger_eviction).                       *)
THEOREM BusyModelsAreSpared == ServicesSpec => BusyIsSpared
<1>1. ServicesInit => LifecycleInv
  BY LifecycleStarts DEF ServicesInit
<1>2. LifecycleInv /\ [ServicesNext]_serviceVars => LifecycleInv'
  BY LifecycleMoves, EachPartByItself
<1>3. LifecycleInv /\ [ServicesNext]_serviceVars =>
         [\A m \in Models : Lifecycle!Registered(m) /\ Lifecycle!State(m) = "BUSY" =>
             /\ models'[m] # Unregistered
             /\ models'[m].state # "UNLOADED"
             /\ models'[m].state = "IDLE" => models[m].acquisitions = 1]_lifecycleVars
  BY BusySteps, EachPartByItself
<1> QED
  BY <1>1, <1>2, <1>3, PTL DEF ServicesSpec, BusyIsSpared, Lifecycle!BusyIsSpared,
     Lifecycle!lifecycleVars, lifecycleVars

-----------------------------------------------------------------------------
(* Agent and orchestrator *)

(***************************************************************************)
(* That nothing is left behind when a request has ended follows from where *)
(* each thing may be held while it runs.                                   *)
(***************************************************************************)
HeldAt(place) ==
    /\ lease => place \in {"think", "yielded"}
    /\ hook # "inner" => place \in {"confirm", "running", "drain", "kill drain"}
    /\ agent = "WAITING_CONFIRMATION" => place = "confirm"
    /\ agent = "ACTING" => place \in {"running", "drain", "kill drain"}

AgentInv == "pc" \in DOMAIN asked /\ HeldAt(asked.pc)

(* Where the request is after a step. *)
ComesTo(place) == "pc" \in DOMAIN asked' /\ asked'.pc = place

LEMMA AgentStarts == Agent!Init => AgentInv
BY DEF Agent!Init, Agent!NoRequest, AgentInv, HeldAt

LEMMA AfterATool ==
    ASSUME "pc" \in DOMAIN asked, NEW left,
           \/ asked' = Agent!NoRequest
           \/ asked' = [asked EXCEPT !.tools = left, !.pc = IF left = 0 THEN "step" ELSE "tools"]
    PROVE  \E place \in {"none", "tools", "step"} : ComesTo(place)
<1>1. CASE asked' = Agent!NoRequest
  BY <1>1 DEF Agent!NoRequest, ComesTo
<1>2. CASE asked' = [asked EXCEPT !.tools = left, !.pc = IF left = 0 THEN "step" ELSE "tools"]
  <2>1. asked'.pc = IF left = 0 THEN "step" ELSE "tools"
    BY <1>2
  <2> QED
    BY <1>2, <2>1 DEF ComesTo
<1> QED
  BY <1>1, <1>2

LEMMA AgentMoves == AgentInv /\ [Agent!Next]_agentVars => AgentInv'
<1> SUFFICES ASSUME AgentInv, [Agent!Next]_agentVars
             PROVE  AgentInv'
  OBVIOUS
<1> USE DEF AgentInv, Agent!Awaits, Agent!At, Agent!Goes, Agent!Ends, Agent!Cancelled,
        Agent!Terminated, Agent!Raises, Agent!NoRequest
<1>1. CASE Agent!Begin
  <2>1. \E place \in {"route"} : ComesTo(place)
    BY <1>1 DEF Agent!Begin, ComesTo
  <2>2. \A place \in {"route"} : HeldAt(place)'
    BY <1>1 DEF Agent!Begin, HeldAt
  <2> QED
    BY <2>1, <2>2 DEF ComesTo, HeldAt
<1>2. CASE Agent!CancelledAtOnce
  <2>1. \E place \in {"none"} : ComesTo(place)
    BY <1>2 DEF Agent!CancelledAtOnce, ComesTo
  <2>2. \A place \in {"none"} : HeldAt(place)'
    BY <1>2 DEF Agent!CancelledAtOnce, HeldAt
  <2> QED
    BY <2>1, <2>2 DEF ComesTo, HeldAt
<1>3. CASE Agent!RoutedToLoop
  <2>1. \E place \in {"step"} : ComesTo(place)
    BY <1>3 DEF Agent!RoutedToLoop, ComesTo
  <2>2. \A place \in {"step"} : HeldAt(place)'
    BY <1>3 DEF Agent!RoutedToLoop, HeldAt
  <2> QED
    BY <2>1, <2>2 DEF ComesTo, HeldAt
<1>4. CASE Agent!RoutedToTool
  <2>1. \E place \in {"tools"} : ComesTo(place)
    BY <1>4 DEF Agent!RoutedToTool, ComesTo
  <2>2. \A place \in {"tools"} : HeldAt(place)'
    BY <1>4 DEF Agent!RoutedToTool, HeldAt
  <2> QED
    BY <2>1, <2>2 DEF ComesTo, HeldAt
<1>5. CASE Agent!NoModel
  <2>1. \E place \in {"none"} : ComesTo(place)
    BY <1>5 DEF Agent!NoModel, ComesTo
  <2>2. \A place \in {"none"} : HeldAt(place)'
    BY <1>5 DEF Agent!NoModel, HeldAt
  <2> QED
    BY <2>1, <2>2 DEF ComesTo, HeldAt
<1>6. CASE Agent!Step
  <2>1. \E place \in {"lease", "none"} : ComesTo(place)
    <3>1. CASE asked' = Agent!NoRequest
      BY <3>1 DEF ComesTo
    <3>2. CASE asked' = [asked EXCEPT !.pc = "lease", !.step = @ + 1, !.chunks = MaxChunks]
      BY <3>2 DEF ComesTo
    <3> QED
      BY <1>6, <3>1, <3>2 DEF Agent!Step
  <2>2. \A place \in {"lease", "none"} : HeldAt(place)'
    BY <1>6 DEF Agent!Step, HeldAt
  <2> QED
    BY <2>1, <2>2 DEF ComesTo, HeldAt
<1>7. CASE Agent!StepCancelled
  <2>1. \E place \in {"none"} : ComesTo(place)
    BY <1>7 DEF Agent!StepCancelled, ComesTo
  <2>2. \A place \in {"none"} : HeldAt(place)'
    BY <1>7 DEF Agent!StepCancelled, HeldAt
  <2> QED
    BY <2>1, <2>2 DEF ComesTo, HeldAt
<1>8. CASE Agent!OutOfSteps
  <2>1. \E place \in {"none"} : ComesTo(place)
    BY <1>8 DEF Agent!OutOfSteps, ComesTo
  <2>2. \A place \in {"none"} : HeldAt(place)'
    BY <1>8 DEF Agent!OutOfSteps, HeldAt
  <2> QED
    BY <2>1, <2>2 DEF ComesTo, HeldAt
<1>9. CASE Agent!LeaseGranted
  <2>1. \E place \in {"think"} : ComesTo(place)
    BY <1>9 DEF Agent!LeaseGranted, ComesTo
  <2>2. \A place \in {"think"} : HeldAt(place)'
    BY <1>9 DEF Agent!LeaseGranted, HeldAt
  <2> QED
    BY <2>1, <2>2 DEF ComesTo, HeldAt
<1>10. CASE Agent!ModelFails
  <2>1. \E place \in {"none"} : ComesTo(place)
    BY <1>10 DEF Agent!ModelFails, ComesTo
  <2>2. \A place \in {"none"} : HeldAt(place)'
    BY <1>10 DEF Agent!ModelFails, HeldAt
  <2> QED
    BY <2>1, <2>2 DEF ComesTo, HeldAt
<1>11. CASE Agent!Chunk
  <2>1. CASE token
    <3>1. ComesTo("none") /\ HeldAt("none")'
      BY <1>11, <2>1 DEF Agent!Chunk, ComesTo, HeldAt
    <3> QED
      BY <3>1 DEF ComesTo, HeldAt
  <2>2. CASE ~token
    <3>1. ComesTo("yielded")
      BY <1>11, <2>2 DEF Agent!Chunk, ComesTo
    <3>2. HeldAt("yielded")'
      BY <1>11, <2>2 DEF Agent!Chunk, HeldAt
    <3> QED
      BY <3>1, <3>2 DEF ComesTo, HeldAt
  <2> QED
    BY <2>1, <2>2
<1>12. CASE Agent!Consumed
  <2>1. \E place \in {"think"} : ComesTo(place)
    BY <1>12 DEF Agent!Consumed, ComesTo
  <2>2. \A place \in {"think"} : HeldAt(place)'
    BY <1>12 DEF Agent!Consumed, HeldAt
  <2> QED
    BY <2>1, <2>2 DEF ComesTo, HeldAt
<1>13. CASE Agent!Closed
  <2>1. \E place \in {"none"} : ComesTo(place)
    BY <1>13 DEF Agent!Closed, ComesTo
  <2>2. \A place \in {"none"} : HeldAt(place)'
    BY <1>13 DEF Agent!Closed, HeldAt
  <2> QED
    BY <2>1, <2>2 DEF ComesTo, HeldAt
<1>14. CASE Agent!Answered
  <2>1. \E place \in {"none", "tools"} : ComesTo(place)
    <3>1. CASE asked' = Agent!NoRequest
      BY <3>1 DEF ComesTo
    <3>2. ASSUME NEW n \in 1 .. MaxTools, asked' = [asked EXCEPT !.pc = "tools", !.tools = n]
          PROVE  ComesTo("tools")
      BY <3>2 DEF ComesTo
    <3> QED
      BY <1>14, <3>1, <3>2 DEF Agent!Answered
  <2>2. \A place \in {"none", "tools"} : HeldAt(place)'
    BY <1>14 DEF Agent!Answered, HeldAt
  <2> QED
    BY <2>1, <2>2 DEF ComesTo, HeldAt
<1>15. CASE Agent!KilledThinking
  <2>1. \E place \in {"none"} : ComesTo(place)
    BY <1>15 DEF Agent!KilledThinking, ComesTo
  <2>2. \A place \in {"none"} : HeldAt(place)'
    BY <1>15 DEF Agent!KilledThinking, HeldAt
  <2> QED
    BY <2>1, <2>2 DEF ComesTo, HeldAt
<1>16. CASE Agent!ToolCancelled
  <2>1. \E place \in {"none"} : ComesTo(place)
    BY <1>16 DEF Agent!ToolCancelled, ComesTo
  <2>2. \A place \in {"none"} : HeldAt(place)'
    BY <1>16 DEF Agent!ToolCancelled, HeldAt
  <2> QED
    BY <2>1, <2>2 DEF ComesTo, HeldAt
<1>17. CASE Agent!ToolRaises
  <2>1. \E place \in {"none"} : ComesTo(place)
    BY <1>17 DEF Agent!ToolRaises, ComesTo
  <2>2. \A place \in {"none"} : HeldAt(place)'
    BY <1>17 DEF Agent!ToolRaises, HeldAt
  <2> QED
    BY <2>1, <2>2 DEF ComesTo, HeldAt
<1>18. CASE Agent!ToolRefused
  <2>1. \E place \in {"none", "tools", "step"} : ComesTo(place)
    <3> DEFINE left == asked.tools - 1
    <3>1. \/ asked' = Agent!NoRequest
          \/ asked' = [asked EXCEPT !.tools = left, !.pc = IF left = 0 THEN "step" ELSE "tools"]
      BY <1>18 DEF Agent!ToolRefused
    <3> HIDE DEF left
    <3> QED
      BY <3>1, AfterATool
  <2>2. \A place \in {"none", "tools", "step"} : HeldAt(place)'
    BY <1>18 DEF Agent!ToolRefused, Agent!ToolBegins, HeldAt
  <2> QED
    BY <2>1, <2>2 DEF ComesTo, HeldAt
<1>19. CASE Agent!ToolAsks
  <2>1. \E place \in {"confirm"} : ComesTo(place)
    BY <1>19 DEF Agent!ToolAsks, ComesTo
  <2>2. \A place \in {"confirm"} : HeldAt(place)'
    BY <1>19 DEF Agent!ToolAsks, Agent!ToolBegins, HeldAt
  <2> QED
    BY <2>1, <2>2 DEF ComesTo, HeldAt
<1>20. CASE Agent!ToolStarts
  <2>1. \E place \in {"running"} : ComesTo(place)
    BY <1>20 DEF Agent!ToolStarts, ComesTo
  <2>2. \A place \in {"running"} : HeldAt(place)'
    BY <1>20 DEF Agent!ToolStarts, Agent!ToolBegins, HeldAt
  <2> QED
    BY <2>1, <2>2 DEF ComesTo, HeldAt
<1>21. CASE Agent!Confirmed
  <2>1. \E place \in {"running"} : ComesTo(place)
    BY <1>21 DEF Agent!Confirmed, ComesTo
  <2>2. \A place \in {"running"} : HeldAt(place)'
    BY <1>21 DEF Agent!Confirmed, HeldAt
  <2> QED
    BY <2>1, <2>2 DEF ComesTo, HeldAt
<1>22. CASE Agent!Denied
  <2>1. \E place \in {"none", "tools", "step"} : ComesTo(place)
    <3> DEFINE left == asked.tools - 1
    <3>1. \/ asked' = Agent!NoRequest
          \/ asked' = [asked EXCEPT !.tools = left, !.pc = IF left = 0 THEN "step" ELSE "tools"]
      BY <1>22 DEF Agent!Denied, Agent!Observed
    <3> HIDE DEF left
    <3> QED
      BY <3>1, AfterATool
  <2>2. \A place \in {"none", "tools", "step"} : HeldAt(place)'
    BY <1>22 DEF Agent!Denied, Agent!Observed, HeldAt
  <2> QED
    BY <2>1, <2>2 DEF ComesTo, HeldAt
<1>23. CASE Agent!ToolReturns
  <2>1. \E place \in {"none", "tools", "step"} : ComesTo(place)
    <3> DEFINE left == asked.tools - 1
    <3>1. \/ asked' = Agent!NoRequest
          \/ asked' = [asked EXCEPT !.tools = left, !.pc = IF left = 0 THEN "step" ELSE "tools"]
      BY <1>23 DEF Agent!ToolReturns, Agent!Observed
    <3> HIDE DEF left
    <3> QED
      BY <3>1, AfterATool
  <2>2. \A place \in {"none", "tools", "step"} : HeldAt(place)'
    BY <1>23 DEF Agent!ToolReturns, Agent!Observed, HeldAt
  <2> QED
    BY <2>1, <2>2 DEF ComesTo, HeldAt
<1>24. CASE Agent!ToolTimesOut
  <2>1. \E place \in {"drain"} : ComesTo(place)
    BY <1>24 DEF Agent!ToolTimesOut, ComesTo
  <2>2. \A place \in {"drain"} : HeldAt(place)'
    BY <1>24 DEF Agent!ToolTimesOut, HeldAt
  <2> QED
    BY <2>1, <2>2 DEF ComesTo, HeldAt
<1>25. CASE Agent!Drained
  <2>1. \E place \in {"none", "tools", "step"} : ComesTo(place)
    <3> DEFINE left == asked.tools - 1
    <3>1. \/ asked' = Agent!NoRequest
          \/ asked' = [asked EXCEPT !.tools = left, !.pc = IF left = 0 THEN "step" ELSE "tools"]
      BY <1>25 DEF Agent!Drained
    <3> HIDE DEF left
    <3> QED
      BY <3>1, AfterATool
  <2>2. \A place \in {"none", "tools", "step"} : HeldAt(place)'
    BY <1>25 DEF Agent!Drained, HeldAt
  <2> QED
    BY <2>1, <2>2 DEF ComesTo, HeldAt
<1>26. CASE Agent!KilledRunning
  <2>1. \E place \in {"kill drain"} : ComesTo(place)
    BY <1>26 DEF Agent!KilledRunning, ComesTo
  <2>2. \A place \in {"kill drain"} : HeldAt(place)'
    BY <1>26 DEF Agent!KilledRunning, HeldAt
  <2> QED
    BY <2>1, <2>2 DEF ComesTo, HeldAt
<1>27. CASE Agent!KilledActing
  <2>1. \E place \in {"none"} : ComesTo(place)
    BY <1>27 DEF Agent!KilledActing, ComesTo
  <2>2. \A place \in {"none"} : HeldAt(place)'
    BY <1>27 DEF Agent!KilledActing, HeldAt
  <2> QED
    BY <2>1, <2>2 DEF ComesTo, HeldAt
<1>28. CASE Agent!CancelToken \/ Agent!Kill \/ Agent!LateHandlerEnds
  <2>1. UNCHANGED <<asked, agent, lease, hook>>
    BY <1>28 DEF Agent!CancelToken, Agent!Kill, Agent!LateHandlerEnds
  <2> QED
    BY <2>1 DEF HeldAt
<1>29. CASE UNCHANGED agentVars
  BY <1>29 DEF agentVars, HeldAt
<1> QED
  BY <1>1, <1>2, <1>3, <1>4, <1>5, <1>6, <1>7, <1>8, <1>9, <1>10, <1>11, <1>12, <1>13, <1>14,
     <1>15, <1>16, <1>17, <1>18, <1>19, <1>20, <1>21, <1>22, <1>23, <1>24, <1>25, <1>26, <1>27,
     <1>28, <1>29
  DEF Agent!Next

(* However a request ends, the lease on the reasoning model is back, the    *)
(* executor has its own confirmation hook again and the agent is not in    *)
(* the middle of an action (stream, execute_tool).                         *)
THEOREM RequestsLeaveNothingBehind == ServicesSpec => []NothingLeftBehind
<1>1. AgentInv => NothingLeftBehind
  BY DEF AgentInv, NothingLeftBehind, Agent!NothingLeftBehind, Agent!At, HeldAt
<1>2. ServicesInit => AgentInv
  BY AgentStarts DEF ServicesInit
<1>3. AgentInv /\ [ServicesNext]_serviceVars => AgentInv'
  BY AgentMoves, EachPartByItself
<1> QED
  BY <1>1, <1>2, <1>3, PTL DEF ServicesSpec

-----------------------------------------------------------------------------
(* Application *)

(* The parts that _shutdown has passed when it comes to p. *)
Passed(p) == CASE p = "tray"    -> {}
               [] p = "core"    -> {"tray"}
               [] p = "console" -> {"tray", "core"}
               [] p = "memory"  -> {"tray", "core", "console"}
               [] p = "link"    -> {"tray", "core", "console", "memory"}
               [] OTHER         -> {"tray", "core", "console", "memory", "link"}

(***************************************************************************)
(* What has been passed is not up, and nothing comes up any more.          *)
(***************************************************************************)
AppInv ==
    /\ part \in [Program!Parts -> {"none", "up", "down", "half"}]
    /\ gone \in Seq(Program!Parts)
    /\ pc \in Program!Parts \cup {"exited", "ended"} => \A p \in Passed(pc) : part[p] # "up"
    /\ (\E k \in 1 .. Len(gone) : gone[k] = "link") => pc \in {"exited", "ended"}
    /\ pc = "ended" => main \notin {"reading", "answering", "listening"}

LEMMA AppStarts == Program!Init => AppInv
BY DEF Program!Init, AppInv, Program!Parts

LEMMA PartsInTurn ==
    /\ Program!After("tray") = "core" /\ Program!After("core") = "console"
    /\ Program!After("console") = "memory" /\ Program!After("memory") = "link"
    /\ Program!After("link") = "exited"
<1>1. Program!Order = <<"tray", "core", "console", "memory", "link">>
  BY DEF Program!Order
<1>2. DOMAIN Program!Order = 1 .. 5 /\ Len(Program!Order) = 5
  BY <1>1
<1>3. ASSUME NEW n \in 1 .. 5
      PROVE  (CHOOSE k \in DOMAIN Program!Order : Program!Order[k] = Program!Order[n]) = n
  BY <1>1, <1>2
<1> QED
  BY <1>1, <1>2, <1>3 DEF Program!After

LEMMA AppMoves == AppInv /\ [Program!Next]_appVars => AppInv'
<1> SUFFICES ASSUME AppInv, [Program!Next]_appVars
             PROVE  AppInv'
  OBVIOUS
<1> USE DEF AppInv, Program!Parts
<1>1. CASE Program!Signal \/ Program!ArgumentsParsed
  BY <1>1 DEF Program!Signal, Program!ArgumentsParsed, Program!setUp, Passed
<1>2. CASE Program!Configured \/ Program!Connected \/ Program!NotConnected
  BY <1>2 DEF Program!Configured, Program!Connected, Program!NotConnected, Program!setUp,
     Program!Turns, Passed
<1>3. CASE Program!Wired \/ Program!SetupFails
  BY <1>3 DEF Program!Wired, Program!SetupFails, Program!Leading, Program!setUp, Program!Turns,
     Passed
<1>4. CASE Program!LineTyped \/ Program!LineAnswered \/ Program!MainEnds \/ Program!LateLine
  BY <1>4 DEF Program!LineTyped, Program!LineAnswered, Program!MainEnds, Program!LateLine,
     Program!running
<1>5. CASE Program!WaitReturns \/ Program!StopMain \/ Program!Cancel
  <2>1. CASE Program!WaitReturns \/ Program!StopMain
    BY <2>1 DEF Program!WaitReturns, Program!StopMain, Program!Turns, Passed
  <2>2. CASE Program!Cancel
    <3>1. pc = "cancel" /\ pc' = "tray" /\ part' = part /\ gone' = gone
      BY <2>2, Zenon DEF Program!Cancel
    <3> QED
      BY <3>1 DEF Passed
  <2> QED
    BY <1>5, <2>1, <2>2
<1>6. CASE Program!TakeDown
  <2>1. part' \in [Program!Parts -> {"none", "up", "down", "half"}] /\ gone' \in Seq(Program!Parts)
    BY <1>6 DEF Program!TakeDown, Program!Turns
  <2>2. /\ pc \in Program!Parts /\ pc' = Program!After(pc) /\ main' = main
        /\ \A p \in Program!Parts : part'[p] = "up" => part[p] = "up" /\ p # pc
    BY <1>6 DEF Program!TakeDown, Program!Turns
  <2>3. Passed(pc') = Passed(pc) \cup {pc}
    BY <2>2, PartsInTurn DEF Passed
  <2>4. \A p \in Passed(pc') : part'[p] # "up"
    BY <2>2, <2>3 DEF Passed
  <2>5. ASSUME NEW k \in 1 .. Len(gone'), gone'[k] = "link"
        PROVE  pc' = "exited"
    <3>1. gone' = gone \/ gone' = Append(gone, pc)
      BY <1>6 DEF Program!TakeDown
    <3>2. pc = "link" \/ \E j \in 1 .. Len(gone) : gone[j] = "link"
      BY <2>5, <3>1, <2>2
    <3> QED
      BY <2>2, <3>2, PartsInTurn
  <2>6. pc' # "ended"
    BY <2>2, PartsInTurn
  <2> QED
    BY <2>1, <2>4, <2>5, <2>6
<1>7. CASE Program!ProcessEnds
  BY <1>7 DEF Program!ProcessEnds, Program!Ended, Passed
<1>8. CASE UNCHANGED appVars
  BY <1>8 DEF appVars
<1> QED
  BY <1>1, <1>2, <1>3, <1>4, <1>5, <1>6, <1>7, <1>8 DEF Program!Next

(* Wherever the program is interrupted and whatever fails, when run()       *)
(* returns no part is left up, and the link went down after those that     *)
(* speak over it (_shutdown).                                              *)
THEOREM NothingIsLeftUp == ServicesSpec => []EverythingIsTakenDown
<1>1. AppInv => EverythingIsTakenDown
  BY DEF AppInv, EverythingIsTakenDown, Program!EverythingIsTakenDown, Program!Parts, Passed,
     Program!ToSet
<1>2. ServicesInit => AppInv
  BY AppStarts DEF ServicesInit
<1>3. AppInv /\ [ServicesNext]_serviceVars => AppInv'
  BY AppMoves, EachPartByItself
<1> QED
  BY <1>1, <1>2, <1>3, PTL DEF ServicesSpec

-----------------------------------------------------------------------------
(* Loop detector *)

(***************************************************************************)
(* The counter is at least as long as the run of calls in vain that ends   *)
(* the history, because the remembered outcome is that of the last call    *)
(* whenever that call succeeded.                                           *)
(***************************************************************************)
Detectors == [tool : Tools \cup {None}, outcome : Outputs \cup Errors \cup {None},
              toolCount : Nat, screen : Screens \cup {None}, screenCount : Nat,
              reason : Reasons]

(* The last k calls repeat one another in vain. *)
VainRun(k) ==
    \A j \in (Len(calls) - k + 2) .. Len(calls) : j >= 2 /\ RepeatsInVain(j)

StillRun(k) ==
    \A j \in (Len(screens) - k + 2) .. Len(screens) : j >= 2 /\ ShowsTheSame(j)

Remembers ==
    calls # <<>> =>
        /\ detector.tool = calls[Len(calls)].tool
        /\ calls[Len(calls)].ok => detector.outcome = calls[Len(calls)].outcome

Sees == screens # <<>> => detector.screen = screens[Len(screens)]

CountsCalls == \A k \in 1 .. Len(calls) : VainRun(k) => detector.toolCount >= k
CountsScreens == \A k \in 1 .. Len(screens) : StillRun(k) => detector.screenCount >= k

FindsCalls == \A i \in 1 .. Len(calls) : ToolLoopAt(i) => detector.reason # None
FindsScreens == \A i \in 1 .. Len(screens) : ScreenLoopAt(i) => detector.reason # None

LoopInv ==
    /\ TypeOK
    /\ Remembers /\ CountsCalls /\ FindsCalls
    /\ Sees /\ CountsScreens /\ FindsScreens

LEMMA LoopStarts == Init => LoopInv
  BY NoneAssumption DEF Init, LoopInv, TypeOK, Fresh, Reasons, Remembers, CountsCalls, FindsCalls,
     Sees, CountsScreens, FindsScreens

(* One more call: the counter keeps up with the run. *)
LEMMA CallKeeps ==
  ASSUME LoopInv, NEW c \in Calls, RecordToolCall(c.tool, c.outcome, c.ok)
  PROVE  LoopInv'
<1> SUFFICES ASSUME NEW n, n = Len(calls)
             PROVE  LoopInv'
  OBVIOUS
<1> DEFINE d == Counted(c.tool, c.outcome, c.ok)
<1>c. c = [tool |-> c.tool, outcome |-> c.outcome, ok |-> c.ok]
  BY DEF Calls
<1>0. /\ c.tool \in Tools /\ c.outcome \in Outputs \cup Errors /\ c.ok \in BOOLEAN
      /\ c.ok => c.outcome \in Outputs
      /\ ~c.ok => c.outcome \in Errors
  BY DEF Calls
<1>1. /\ n \in Nat /\ calls \in Seq(Calls) /\ calls' = Append(calls, c)
      /\ Len(calls') = n + 1 /\ calls'[n + 1] = c
      /\ \A i \in 1 .. n : calls'[i] = calls[i] /\ calls[i] \in Calls
  BY <1>c DEF LoopInv, TypeOK, RecordToolCall
<1>2. /\ d \in Detectors
      /\ d.reason = detector.reason /\ d.toolCount >= 1
      /\ d.screen = detector.screen /\ d.screenCount = detector.screenCount
      /\ d.tool = c.tool
      /\ c.ok => d.outcome = c.outcome
  <2>1. detector \in Detectors
    BY DEF LoopInv, TypeOK, Detectors
  <2>2. CASE Repeated(c.tool) /\ Ineffective(c.tool, c.outcome, c.ok)
    <3>1. d = [detector EXCEPT !.toolCount = @ + 1]
      BY <2>2 DEF Counted
    <3> QED
      BY <2>1, <2>2, <3>1 DEF Repeated, Ineffective, Detectors
  <2>3. CASE ~(Repeated(c.tool) /\ Ineffective(c.tool, c.outcome, c.ok))
    <3>1. d = [[[detector EXCEPT !.toolCount = 1] EXCEPT !.tool = c.tool]
                  EXCEPT !.outcome = c.outcome]
      BY <2>3 DEF Counted
    <3> HIDE DEF d
    <3>2. d \in Detectors
      BY <2>1, <3>1, <1>0 DEF Detectors
    <3> QED
      BY <2>1, <3>1, <3>2 DEF Detectors
  <2> QED
    BY <2>2, <2>3
<1>3. /\ detector' = [d EXCEPT !.reason = IF d.toolCount >= ToolThreshold THEN "tool" ELSE @]
      /\ detector' \in Detectors
      /\ detector'.toolCount = d.toolCount
      /\ detector'.tool = c.tool /\ (c.ok => detector'.outcome = c.outcome)
      /\ detector'.screen = detector.screen /\ detector'.screenCount = detector.screenCount
      /\ d.toolCount >= ToolThreshold => detector'.reason # None
      /\ detector.reason # None => detector'.reason # None
  <2>1. detector' = [d EXCEPT !.reason = IF d.toolCount >= ToolThreshold THEN "tool" ELSE @]
    BY DEF RecordToolCall, Judged
  <2> HIDE DEF d
  <2> QED
    BY <1>2, <2>1, NoneAssumption DEF Detectors, Reasons
<1>4. screens' = screens
  BY DEF RecordToolCall
<1> HIDE DEF d
<1>5. TypeOK'
  BY <1>0, <1>1, <1>3, <1>4 DEF TypeOK, LoopInv, Detectors
<1>6. Remembers'
  BY <1>1, <1>3 DEF Remembers
<1>7. ASSUME n >= 1, RepeatsInVain(n + 1)'
      PROVE  d.toolCount = detector.toolCount + 1
  <2>1. calls[n].tool = c.tool /\ (~c.ok \/ c.outcome = calls[n].outcome)
    BY <1>1, <1>7 DEF RepeatsInVain
  <2>2. calls # <<>>
    BY <1>1, <1>7
  <2>3. detector.tool = calls[n].tool /\ (calls[n].ok => detector.outcome = calls[n].outcome)
    BY <2>2 DEF LoopInv, Remembers
  <2>4. Repeated(c.tool)
    BY <2>1, <2>3 DEF Repeated
  <2>5. Ineffective(c.tool, c.outcome, c.ok)
    <3>1. CASE ~c.ok
      BY <3>1 DEF Ineffective
    <3>2. CASE c.ok
      <4>1. c.outcome \in Outputs /\ c.outcome = calls[n].outcome /\ calls[n] \in Calls
        BY <3>2, <1>0, <1>1, <1>7, <2>1
      <4>2. calls[n].ok
        BY <4>1, OutcomeAssumption DEF Calls
      <4> QED
        BY <4>1, <4>2, <2>3, <2>4 DEF Ineffective
    <3> QED
      BY <3>1, <3>2
  <2>6. d = [detector EXCEPT !.toolCount = @ + 1]
    BY <2>4, <2>5 DEF Counted, d
  <2> QED
    BY <2>6 DEF LoopInv, TypeOK
<1>8. CountsCalls'
  <2> SUFFICES ASSUME NEW k \in 1 .. (n + 1), VainRun(k)'
               PROVE  d.toolCount >= k
    BY <1>1, <1>3 DEF CountsCalls
  <2>1. CASE k = 1
    BY <2>1, <1>2
  <2>2. CASE k > 1
    <3>1. n >= 1 /\ k - 1 \in 1 .. n
      BY <2>2, <1>1
    <3>2. \A j \in (n - k + 3) .. (n + 1) : j >= 2 /\ RepeatsInVain(j)'
      BY <1>1 DEF VainRun
    <3>3. RepeatsInVain(n + 1)'
      BY <3>1, <3>2, <1>1
    <3>4. ASSUME NEW j \in (n - (k - 1) + 2) .. n
          PROVE  j >= 2 /\ RepeatsInVain(j)
      <4>1. j \in (n - k + 3) .. (n + 1)
        BY <1>1, <3>1
      <4>2. j >= 2 /\ RepeatsInVain(j)'
        BY <4>1, <3>2
      <4>3. j \in 1 .. n /\ j - 1 \in 1 .. n
        BY <4>2, <1>1
      <4> QED
        BY <4>2, <4>3, <1>1 DEF RepeatsInVain
    <3>5. VainRun(k - 1)
      BY <3>4 DEF VainRun
    <3>6. detector.toolCount >= k - 1
      BY <3>1, <3>5 DEF LoopInv, CountsCalls
    <3> QED
      BY <3>1, <3>3, <3>6, <1>7, <1>1 DEF LoopInv, TypeOK
  <2> QED
    BY <2>1, <2>2, <1>1
<1>9. FindsCalls'
  <2> SUFFICES ASSUME NEW i \in 1 .. (n + 1), ToolLoopAt(i)'
               PROVE  detector'.reason # None
    BY <1>1 DEF FindsCalls
  <2>0. i >= ToolThreshold /\ \A j \in (i - ToolThreshold + 2) .. i : RepeatsInVain(j)'
    BY DEF ToolLoopAt
  <2>1. CASE i <= n
    <3>1. ASSUME NEW j \in (i - ToolThreshold + 2) .. i
          PROVE  RepeatsInVain(j)
      <4>1. j \in 1 .. n /\ j - 1 \in 1 .. n
        BY <2>0, <2>1, <1>1, ThresholdAssumption
      <4> QED
        BY <2>0, <4>1, <1>1 DEF RepeatsInVain
    <3>2. ToolLoopAt(i)
      BY <2>0, <3>1 DEF ToolLoopAt
    <3> QED
      BY <2>1, <3>2, <1>1, <1>3 DEF LoopInv, FindsCalls
  <2>2. CASE i = n + 1
    <3>1. VainRun(ToolThreshold)'
      BY <2>0, <2>2, <1>1, ThresholdAssumption DEF VainRun
    <3>2. ToolThreshold \in 1 .. Len(calls')
      BY <2>0, <2>2, <1>1, ThresholdAssumption, ThresholdFloor
    <3>3. detector'.toolCount >= ToolThreshold
      BY <3>1, <3>2, <1>8 DEF CountsCalls
    <3> QED
      BY <3>3, <1>3
  <2> QED
    BY <2>1, <2>2, <1>1
<1>10. Sees' /\ CountsScreens' /\ FindsScreens'
  BY <1>3, <1>4 DEF LoopInv, Sees, CountsScreens, FindsScreens, StillRun, ShowsTheSame, ScreenLoopAt
<1> QED
  BY <1>5, <1>6, <1>8, <1>9, <1>10 DEF LoopInv

(* One more observation; the same argument with no failures in it. *)
LEMMA ObservationKeeps ==
  ASSUME LoopInv, NEW s \in Screens, RecordObservation(s)
  PROVE  LoopInv'
<1> SUFFICES ASSUME NEW n, n = Len(screens)
             PROVE  LoopInv'
  OBVIOUS
<1> DEFINE m == IF detector.screen = s THEN detector.screenCount + 1 ELSE 1
<1>1. /\ n \in Nat /\ screens \in Seq(Screens) /\ screens' = Append(screens, s)
      /\ Len(screens') = n + 1 /\ screens'[n + 1] = s
      /\ \A i \in 1 .. n : screens'[i] = screens[i]
      /\ calls' = calls
  BY DEF LoopInv, TypeOK, RecordObservation
<1>2. /\ detector \in Detectors
      /\ m \in Nat /\ m >= 1
  BY DEF LoopInv, TypeOK, Detectors
<1>3. /\ detector' \in Detectors
      /\ detector'.toolCount = detector.toolCount
      /\ detector'.tool = detector.tool /\ detector'.outcome = detector.outcome
      /\ detector'.screen = s /\ detector'.screenCount = m
      /\ m >= ObsThreshold => detector'.reason # None
      /\ detector.reason # None => detector'.reason # None
  <2>1. detector' = [[detector EXCEPT !.screen = s, !.screenCount = m]
                       EXCEPT !.reason = IF m >= ObsThreshold THEN "observation" ELSE @]
    BY DEF RecordObservation, Judged
  <2> HIDE DEF m
  <2> QED
    BY <1>2, <2>1, NoneAssumption DEF Detectors, Reasons
<1>4. ASSUME n >= 1, screens[n] = s
      PROVE  m = detector.screenCount + 1
  BY <1>4, <1>1 DEF LoopInv, Sees
<1> HIDE DEF m
<1>5. TypeOK'
  BY <1>1, <1>3 DEF LoopInv, TypeOK, Detectors
<1>6. Sees'
  BY <1>1, <1>3 DEF Sees
<1>7. CountsScreens'
  <2> SUFFICES ASSUME NEW k \in 1 .. (n + 1), StillRun(k)'
               PROVE  m >= k
    BY <1>1, <1>3 DEF CountsScreens
  <2>1. CASE k = 1
    BY <2>1, <1>2
  <2>2. CASE k > 1
    <3>1. n >= 1 /\ k - 1 \in 1 .. n
      BY <2>2, <1>1
    <3>2. \A j \in (n - k + 3) .. (n + 1) : j >= 2 /\ ShowsTheSame(j)'
      BY <1>1 DEF StillRun
    <3>3. screens[n] = s
      <4>1. ShowsTheSame(n + 1)'
        BY <3>1, <3>2, <1>1
      <4> QED
        BY <4>1, <3>1, <1>1 DEF ShowsTheSame
    <3>4. ASSUME NEW j \in (n - (k - 1) + 2) .. n
          PROVE  j >= 2 /\ ShowsTheSame(j)
      <4>1. j \in (n - k + 3) .. (n + 1)
        BY <1>1, <3>1
      <4>2. j >= 2 /\ ShowsTheSame(j)'
        BY <4>1, <3>2
      <4>3. j \in 1 .. n /\ j - 1 \in 1 .. n
        BY <4>2, <1>1
      <4> QED
        BY <4>2, <4>3, <1>1 DEF ShowsTheSame
    <3>5. StillRun(k - 1)
      BY <3>4 DEF StillRun
    <3>6. detector.screenCount >= k - 1
      BY <3>1, <3>5 DEF LoopInv, CountsScreens
    <3> QED
      BY <3>1, <3>3, <3>6, <1>4, <1>1, <1>2 DEF Detectors
  <2> QED
    BY <2>1, <2>2, <1>1
<1>8. FindsScreens'
  <2> SUFFICES ASSUME NEW i \in 1 .. (n + 1), ScreenLoopAt(i)'
               PROVE  detector'.reason # None
    BY <1>1 DEF FindsScreens
  <2>0. i >= ObsThreshold /\ \A j \in (i - ObsThreshold + 2) .. i : ShowsTheSame(j)'
    BY DEF ScreenLoopAt
  <2>1. CASE i <= n
    <3>1. ASSUME NEW j \in (i - ObsThreshold + 2) .. i
          PROVE  ShowsTheSame(j)
      <4>1. j \in 1 .. n /\ j - 1 \in 1 .. n
        BY <2>0, <2>1, <1>1, ThresholdAssumption
      <4> QED
        BY <2>0, <4>1, <1>1 DEF ShowsTheSame
    <3>2. ScreenLoopAt(i)
      BY <2>0, <3>1 DEF ScreenLoopAt
    <3> QED
      BY <2>1, <3>2, <1>1, <1>3 DEF LoopInv, FindsScreens
  <2>2. CASE i = n + 1
    <3>1. StillRun(ObsThreshold)'
      BY <2>0, <2>2, <1>1, ThresholdAssumption DEF StillRun
    <3>2. ObsThreshold \in 1 .. Len(screens')
      BY <2>0, <2>2, <1>1, ThresholdAssumption, ThresholdFloor
    <3>3. detector'.screenCount >= ObsThreshold
      BY <3>1, <3>2, <1>7 DEF CountsScreens
    <3> QED
      BY <3>3, <1>3
  <2> QED
    BY <2>1, <2>2, <1>1
<1>9. Remembers' /\ CountsCalls' /\ FindsCalls'
  BY <1>1, <1>3 DEF LoopInv, Remembers, CountsCalls, FindsCalls, VainRun, RepeatsInVain, ToolLoopAt
<1> QED
  BY <1>5, <1>6, <1>7, <1>8, <1>9 DEF LoopInv

LEMMA LoopMoves == LoopInv /\ [Next]_vars => LoopInv'
<1> SUFFICES ASSUME LoopInv, [Next]_vars
             PROVE  LoopInv'
  OBVIOUS
<1>1. ASSUME NEW t \in Tools, NEW o \in Outputs, RecordToolCall(t, o, TRUE)
      PROVE  LoopInv'
  <2> DEFINE c == [tool |-> t, outcome |-> o, ok |-> TRUE]
  <2>1. c \in Calls /\ RecordToolCall(c.tool, c.outcome, c.ok)
    BY <1>1 DEF Calls
  <2> QED
    BY <2>1, CallKeeps
<1>2. ASSUME NEW t \in Tools, NEW e \in Errors, RecordToolCall(t, e, FALSE)
      PROVE  LoopInv'
  <2> DEFINE c == [tool |-> t, outcome |-> e, ok |-> FALSE]
  <2>1. c \in Calls /\ RecordToolCall(c.tool, c.outcome, c.ok)
    BY <1>2 DEF Calls
  <2> QED
    BY <2>1, CallKeeps
<1>3. ASSUME NEW s \in Screens, RecordObservation(s)
      PROVE  LoopInv'
  BY <1>3, ObservationKeeps
<1>4. CASE Reset
  BY <1>4, NoneAssumption DEF Reset, LoopInv, TypeOK, Fresh, Reasons, Remembers, CountsCalls,
     FindsCalls, Sees, CountsScreens, FindsScreens
<1>5. CASE UNCHANGED vars
  BY <1>5 DEF vars, LoopInv, TypeOK, Remembers, CountsCalls, FindsCalls, Sees, CountsScreens,
     FindsScreens, VainRun, RepeatsInVain, StillRun, ShowsTheSame, ToolLoopAt, ScreenLoopAt
<1> QED
  BY <1>1, <1>2, <1>3, <1>4, <1>5 DEF Next

(***************************************************************************)
(* Every loop, of calls or of observations, is noticed (record_tool_call,  *)
(* record_observation), whatever the thresholds, the number of tools and   *)
(* outcomes and the length of the history.                                 *)
(***************************************************************************)
THEOREM EveryLoopIsFound == ServicesSpec => []LoopsAreFound
<1>1. ServicesInit => LoopInv
  BY LoopStarts DEF ServicesInit
<1>2. LoopInv /\ [ServicesNext]_serviceVars => LoopInv'
  BY LoopMoves, EachPartByItself
<1>3. LoopInv => LoopsAreFound
  BY DEF LoopInv, LoopsAreFound, ToolLoop, ScreenLoop, FindsCalls, FindsScreens
<1> QED
  BY <1>1, <1>2, <1>3, PTL DEF ServicesSpec

-----------------------------------------------------------------------------
(* Induction, for sets: what holds of some number holds of a least one. *)
LEMMA Least ==
    ASSUME NEW T, T \subseteq Nat, T # {}
    PROVE  \E n \in T : \A m \in T : n <= m
<1>1. PICK n \in T : \A m \in T : <<m, n>> \notin OpToRel(<, Nat)
  BY WFMin, NatLessThanWellFounded, Zenon
<1>2. \A m \in T : ~(m < n)
  BY <1>1, Zenon DEF OpToRel
<1> QED
  BY <1>2

-----------------------------------------------------------------------------
(* Web tools *)

(***************************************************************************)
(* WhatWasFoundIsAnswered is not inductive: until it answers, a search     *)
(* says nothing and has no results of SearXNG, whose answer ends it; and   *)
(* the addresses a hop may still try count against its bound.  That the    *)
(* loops over the results keep each URL once is shown from their least     *)
(* turn that would not.                                                    *)
(***************************************************************************)

(* One turn of the loops over the results, and what they have kept after n. *)
Turned(kept, url) == IF \E k \in DOMAIN kept : kept[k] = url THEN kept ELSE Append(kept, url)
Turns(g, urls, n) ==
    /\ g[0] = <<>>
    /\ \A i \in 1 .. n : g[i] = Turned(g[i - 1], urls[i])

LEMMA TurnsExist ==
    ASSUME NEW urls \in Seq(Urls)
    PROVE  \E g \in [0 .. Len(urls) -> Seq(Urls)] : Turns(g, urls, Len(urls))
<1> DEFINE Can(n) == \E g \in [0 .. n -> Seq(Urls)] : Turns(g, urls, n)
           T == {n \in 0 .. Len(urls) : ~Can(n)}
<1>1. Len(urls) \in Nat /\ \A i \in 1 .. Len(urls) : urls[i] \in Urls
  BY LenProperties, ElementOfSeq
<1>2. Can(0)
  <2> DEFINE g == [n \in 0 .. 0 |-> <<>>]
  <2>1. g \in [0 .. 0 -> Seq(Urls)] /\ g[0] = <<>>
    OBVIOUS
  <2> HIDE DEF g
  <2> QED
    BY <2>1 DEF Turns
<1>3. ASSUME NEW n \in 0 .. Len(urls), n # 0, Can(n - 1) PROVE Can(n)
  <2>1. PICK g \in [0 .. n - 1 -> Seq(Urls)] : Turns(g, urls, n - 1)
    BY <1>3
  <2>2. n \in Nat /\ n - 1 \in 0 .. n - 1 /\ urls[n] \in Urls
    BY <1>1, <1>3
  <2>3. Turned(g[n - 1], urls[n]) \in Seq(Urls)
    BY <2>1, <2>2, AppendProperties DEF Turned
  <2> DEFINE h == [i \in 0 .. n |-> IF i = n THEN Turned(g[n - 1], urls[n]) ELSE g[i]]
  <2>4. h \in [0 .. n -> Seq(Urls)]
    BY <2>1, <2>2, <2>3
  <2>5. h[n] = Turned(g[n - 1], urls[n]) /\ \A i \in 0 .. n - 1 : h[i] = g[i]
    BY <2>2
  <2> HIDE DEF h
  <2>6. h[0] = <<>>
    <3>1. 0 \in 0 .. n - 1
      BY <1>3, <2>2
    <3> QED
      BY <2>1, <2>5, <3>1 DEF Turns
  <2>7. ASSUME NEW i \in 1 .. n PROVE h[i] = Turned(h[i - 1], urls[i])
    <3>1. i - 1 \in 0 .. n - 1 /\ h[i - 1] = g[i - 1]
      BY <2>2, <2>5
    <3>2. CASE i = n
      BY <2>5, <3>1, <3>2
    <3>3. CASE i # n
      <4>1. i \in 1 .. n - 1 /\ i \in 0 .. n - 1
        BY <2>2, <3>3
      <4> QED
        BY <2>1, <2>5, <3>1, <4>1 DEF Turns
    <3> QED
      BY <3>2, <3>3
  <2> QED
    BY <2>4, <2>6, <2>7 DEF Turns
<1> HIDE DEF Can
<1>4. ASSUME T # {} PROVE FALSE
  <2>1. T \subseteq Nat
    BY <1>1
  <2>2. PICK n \in T : \A m \in T : n <= m
    BY <1>4, <2>1, Least
  <2>3. n # 0 /\ n \in 0 .. Len(urls) /\ ~Can(n)
    BY <1>2, <2>2
  <2>4. n - 1 \in 0 .. Len(urls) /\ ~(n <= n - 1)
    BY <1>1, <2>3
  <2>5. Can(n - 1)
    BY <2>2, <2>4
  <2> QED
    BY <1>3, <2>3, <2>5
<1>5. Can(Len(urls))
  BY <1>1, <1>4
<1> QED
  BY <1>5 DEF Can

LEMMA DistinctTurns ==
    ASSUME NEW urls \in Seq(Urls)
    PROVE  \E g : Turns(g, urls, Len(urls)) /\ Web!Distinct(urls) = g[Len(urls)]
<1> DEFINE F(g) == [n \in 0 .. Len(urls) |->
                      IF n = 0 THEN <<>>
                      ELSE IF \E k \in DOMAIN g[n - 1] : g[n - 1][k] = urls[n] THEN g[n - 1]
                      ELSE Append(g[n - 1], urls[n])]
           kept == CHOOSE g : g = F(g)
<1>1. Len(urls) \in Nat
  BY LenProperties
<1>2. Web!Distinct(urls) = kept[Len(urls)]
  BY DEF Web!Distinct
<1>3. PICK g \in [0 .. Len(urls) -> Seq(Urls)] : Turns(g, urls, Len(urls))
  BY TurnsExist
<1>4. g = F(g)
  <2>1. ASSUME NEW n \in 0 .. Len(urls)
        PROVE  g[n] = IF n = 0 THEN <<>>
                      ELSE IF \E k \in DOMAIN g[n - 1] : g[n - 1][k] = urls[n] THEN g[n - 1]
                      ELSE Append(g[n - 1], urls[n])
    <3>1. CASE n = 0
      BY <1>3, <3>1 DEF Turns
    <3>2. CASE n # 0
      <4>1. n \in 1 .. Len(urls)
        BY <1>1, <3>2
      <4> QED
        BY <1>3, <3>2, <4>1 DEF Turns, Turned
    <3> QED
      BY <3>1, <3>2
  <2> QED
    BY <1>3, <2>1
<1>5. kept = F(kept)
  <2> HIDE DEF F
  <2> QED
    BY <1>4, Zenon
<1> HIDE DEF kept
<1>6. Turns(kept, urls, Len(urls))
  <2>1. \A n \in 0 .. Len(urls) : kept[n] = IF n = 0 THEN <<>> ELSE Turned(kept[n - 1], urls[n])
    BY <1>5 DEF Turned
  <2>2. 0 \in 0 .. Len(urls) /\ \A n \in 1 .. Len(urls) : n \in 0 .. Len(urls) /\ n # 0
    BY <1>1
  <2> QED
    BY <2>1, <2>2 DEF Turns
<1> QED
  BY <1>2, <1>6

(* What the loops keep of the first n results. *)
KeptOf(kept, urls, n) ==
    /\ kept \in Seq(Urls)
    /\ \A i, j \in DOMAIN kept : kept[i] = kept[j] => i = j
    /\ \A j \in DOMAIN kept : \E i \in 1 .. n : kept[j] = urls[i]
    /\ \A i \in 1 .. n : \E j \in DOMAIN kept : kept[j] = urls[i]
    /\ n # 0 => kept # <<>> /\ kept[1] = urls[1]

LEMMA KeepsOneMore ==
    ASSUME NEW urls \in Seq(Urls), NEW n \in 1 .. Len(urls), NEW kept, KeptOf(kept, urls, n - 1)
    PROVE  KeptOf(Turned(kept, urls[n]), urls, n)
<1>1. /\ Len(urls) \in Nat /\ n \in Nat /\ urls[n] \in Urls
      /\ \A i \in 1 .. n : i \in 1 .. n - 1 \/ i = n
      /\ \A i \in 1 .. n - 1 : i \in 1 .. n
  BY LenProperties, ElementOfSeq
<1>2. CASE \E k \in DOMAIN kept : kept[k] = urls[n]
  <2>1. Turned(kept, urls[n]) = kept
    BY <1>2 DEF Turned
  <2>2. /\ kept \in Seq(Urls)
        /\ \A i, j \in DOMAIN kept : kept[i] = kept[j] => i = j
        /\ \A j \in DOMAIN kept : \E i \in 1 .. n : kept[j] = urls[i]
    BY <1>1 DEF KeptOf
  <2>3. \A i \in 1 .. n : \E j \in DOMAIN kept : kept[j] = urls[i]
    BY <1>1, <1>2 DEF KeptOf
  <2>4. kept # <<>> /\ kept[1] = urls[1]
    <3>1. n # 1
      BY <1>2 DEF KeptOf
    <3> QED
      BY <1>1, <3>1 DEF KeptOf
  <2> QED
    BY <2>1, <2>2, <2>3, <2>4 DEF KeptOf
<1>3. CASE ~\E k \in DOMAIN kept : kept[k] = urls[n]
  <2> DEFINE more == Append(kept, urls[n])
  <2>1. Turned(kept, urls[n]) = more
    BY <1>3 DEF Turned
  <2>2. kept \in Seq(Urls)
    BY DEF KeptOf
  <2>3. /\ more \in Seq(Urls) /\ more # <<>> /\ Len(kept) \in Nat
        /\ DOMAIN kept = 1 .. Len(kept) /\ DOMAIN more = 1 .. Len(kept) + 1
        /\ \A i \in 1 .. Len(kept) : more[i] = kept[i]
        /\ more[Len(kept) + 1] = urls[n]
    BY <1>1, <2>2, AppendProperties, LenProperties
  <2> HIDE DEF more
  <2>4. /\ \A j \in 1 .. Len(kept) + 1 : j \in 1 .. Len(kept) \/ j = Len(kept) + 1
        /\ \A j \in 1 .. Len(kept) : j \in 1 .. Len(kept) + 1
        /\ Len(kept) + 1 \in 1 .. Len(kept) + 1
    BY <2>3
  <2>5. \A i, j \in DOMAIN more : more[i] = more[j] => i = j
    <3> SUFFICES ASSUME NEW i \in 1 .. Len(kept) + 1, NEW j \in 1 .. Len(kept) + 1,
                        more[i] = more[j]
                 PROVE  i = j
      BY <2>3
    <3>1. CASE i \in 1 .. Len(kept) /\ j \in 1 .. Len(kept)
      <4>1. \A a, b \in DOMAIN kept : kept[a] = kept[b] => a = b
        BY DEF KeptOf
      <4>2. kept[i] = kept[j] /\ i \in DOMAIN kept /\ j \in DOMAIN kept
        BY <2>3, <3>1
      <4> QED
        BY <4>1, <4>2
    <3>2. CASE i \in 1 .. Len(kept) /\ j = Len(kept) + 1
      BY <1>3, <2>3, <3>2
    <3>3. CASE j \in 1 .. Len(kept) /\ i = Len(kept) + 1
      BY <1>3, <2>3, <3>3
    <3> QED
      BY <2>4, <3>1, <3>2, <3>3
  <2>6. \A j \in DOMAIN more : \E i \in 1 .. n : more[j] = urls[i]
    <3> SUFFICES ASSUME NEW j \in 1 .. Len(kept) + 1 PROVE \E i \in 1 .. n : more[j] = urls[i]
      BY <2>3
    <3>1. CASE j \in 1 .. Len(kept)
      <4>1. PICK i \in 1 .. n - 1 : kept[j] = urls[i]
        BY <2>3, <3>1 DEF KeptOf
      <4> QED
        BY <1>1, <2>3, <3>1, <4>1
    <3>2. CASE j = Len(kept) + 1
      <4>1. n \in 1 .. n
        BY <1>1
      <4> QED
        BY <2>3, <3>2, <4>1
    <3> QED
      BY <2>4, <3>1, <3>2
  <2>7. \A i \in 1 .. n : \E j \in DOMAIN more : more[j] = urls[i]
    <3> SUFFICES ASSUME NEW i \in 1 .. n PROVE \E j \in 1 .. Len(kept) + 1 : more[j] = urls[i]
      BY <2>3
    <3>1. CASE i \in 1 .. n - 1
      <4>1. PICK j \in 1 .. Len(kept) : kept[j] = urls[i]
        BY <2>3, <3>1 DEF KeptOf
      <4> QED
        BY <2>3, <2>4, <4>1
    <3>2. CASE i = n
      BY <2>3, <2>4, <3>2
    <3> QED
      BY <1>1, <3>1, <3>2
  <2>8. more[1] = urls[1]
    <3>1. CASE n = 1
      <4>1. Len(kept) = 0
        <5>1. 1 \notin 1 .. Len(kept)
          BY <2>3, <3>1 DEF KeptOf
        <5> QED
          BY <2>3, <5>1
      <4> QED
        BY <2>3, <3>1, <4>1
    <3>2. CASE n # 1
      <4>1. n - 1 # 0 /\ kept # <<>> /\ kept[1] = urls[1]
        BY <1>1, <3>2 DEF KeptOf
      <4>2. Len(kept) # 0
        BY <2>2, <4>1, EmptySeq
      <4>3. 1 \in 1 .. Len(kept)
        BY <2>3, <4>2
      <4> QED
        BY <2>3, <4>1, <4>3
    <3> QED
      BY <3>1, <3>2
  <2> QED
    BY <2>1, <2>3, <2>5, <2>6, <2>7, <2>8 DEF KeptOf
<1> QED
  BY <1>2, <1>3

(* The results of each source stay, the first of each URL, in their order.  *)
LEMMA EachUrlOnce ==
    ASSUME NEW urls \in Seq(Urls)
    PROVE  KeptOf(Web!Distinct(urls), urls, Len(urls))
<1>1. PICK g : Turns(g, urls, Len(urls)) /\ Web!Distinct(urls) = g[Len(urls)]
  BY DistinctTurns
<1> DEFINE T == {n \in 0 .. Len(urls) : ~KeptOf(g[n], urls, n)}
<1>2. Len(urls) \in Nat
  BY LenProperties
<1>3. KeptOf(g[0], urls, 0)
  <2>1. g[0] = <<>> /\ <<>> \in Seq(Urls) /\ DOMAIN <<>> = {} /\ 1 .. 0 = {}
    BY <1>1 DEF Turns
  <2> QED
    BY <2>1 DEF KeptOf
<1>4. ASSUME T # {} PROVE FALSE
  <2>1. PICK n \in T : \A m \in T : n <= m
    <3>1. T \subseteq Nat
      BY <1>2
    <3> QED
      BY <1>4, <3>1, Least
  <2>2. n \in 1 .. Len(urls) /\ ~KeptOf(g[n], urls, n)
    BY <1>2, <1>3, <2>1
  <2>3. n - 1 \in 0 .. Len(urls) /\ ~(n <= n - 1)
    BY <1>2, <2>2
  <2>4. KeptOf(g[n - 1], urls, n - 1)
    BY <2>1, <2>3
  <2>5. g[n] = Turned(g[n - 1], urls[n])
    BY <1>1, <2>2 DEF Turns
  <2> QED
    BY <2>2, <2>4, <2>5, KeepsOneMore
<1>5. Len(urls) \in 0 .. Len(urls)
  BY <1>2
<1> QED
  BY <1>1, <1>4, <1>5

LEMMA CutOff ==
    ASSUME NEW urls \in Seq(Urls), NEW n \in Nat
    PROVE  /\ Web!UpTo(n, urls) \in Seq(Urls) /\ Len(Web!UpTo(n, urls)) <= n
           /\ Len(Web!UpTo(n, urls)) <= Len(urls) /\ Len(Web!UpTo(n, urls)) \in Nat
           /\ n # 0 /\ urls # <<>> => Len(Web!UpTo(n, urls)) # 0
           /\ \A i \in 1 .. Len(Web!UpTo(n, urls)) : Web!UpTo(n, urls)[i] = urls[i]
              /\ i \in DOMAIN urls
<1> DEFINE m == IF Len(urls) < n THEN Len(urls) ELSE n
<1>1. /\ Len(urls) \in Nat /\ DOMAIN urls = 1 .. Len(urls) /\ (urls # <<>> => Len(urls) # 0)
      /\ \A i \in 1 .. Len(urls) : urls[i] \in Urls
  BY LenProperties, ElementOfSeq, EmptySeq
<1>2. m \in Nat /\ m <= n /\ m <= Len(urls) /\ (n # 0 /\ Len(urls) # 0 => m # 0)
  BY <1>1
<1>3. Web!UpTo(n, urls) = SubSeq(urls, 1, m)
  BY DEF Web!UpTo
<1> HIDE DEF m
<1>4. 1 \in Int /\ m \in Int /\ \A i \in 1 .. m : urls[i] \in Urls /\ i \in 1 .. Len(urls)
  BY <1>1, <1>2
<1>5. /\ SubSeq(urls, 1, m) \in Seq(Urls)
      /\ Len(SubSeq(urls, 1, m)) = IF 1 <= m THEN m - 1 + 1 ELSE 0
      /\ \A i \in 1 .. m - 1 + 1 : SubSeq(urls, 1, m)[i] = urls[1 + i - 1]
  BY <1>4, SubSeqProperties
<1>6. Len(SubSeq(urls, 1, m)) = m
  BY <1>2, <1>5
<1>7. \A i \in 1 .. m : SubSeq(urls, 1, m)[i] = urls[i]
  <2>1. \A i \in 1 .. m : i \in 1 .. m - 1 + 1 /\ 1 + i - 1 = i
    BY <1>2
  <2> QED
    BY <1>5, <2>1
<1> QED
  BY <1>1, <1>2, <1>3, <1>4, <1>5, <1>6, <1>7

Somewhere(results) == UNION {Web!ToSet(results[s]) : s \in Web!Sources}
First(results) == results["weather"] \o results["wiki"]

(* What CompositeSearchProvider makes of the results of its sources. *)
LEMMA CombinedAnswers ==
    ASSUME NEW results \in [Web!Sources -> Seq(Urls)], results["searxng"] = <<>>
    PROVE  LET all == Web!Combined(results)
               urls == Web!UpTo(MaxResults, all)
           IN  /\ all = <<>> => Somewhere(results) = {}
               /\ all # <<>> => /\ Web!ToSet(urls) \subseteq Somewhere(results)
                                /\ urls # <<>> /\ Len(urls) <= MaxResults
                                /\ Web!IsInjective(urls)
                                /\ First(results) # <<>> => Head(urls) = Head(First(results))
<1> DEFINE w == results["weather"]
           k == results["wiki"]
           d == results["ddg"]
           f == w \o k
           cat == f \o d
           all == Web!Combined(results)
           urls == Web!UpTo(MaxResults, all)
<1>1. w \in Seq(Urls) /\ k \in Seq(Urls) /\ d \in Seq(Urls)
  BY DEF Web!Sources
<1>2. all = Web!Distinct(cat)
  <2>1. w \o k \o d = cat
    OBVIOUS
  <2> QED
    BY DEF Web!Combined
<1>3. Somewhere(results) = Web!ToSet(w) \cup Web!ToSet(k) \cup Web!ToSet(d)
  BY DEF Somewhere, Web!Sources, Web!ToSet
<1> HIDE DEF w, k, d
<1>4. /\ f \in Seq(Urls) /\ Len(f) = Len(w) + Len(k)
      /\ \A i \in 1 .. Len(w) + Len(k) : f[i] = IF i <= Len(w) THEN w[i] ELSE k[i - Len(w)]
      /\ Len(w) \in Nat /\ Len(k) \in Nat /\ Len(d) \in Nat
      /\ DOMAIN w = 1 .. Len(w) /\ DOMAIN k = 1 .. Len(k) /\ DOMAIN d = 1 .. Len(d)
      /\ DOMAIN f = 1 .. Len(f)
  BY <1>1, ConcatProperties, LenProperties
<1> HIDE DEF f
<1>5. /\ cat \in Seq(Urls) /\ Len(cat) = Len(f) + Len(d) /\ DOMAIN cat = 1 .. Len(cat)
      /\ \A i \in 1 .. Len(f) + Len(d) : cat[i] = IF i <= Len(f) THEN f[i] ELSE d[i - Len(f)]
  BY <1>1, <1>4, ConcatProperties, LenProperties
<1> HIDE DEF cat
<1>6. KeptOf(all, cat, Len(cat))
  BY <1>2, <1>5, EachUrlOnce
<1> HIDE DEF all
<1>7. \A i \in 1 .. Len(cat) : cat[i] \in Somewhere(results)
  <2> SUFFICES ASSUME NEW i \in 1 .. Len(cat) PROVE cat[i] \in Somewhere(results)
    OBVIOUS
  <2>1. CASE i <= Len(w)
    BY <1>3, <1>4, <1>5, <2>1 DEF Web!ToSet
  <2>2. CASE i > Len(w) /\ i <= Len(f)
    <3>1. i - Len(w) \in 1 .. Len(k) /\ cat[i] = k[i - Len(w)]
      BY <1>4, <1>5, <2>2
    <3> QED
      BY <1>3, <1>4, <3>1 DEF Web!ToSet
  <2>3. CASE i > Len(f)
    <3>1. i - Len(f) \in 1 .. Len(d) /\ cat[i] = d[i - Len(f)]
      BY <1>4, <1>5, <2>3
    <3> QED
      BY <1>3, <1>4, <3>1 DEF Web!ToSet
  <2> QED
    BY <1>4, <1>5, <2>1, <2>2, <2>3
<1>8. ASSUME all = <<>> PROVE Somewhere(results) = {}
  <2>1. Len(cat) = 0
    <3>1. ~\E i \in 1 .. Len(cat) : TRUE
      <4>1. \A i \in 1 .. Len(cat) : \E j \in DOMAIN all : all[j] = cat[i]
        BY <1>6 DEF KeptOf
      <4> QED
        BY <1>8, <4>1
    <3>2. Len(cat) \in Nat
      BY <1>4, <1>5
    <3>3. 1 \notin 1 .. Len(cat)
      BY <3>1
    <3> QED
      BY <3>2, <3>3
  <2>2. Len(w) = 0 /\ Len(k) = 0 /\ Len(d) = 0
    BY <1>4, <1>5, <2>1
  <2>3. DOMAIN w = {} /\ DOMAIN k = {} /\ DOMAIN d = {}
    BY <1>4, <2>2
  <2> QED
    BY <1>3, <2>3 DEF Web!ToSet
<1>9. ASSUME all # <<>>
      PROVE  /\ Web!ToSet(urls) \subseteq Somewhere(results)
             /\ urls # <<>> /\ Len(urls) <= MaxResults
             /\ Web!IsInjective(urls)
             /\ First(results) # <<>> => Head(urls) = Head(First(results))
  <2>1. all \in Seq(Urls) /\ MaxResults \in Nat /\ MaxResults # 0
    BY <1>6, WebAssumption DEF KeptOf
  <2>2. /\ urls \in Seq(Urls) /\ Len(urls) <= MaxResults /\ Len(urls) \in Nat /\ Len(urls) # 0
        /\ \A i \in 1 .. Len(urls) : urls[i] = all[i] /\ i \in DOMAIN all
    BY <1>9, <2>1, CutOff
  <2> HIDE DEF urls
  <2>3. DOMAIN urls = 1 .. Len(urls) /\ urls # <<>> /\ 1 \in 1 .. Len(urls)
    BY <2>2, LenProperties, EmptySeq
  <2>4. Web!ToSet(urls) \subseteq Somewhere(results)
    <3>0. \A j \in DOMAIN all : \E i \in 1 .. Len(cat) : all[j] = cat[i]
      BY <1>6 DEF KeptOf
    <3>1. \A i \in DOMAIN urls : urls[i] \in Somewhere(results)
      BY <1>7, <2>2, <2>3, <3>0
    <3> QED
      BY <3>1 DEF Web!ToSet
  <2>5. Web!IsInjective(urls)
    <3>1. \A a, b \in DOMAIN all : all[a] = all[b] => a = b
      BY <1>6 DEF KeptOf
    <3> QED
      BY <2>2, <2>3, <3>1 DEF Web!IsInjective
  <2>6. ASSUME First(results) # <<>> PROVE Head(urls) = Head(First(results))
    <3>1. First(results) = f
      BY DEF First, f, w, k
    <3>2. Len(f) # 0 /\ Len(f) \in Nat
      BY <1>4, <2>6, <3>1, EmptySeq
    <3>3. Len(cat) # 0 /\ cat[1] = f[1]
      BY <1>4, <1>5, <3>2
    <3>4. all[1] = cat[1]
      BY <1>6, <3>3 DEF KeptOf
    <3>5. Head(urls) = urls[1] /\ Head(f) = f[1]
      OBVIOUS
    <3> QED
      BY <2>2, <2>3, <3>1, <3>3, <3>4, <3>5
  <2> QED
    BY <2>2, <2>3, <2>4, <2>5, <2>6
<1> QED
  BY <1>8, <1>9 DEF urls, all

(* An answer tells of what was found. *)
Tells(how, urls, results) ==
    /\ how = "results" =>
         /\ Web!ToSet(urls) \subseteq Somewhere(results)
         /\ urls # <<>> /\ Len(urls) <= MaxResults
         /\ results["searxng"] = <<>> =>
              Web!IsInjective(urls) /\ (First(results) # <<>> => Head(urls) = Head(First(results)))
    /\ how = "nothing found" => Somewhere(results) = {}

SearchSoFar ==
    /\ found \in [Web!Sources -> Seq(Urls)]
    /\ call # "over" => answer.how = "none" /\ found["searxng"] = <<>>
    /\ Tells(answer.how, answer.urls, found)

(* The connections of the hops before, and those this one may still make. *)
HopSoFar ==
    /\ redirects \in Nat /\ tries \in Nat /\ attempts \in Nat
    /\ call \in {"called", "resolve"} => attempts <= MaxAddresses * redirects
    /\ call = "connect" => attempts + tries <= MaxAddresses * (redirects + 1)
    /\ attempts <= MaxAddresses * (redirects + 1)

WebInv == SearchSoFar /\ HopSoFar

LEMMA WebSays == WebInv => WhatWasFoundIsAnswered
BY DEF WebInv, SearchSoFar, HopSoFar, Tells, WhatWasFoundIsAnswered, Web!WhatWasFoundIsAnswered,
   Somewhere,
   First

LEMMA WebStarts == Web!Init => WebInv
<1> SUFFICES ASSUME Web!Init PROVE WebInv
  OBVIOUS
<1>1. SearchSoFar
  BY DEF Web!Init, SearchSoFar, Tells, Web!Sources
<1>2. MaxAddresses * 0 = 0 /\ MaxAddresses * (0 + 1) = MaxAddresses /\ 0 <= MaxAddresses
  BY WebAssumption
<1>3. HopSoFar
  BY <1>2 DEF Web!Init, HopSoFar
<1> QED
  BY <1>1, <1>3 DEF WebInv

(* A search that goes on, or that ends without an answer. *)
LEMMA TellsNothing ==
    ASSUME SearchSoFar, found' \in [Web!Sources -> Seq(Urls)], call # "over",
           \/ call' # "over" /\ answer' = answer /\ found'["searxng"] = <<>>
           \/ call' = "over" /\ answer'.how \notin {"results", "nothing found"}
    PROVE  SearchSoFar'
BY DEF SearchSoFar, Tells

LEMMA SearchStep ==
    ASSUME WebInv,
           \/ Web!Search \/ Web!WeatherAnswers \/ Web!SearxngAnswers \/ Web!DuckDuckGoAnswers
           \/ Web!WikipediaAnswers
    PROVE  SearchSoFar'
<1> USE DEF WebInv
<1>1. call # "over" /\ SearchSoFar /\ found \in [Web!Sources -> Seq(Urls)]
      /\ found["searxng"] = <<>>
  BY DEF Web!Search, Web!WeatherAnswers, Web!SearxngAnswers, Web!DuckDuckGoAnswers,
     Web!WikipediaAnswers,
     SearchSoFar
<1>2. \A urls \in Web!Found : urls \in Seq(Urls) /\ Len(urls) <= MaxResults
  BY WebAssumption DEF Web!Found, Web!SeqOf
<1>3. CASE Web!Search
  BY <1>1, <1>3, TellsNothing DEF Web!Search
<1>4. CASE Web!WeatherAnswers
  <2>1. call' # "over" /\ answer' = answer
    BY <1>4 DEF Web!WeatherAnswers
  <2>2. found' \in [Web!Sources -> Seq(Urls)] /\ found'["searxng"] = <<>>
    <3>1. CASE UNCHANGED found
      BY <1>1, <3>1
    <3>2. CASE \E url \in Urls : found' = [found EXCEPT !["weather"] = <<url>>]
      <4>1. PICK url \in Urls : found' = [found EXCEPT !["weather"] = <<url>>]
        BY <3>2
      <4>2. <<url>> \in Seq(Urls)
        OBVIOUS
      <4> QED
        BY <1>1, <4>1, <4>2 DEF Web!Sources
    <3> QED
      BY <1>4, <3>1, <3>2 DEF Web!WeatherAnswers
  <2> QED
    BY <1>1, <2>1, <2>2, TellsNothing
<1>5. CASE Web!SearxngAnswers
  <2>1. CASE call' = "ddg html" /\ UNCHANGED <<found, answer>>
    BY <1>1, <2>1, TellsNothing
  <2>2. CASE \E urls \in Web!Found \ {<<>>} :
                found' = [found EXCEPT !["searxng"] = urls] /\ Web!Ends("results", urls)
    <3>1. PICK urls \in Web!Found \ {<<>>} :
             found' = [found EXCEPT !["searxng"] = urls] /\ Web!Ends("results", urls)
      BY <2>2
    <3>2. /\ found' \in [Web!Sources -> Seq(Urls)] /\ found'["searxng"] = urls
          /\ urls # <<>> /\ Len(urls) <= MaxResults
      BY <1>1, <1>2, <3>1 DEF Web!Sources
    <3>3. call' = "over" /\ answer' = [how |-> "results", urls |-> urls]
      BY <3>1 DEF Web!Ends
    <3>4. Web!ToSet(urls) \subseteq Somewhere(found')
      BY <3>2 DEF Somewhere, Web!Sources
    <3>5. Tells("results", urls, found')
      BY <3>2, <3>4 DEF Tells
    <3> QED
      BY <3>2, <3>3, <3>5 DEF SearchSoFar
  <2> QED
    BY <1>5, <2>1, <2>2 DEF Web!SearxngAnswers
<1>6. ASSUME NEW results \in [Web!Sources -> Seq(Urls)], results["searxng"] = <<>>,
             found' = results, Web!Answers(results)
      PROVE  SearchSoFar'
  <2> DEFINE all == Web!Combined(results)
             urls == Web!UpTo(MaxResults, all)
  <2>1. /\ all = <<>> => Somewhere(results) = {}
        /\ all # <<>> => /\ Web!ToSet(urls) \subseteq Somewhere(results)
                         /\ urls # <<>> /\ Len(urls) <= MaxResults
                         /\ Web!IsInjective(urls)
                         /\ First(results) # <<>> => Head(urls) = Head(First(results))
    BY <1>6, CombinedAnswers
  <2>2. IF all = <<>> THEN Web!Ends("nothing found", <<>>) ELSE Web!Ends("results", urls)
    BY <1>6 DEF Web!Answers
  <2> HIDE DEF all, urls
  <2>3. CASE all = <<>>
    <3>1. call' = "over" /\ answer' = [how |-> "nothing found", urls |-> <<>>]
      BY <2>2, <2>3 DEF Web!Ends
    <3>2. Tells("nothing found", <<>>, results)
      BY <2>1, <2>3 DEF Tells
    <3> QED
      BY <1>6, <3>1, <3>2 DEF SearchSoFar
  <2>4. CASE all # <<>>
    <3>1. call' = "over" /\ answer' = [how |-> "results", urls |-> urls]
      BY <2>2, <2>4 DEF Web!Ends
    <3>2. Tells("results", urls, results)
      BY <2>1, <2>4 DEF Tells
    <3> QED
      BY <1>6, <3>1, <3>2 DEF SearchSoFar
  <2> QED
    BY <2>3, <2>4
<1>7. CASE Web!DuckDuckGoAnswers
  <2>1. PICK urls \in Web!Found :
           LET results == [found EXCEPT !["ddg"] = urls]
           IN  /\ found' = results
               /\ \/ call' \in {"ddg lite", "wiki"} /\ UNCHANGED answer
                  \/ Web!Answers(results)
    BY <1>7 DEF Web!DuckDuckGoAnswers
  <2>2. /\ [found EXCEPT !["ddg"] = urls] \in [Web!Sources -> Seq(Urls)]
        /\ [found EXCEPT !["ddg"] = urls]["searxng"] = <<>>
    BY <1>1, <1>2 DEF Web!Sources
  <2>3. CASE call' \in {"ddg lite", "wiki"} /\ UNCHANGED answer
    BY <1>1, <2>1, <2>2, <2>3, TellsNothing
  <2>4. CASE Web!Answers([found EXCEPT !["ddg"] = urls])
    BY <1>6, <2>1, <2>2, <2>4
  <2> QED
    BY <2>1, <2>3, <2>4
<1>8. CASE Web!WikipediaAnswers
  <2>1. PICK urls \in Web!Found :
           LET results == [found EXCEPT !["wiki"] = urls]
           IN  found' = results /\ Web!Answers(results)
    BY <1>8 DEF Web!WikipediaAnswers
  <2>2. /\ [found EXCEPT !["wiki"] = urls] \in [Web!Sources -> Seq(Urls)]
        /\ [found EXCEPT !["wiki"] = urls]["searxng"] = <<>>
    BY <1>1, <1>2 DEF Web!Sources
  <2> QED
    BY <1>6, <2>1, <2>2
<1> QED
  BY <1>3, <1>4, <1>5, <1>7, <1>8

LEMMA OneMoreHop ==
    \A hops, more, made, left \in Nat :
       made <= hops /\ left <= more => made <= hops + more /\ made + left <= hops + more
OBVIOUS

LEMMA WebMoves == WebInv /\ [Web!Next]_webVars => WebInv'
<1> SUFFICES ASSUME WebInv, [Web!Next]_webVars PROVE WebInv'
  OBVIOUS
<1> DEFINE hops == MaxAddresses * redirects
<1>1. /\ MaxAddresses \in Nat /\ hops \in Nat
      /\ MaxAddresses * (redirects + 1) = hops + MaxAddresses
      /\ MaxAddresses * ((redirects + 1) + 1) = hops + MaxAddresses + MaxAddresses
      /\ redirects \in Nat
  BY WebAssumption DEF WebInv, HopSoFar
<1> HIDE DEF hops
<1>2. /\ redirects \in Nat /\ tries \in Nat /\ attempts \in Nat
      /\ call \in {"called", "resolve"} => attempts <= hops
      /\ call = "connect" => attempts + tries <= hops + MaxAddresses
      /\ attempts <= hops + MaxAddresses
  BY <1>1 DEF WebInv, HopSoFar, hops
<1>3. ASSUME UNCHANGED redirects, tries' \in Nat, attempts' \in Nat,
             call' \in {"called", "resolve"} => attempts' <= hops,
             call' = "connect" => attempts' + tries' <= hops + MaxAddresses,
             attempts' <= hops + MaxAddresses
      PROVE  HopSoFar'
  BY <1>1, <1>3 DEF HopSoFar, hops
<1>4. CASE Web!Search \/ Web!WeatherAnswers \/ Web!SearxngAnswers \/ Web!DuckDuckGoAnswers
           \/ Web!WikipediaAnswers
  <2>1. UNCHANGED <<redirects, tries, attempts>> /\ call' \notin {"called", "resolve", "connect"}
    <3>1. CASE Web!DuckDuckGoAnswers
      BY <3>1 DEF Web!DuckDuckGoAnswers, Web!Answers, Web!Ends, Web!searching
    <3>2. CASE Web!WikipediaAnswers
      BY <3>2 DEF Web!WikipediaAnswers, Web!Answers, Web!Ends, Web!searching
    <3>3. CASE Web!SearxngAnswers
      BY <3>3 DEF Web!SearxngAnswers, Web!Ends, Web!searching
    <3>4. CASE Web!Search \/ Web!WeatherAnswers
      BY <3>4 DEF Web!Search, Web!WeatherAnswers, Web!searching
    <3> QED
      BY <1>4, <3>1, <3>2, <3>3, <3>4
  <2>2. HopSoFar'
    BY <1>2, <1>3, <2>1
  <2> QED
    BY <1>4, <2>2, SearchStep DEF WebInv
<1>5. CASE \/ Web!Fetch \/ Web!Resolved \/ Web!NotResolved \/ Web!ConnectFails \/ Web!NoAddressLeft
           \/ Web!Connected \/ Web!Unacceptable \/ Web!Redirected \/ Web!TooManyRedirects
              \/ Web!Fetched
           \/ Web!TimesOut
  <2>1. SearchSoFar'
    <3>1. found' = found /\ call # "over"
      BY <1>5 DEF Web!Fetch, Web!Resolved, Web!NotResolved, Web!ConnectFails, Web!NoAddressLeft,
         Web!Connected, Web!Unacceptable, Web!Redirected, Web!TooManyRedirects, Web!Fetched,
         Web!TimesOut,
         Web!Searching, Web!Fetching
    <3>3. \/ call' # "over" /\ answer' = answer
          \/ call' = "over" /\ answer'.how \notin {"results", "nothing found"}
      <4>1. CASE Web!Fetch
        BY <4>1 DEF Web!Fetch
      <4>2. CASE Web!Resolved \/ Web!ConnectFails \/ Web!Redirected
        <5>1. CASE Web!ConnectFails
          BY <5>1 DEF Web!ConnectFails
        <5> QED
          BY <4>2, <5>1 DEF Web!Resolved, Web!Redirected
      <4>3. CASE Web!Connected
        <5>1. CASE call' = "response" /\ UNCHANGED answer
          BY <5>1
        <5>2. CASE Web!Ends("unreachable", <<>>)
          BY <5>2 DEF Web!Ends
        <5> QED
          BY <4>3, <5>1, <5>2 DEF Web!Connected
      <4>4. ASSUME NEW how, how \notin {"results", "nothing found"}, NEW urls, Web!Ends(how, urls)
            PROVE  call' = "over" /\ answer'.how \notin {"results", "nothing found"}
        <5>1. call' = "over" /\ answer'.how = how
          BY <4>4 DEF Web!Ends
        <5> QED
          BY <4>4, <5>1
      <4>6. CASE Web!NotResolved \/ Web!NoAddressLeft \/ Web!Unacceptable
        BY <4>4, <4>6 DEF Web!NotResolved, Web!NoAddressLeft, Web!Unacceptable
      <4>7. CASE Web!TooManyRedirects \/ Web!Fetched \/ Web!TimesOut
        BY <4>4, <4>7 DEF Web!TooManyRedirects, Web!Fetched, Web!TimesOut
      <4> QED
        BY <1>5, <4>1, <4>2, <4>3, <4>6, <4>7
    <3> QED
      BY <3>1, <3>3, TellsNothing DEF WebInv, SearchSoFar
  <2>2. ASSUME Web!Fetch PROVE HopSoFar'
    BY <1>2, <1>3, <2>2 DEF Web!Fetch
  <2>3. ASSUME Web!Resolved PROVE HopSoFar'
    <3>1. call' = "connect" /\ tries' \in 1 .. MaxAddresses /\ UNCHANGED <<redirects, attempts>>
          /\ attempts <= hops
      BY <1>2, <2>3 DEF Web!Resolved
    <3>2. tries' \in Nat /\ tries' <= MaxAddresses
      BY <1>1, <3>1
    <3> QED
      <4>1. attempts' \in Nat /\ attempts' <= hops
        BY <1>2, <3>1
      <4>2. attempts' + tries' <= hops + MaxAddresses /\ attempts' <= hops + MaxAddresses
        <5>1. MaxAddresses \in Nat /\ hops \in Nat
          BY <1>1
        <5> QED
          BY <3>2, <4>1, <5>1, OneMoreHop
      <4> QED
        BY <1>3, <3>1, <3>2, <4>1, <4>2
  <2>4. ASSUME Web!ConnectFails PROVE HopSoFar'
    <3>1. call' = "connect" /\ tries' = tries - 1 /\ attempts' = attempts + 1
          /\ UNCHANGED redirects /\ tries > 0
          /\ attempts + tries <= hops + MaxAddresses
      BY <1>2, <2>4 DEF Web!ConnectFails
    <3> QED
      BY <1>1, <1>2, <1>3, <3>1
  <2>5. ASSUME Web!Connected PROVE HopSoFar'
    <3>1. call' \in {"response", "over"} /\ tries' = tries /\ attempts' = attempts + 1
          /\ UNCHANGED redirects
          /\ tries > 0 /\ attempts + tries <= hops + MaxAddresses
      BY <1>2, <2>5 DEF Web!Connected, Web!Ends
    <3> QED
      BY <1>1, <1>2, <1>3, <3>1
  <2>6. ASSUME Web!Redirected PROVE HopSoFar'
    <3>1. call' = "resolve" /\ redirects' = redirects + 1 /\ tries' = 0 /\ attempts' = attempts
      BY <2>6 DEF Web!Redirected
    <3> QED
      BY <1>1, <1>2, <3>1 DEF HopSoFar
  <2>7. ASSUME \/ Web!NotResolved \/ Web!NoAddressLeft \/ Web!Unacceptable \/ Web!TooManyRedirects
               \/ Web!Fetched \/ Web!TimesOut
        PROVE  HopSoFar'
    <3>1. call' = "over" /\ UNCHANGED <<redirects, tries, attempts>>
      BY <2>7 DEF Web!NotResolved, Web!NoAddressLeft, Web!Unacceptable, Web!TooManyRedirects,
         Web!Fetched,
         Web!TimesOut, Web!Ends
    <3> QED
      BY <1>2, <1>3, <3>1
  <2>8. HopSoFar'
    BY <1>5, <2>2, <2>3, <2>4, <2>5, <2>6, <2>7
  <2> QED
    BY <2>1, <2>8 DEF WebInv
<1>6. CASE UNCHANGED webVars
  BY <1>6 DEF webVars, WebInv, SearchSoFar, HopSoFar
<1> QED
  BY <1>4, <1>5, <1>6 DEF Web!Next

(* However the sources answer, repeat each other and are cut off, a search  *)
(* answers nothing but what they found, each result once and the weather   *)
(* or Wikipedia first; a fetch connects at most so often for each hop.     *)
THEOREM SearchesAnswerWhatWasFound == ServicesSpec => []WhatWasFoundIsAnswered
<1>1. ServicesInit => WebInv
  BY WebStarts DEF ServicesInit
<1>2. WebInv /\ [ServicesNext]_serviceVars => WebInv'
  BY WebMoves, EachPartByItself
<1> QED
  BY <1>1, <1>2, WebSays, PTL DEF ServicesSpec

-----------------------------------------------------------------------------
(* Model providers *)

(***************************************************************************)
(* AnswerIsWhatWasMeant is not inductive: while the stream goes on, every  *)
(* call is put together from exactly the fragments sent so far, and what   *)
(* the consumer has are the texts so far and then, when the server is      *)
(* done, the least of the calls.                                           *)
(***************************************************************************)
Made == [id : Nat, name : Seq(Nat), args : Seq(Nat)]
PutTogether(s, made) ==
    /\ made \in [Http!Called(s) -> Made]
    /\ \A i \in Http!Called(s) : Http!Meant(i, made[i], s)

LEMMA AscendingMore ==
    ASSUME NEW list \in Seq(Nat), NEW S, Http!Ascending(list, S), NEW x \in Nat,
           \A y \in S : y < x
    PROVE  Append(list, x) \in Seq(Nat) /\ Http!Ascending(Append(list, x), S \cup {x})
<1> DEFINE more == Append(list, x)
<1>1. /\ more \in Seq(Nat) /\ Len(list) \in Nat
      /\ DOMAIN list = 1 .. Len(list) /\ DOMAIN more = 1 .. Len(list) + 1
      /\ \A i \in 1 .. Len(list) : more[i] = list[i]
      /\ more[Len(list) + 1] = x
  BY AppendProperties, LenProperties
<1> HIDE DEF more
<1>2. /\ Len(list) + 1 \in 1 .. Len(list) + 1
      /\ \A i \in 1 .. Len(list) + 1 : i \in 1 .. Len(list) \/ i = Len(list) + 1
      /\ \A i \in 1 .. Len(list) : i \in 1 .. Len(list) + 1
  BY <1>1
<1>3. /\ \A i \in 1 .. Len(list) : list[i] \in S
      /\ \A y \in S : \E i \in 1 .. Len(list) : y = list[i]
      /\ \A m, n \in 1 .. Len(list) : m < n => list[m] < list[n]
  BY <1>1 DEF Http!Ascending, Http!ToSet
<1>4. Http!ToSet(more) = S \cup {x}
  <2>1. \A i \in DOMAIN more : more[i] \in S \cup {x}
    BY <1>1, <1>2, <1>3
  <2>2. \A y \in S \cup {x} : \E i \in DOMAIN more : more[i] = y
    BY <1>1, <1>2, <1>3
  <2> QED
    BY <2>1, <2>2 DEF Http!ToSet
<1>5. \A m, n \in DOMAIN more : m < n => more[m] < more[n]
  <2> SUFFICES ASSUME NEW m \in 1 .. Len(list) + 1, NEW n \in 1 .. Len(list) + 1, m < n
               PROVE  more[m] < more[n]
    BY <1>1
  <2>1. m \in 1 .. Len(list)
    BY <1>1
  <2>2. CASE n \in 1 .. Len(list)
    BY <1>1, <1>3, <2>1, <2>2
  <2>3. CASE n = Len(list) + 1
    BY <1>1, <1>3, <2>1, <2>3
  <2> QED
    BY <1>2, <2>2, <2>3
<1> QED
  BY <1>1, <1>4, <1>5 DEF Http!Ascending, more

LEMMA OneMoreEvent ==
    ASSUME NEW s \in Seq(Http!Events), NEW e \in Http!Events
    PROVE  /\ Append(s, e) \in Seq(Http!Events) /\ Len(s) \in Nat
           /\ Len(Append(s, e)) = Len(s) + 1
           /\ DOMAIN s = 1 .. Len(s)
           /\ \A i, kinds :
                /\ Http!Of(i, kinds, s) \subseteq 1 .. Len(s)
                /\ Http!Of(i, kinds, Append(s, e))
                     = Http!Of(i, kinds, s)
                         \cup (IF e.index = i /\ e.what \in kinds THEN {Len(s) + 1} ELSE {})
           /\ Http!Texts(s) \subseteq 1 .. Len(s)
           /\ Http!Texts(Append(s, e)) = Http!Texts(s)
              \cup (IF e.what = "text" THEN {Len(s) + 1} ELSE {})
<1> DEFINE more == Append(s, e)
<1>1. /\ more \in Seq(Http!Events) /\ Len(s) \in Nat /\ Len(more) = Len(s) + 1
      /\ DOMAIN s = 1 .. Len(s) /\ DOMAIN more = 1 .. Len(s) + 1
      /\ \A i \in 1 .. Len(s) : more[i] = s[i]
      /\ more[Len(s) + 1] = e
  BY AppendProperties, LenProperties
<1> HIDE DEF more
<1>2. /\ Len(s) + 1 \in 1 .. Len(s) + 1
      /\ \A i \in 1 .. Len(s) + 1 : i \in 1 .. Len(s) \/ i = Len(s) + 1
      /\ \A i \in 1 .. Len(s) : i \in 1 .. Len(s) + 1
  BY <1>1
<1>3. ASSUME NEW i, NEW kinds
      PROVE  /\ Http!Of(i, kinds, s) \subseteq 1 .. Len(s)
             /\ Http!Of(i, kinds, more)
                  = Http!Of(i, kinds, s)
                      \cup (IF e.index = i /\ e.what \in kinds THEN {Len(s) + 1} ELSE {})
  BY <1>1, <1>2 DEF Http!Of
<1>4. /\ Http!Texts(s) \subseteq 1 .. Len(s)
      /\ Http!Texts(more) = Http!Texts(s) \cup (IF e.what = "text" THEN {Len(s) + 1} ELSE {})
  BY <1>1, <1>2 DEF Http!Texts
<1> QED
  BY <1>1, <1>3, <1>4 DEF more

(* An event that is not a fragment of call i changes nothing about it.      *)
LEMMA SameMeaning ==
    ASSUME NEW s \in Seq(Http!Events), NEW e \in Http!Events, NEW i \in Indices,
           e.what \notin Http!Fragment \/ e.index # i
    PROVE  /\ i \in Http!Called(Append(s, e)) <=> i \in Http!Called(s)
           /\ \A made : Http!Meant(i, made, Append(s, e)) <=> Http!Meant(i, made, s)
<1>1. ASSUME NEW kinds, kinds \subseteq Http!Fragment
      PROVE  Http!Of(i, kinds, Append(s, e)) = Http!Of(i, kinds, s)
  <2>1. ~(e.index = i /\ e.what \in kinds)
    BY <1>1
  <2>2. Http!Of(i, kinds, Append(s, e))
          = Http!Of(i, kinds, s) \cup (IF e.index = i /\ e.what \in kinds THEN {Len(s) + 1} ELSE {})
    BY OneMoreEvent
  <2> QED
    BY <2>1, <2>2
<1>2. /\ Http!Of(i, Http!Fragment, Append(s, e)) = Http!Of(i, Http!Fragment, s)
      /\ Http!Of(i, {"head"}, Append(s, e)) = Http!Of(i, {"head"}, s)
      /\ Http!Of(i, {"part", "whole"}, Append(s, e)) = Http!Of(i, {"part", "whole"}, s)
      /\ Http!Of(i, {"whole"}, Append(s, e)) = Http!Of(i, {"whole"}, s)
  BY <1>1 DEF Http!Fragment
<1>3. Http!SinceWhole(i, Append(s, e)) = Http!SinceWhole(i, s)
  BY <1>2 DEF Http!SinceWhole
<1> QED
  BY <1>2, <1>3 DEF Http!Called, Http!Meant

LEMMA NotAFragment ==
    ASSUME NEW s \in Seq(Http!Events), NEW e \in Http!Events, e.what \notin Http!Fragment,
           NEW made, PutTogether(s, made)
    PROVE  PutTogether(Append(s, e), made)
<1>1. Http!Called(Append(s, e)) = Http!Called(s)
  <2>1. \A i \in Indices : i \in Http!Called(Append(s, e)) <=> i \in Http!Called(s)
    BY SameMeaning
  <2> QED
    BY <2>1 DEF Http!Called
<1>2. \A i \in Http!Called(s) : i \in Indices
  BY DEF Http!Called
<1>3. \A i \in Http!Called(s) : Http!Meant(i, made[i], Append(s, e))
  BY <1>2, SameMeaning DEF PutTogether
<1> QED
  BY <1>1, <1>3 DEF PutTogether

LEMMA FragmentMeans ==
    ASSUME NEW s \in Seq(Http!Events), NEW e \in Http!Events, NEW i \in Indices,
           e.what \in Http!Fragment, e.index = i, NEW before \in Made, Http!Meant(i, before, s)
    PROVE  /\ i \in Http!Called(Append(s, e))
           /\ Http!Extended(before, e.what, Len(s) + 1) \in Made
           /\ Http!Meant(i, Http!Extended(before, e.what, Len(s) + 1), Append(s, e))
<1> DEFINE at == Len(s) + 1
           after == Http!Extended(before, e.what, at)
           more == Append(s, e)
<1>1. /\ Len(s) \in Nat /\ at \in Nat
      /\ \A kinds : /\ Http!Of(i, kinds, s) \subseteq 1 .. Len(s)
                    /\ Http!Of(i, kinds, more)
                         = Http!Of(i, kinds, s) \cup (IF e.what \in kinds THEN {at} ELSE {})
  BY OneMoreEvent
<1>2. \A k \in 1 .. Len(s) : k < at /\ ~(at <= k) /\ k \in Nat
  BY <1>1
<1>3. \A kinds : \A k \in Http!Of(i, kinds, s) : k < at /\ ~(at <= k) /\ k \in Nat
  BY <1>1, <1>2
<1>9. /\ Http!Of(i, {"head"}, more)
           = Http!Of(i, {"head"}, s) \cup (IF e.what \in {"head"} THEN {at} ELSE {})
      /\ Http!Of(i, {"part", "whole"}, more)
           = Http!Of(i, {"part", "whole"}, s)
           \cup (IF e.what \in {"part", "whole"} THEN {at} ELSE {})
      /\ Http!Of(i, {"whole"}, more)
           = Http!Of(i, {"whole"}, s) \cup (IF e.what \in {"whole"} THEN {at} ELSE {})
  BY <1>1, Zenon
<1>4. /\ before.id \in Nat /\ before.name \in Seq(Nat) /\ before.args \in Seq(Nat)
      /\ Http!Ascending(before.name, Http!Of(i, {"head"}, s))
      /\ Http!Ascending(before.args, Http!SinceWhole(i, s))
      /\ before.id = IF before.name = <<>> THEN 0 ELSE Http!Last(before.name)
  BY DEF Made, Http!Meant
<1> HIDE DEF at, more
<1>5. i \in Http!Called(more)
  <2>1. at \in Http!Of(i, Http!Fragment, more)
    BY <1>1
  <2> QED
    BY <2>1 DEF Http!Called
<1>6. CASE e.what = "head"
  <2>1. after = [before EXCEPT !.id = at, !.name = Append(before.name, at)]
    BY <1>6 DEF Http!Extended
  <2>2. /\ Http!Of(i, {"head"}, more) = Http!Of(i, {"head"}, s) \cup {at}
        /\ Http!Of(i, {"part", "whole"}, more) = Http!Of(i, {"part", "whole"}, s)
        /\ Http!Of(i, {"whole"}, more) = Http!Of(i, {"whole"}, s)
    BY <1>9, <1>6
  <2>3. Http!SinceWhole(i, more) = Http!SinceWhole(i, s)
    BY <2>2 DEF Http!SinceWhole
  <2>4. /\ Append(before.name, at) \in Seq(Nat)
        /\ Http!Ascending(Append(before.name, at), Http!Of(i, {"head"}, more))
    <3>1. \A k \in Http!Of(i, {"head"}, s) : k < at
      BY <1>3
    <3> QED
      <4>1. before.name \in Seq(Nat) /\ Http!Ascending(before.name, Http!Of(i, {"head"}, s))
        BY <1>4
      <4>2. /\ Append(before.name, at) \in Seq(Nat)
            /\ Http!Ascending(Append(before.name, at), Http!Of(i, {"head"}, s) \cup {at})
        BY <1>1, <3>1, <4>1, AscendingMore
      <4> QED
        BY <2>2, <4>2
  <2>5. /\ after \in Made /\ after.id = at /\ after.name = Append(before.name, at)
        /\ after.args = before.args
    BY <1>1, <1>4, <2>1, <2>4 DEF Made
  <2>6. Append(before.name, at) # <<>> /\ Http!Last(Append(before.name, at)) = at
    <3>1. /\ Len(Append(before.name, at)) = Len(before.name) + 1 /\ Len(before.name) \in Nat
          /\ Append(before.name, at)[Len(before.name) + 1] = at
      BY <1>1, <1>4, AppendProperties, LenProperties
    <3>2. Len(Append(before.name, at)) # 0 /\ Len(<<>>) = 0
      BY <3>1
    <3> QED
      BY <3>1, <3>2 DEF Http!Last
  <2> HIDE DEF after
  <2> QED
    BY <1>4, <1>5, <2>3, <2>4, <2>5, <2>6 DEF Http!Meant, at, more, after
<1>7. CASE e.what = "part"
  <2>1. after = [before EXCEPT !.args = Append(before.args, at)]
    BY <1>7 DEF Http!Extended
  <2>2. /\ Http!Of(i, {"head"}, more) = Http!Of(i, {"head"}, s)
        /\ Http!Of(i, {"part", "whole"}, more) = Http!Of(i, {"part", "whole"}, s) \cup {at}
        /\ Http!Of(i, {"whole"}, more) = Http!Of(i, {"whole"}, s)
    BY <1>9, <1>7
  <2>3. Http!SinceWhole(i, more) = Http!SinceWhole(i, s) \cup {at}
    <3>1. \A w \in Http!Of(i, {"whole"}, s) : w <= at
      BY <1>1, <1>3
    <3> QED
      BY <2>2, <3>1 DEF Http!SinceWhole
  <2>4. /\ Append(before.args, at) \in Seq(Nat)
        /\ Http!Ascending(Append(before.args, at), Http!SinceWhole(i, more))
    <3>1. \A k \in Http!SinceWhole(i, s) : k < at
      BY <1>3 DEF Http!SinceWhole
    <3> QED
      BY <1>1, <1>4, <2>3, <3>1, AscendingMore
  <2>5. /\ after \in Made /\ after.id = before.id /\ after.name = before.name
        /\ after.args = Append(before.args, at)
    BY <1>1, <1>4, <2>1, <2>4 DEF Made
  <2> HIDE DEF after
  <2> QED
    BY <1>4, <1>5, <2>2, <2>4, <2>5 DEF Http!Meant, at, more, after
<1>8. CASE e.what = "whole"
  <2>1. after = [before EXCEPT !.args = <<at>>]
    BY <1>8 DEF Http!Extended
  <2>2. /\ Http!Of(i, {"head"}, more) = Http!Of(i, {"head"}, s)
        /\ Http!Of(i, {"part", "whole"}, more) = Http!Of(i, {"part", "whole"}, s) \cup {at}
        /\ Http!Of(i, {"whole"}, more) = Http!Of(i, {"whole"}, s) \cup {at}
    BY <1>9, <1>8
  <2>3. Http!SinceWhole(i, more) = {at}
    <3>1. \A w \in Http!Of(i, {"whole"}, s) : w <= at
      BY <1>1, <1>3
    <3>2. at <= at
      BY <1>1
    <3>3. \A k \in Http!Of(i, {"part", "whole"}, s) : ~(at <= k)
      BY <1>3
    <3> QED
      BY <2>2, <3>1, <3>2, <3>3 DEF Http!SinceWhole
  <2>4. <<at>> \in Seq(Nat) /\ Http!Ascending(<<at>>, Http!SinceWhole(i, more))
    <3>1. DOMAIN <<at>> = {1} /\ <<at>>[1] = at
      OBVIOUS
    <3>2. \A m, n \in DOMAIN <<at>> : ~(m < n)
      BY <3>1
    <3> QED
      BY <1>1, <2>3, <3>1, <3>2 DEF Http!Ascending, Http!ToSet
  <2>5. /\ after \in Made /\ after.id = before.id /\ after.name = before.name
        /\ after.args = <<at>>
    BY <1>1, <1>4, <2>1, <2>4 DEF Made
  <2> HIDE DEF after
  <2> QED
    BY <1>4, <1>5, <2>2, <2>4, <2>5 DEF Http!Meant, at, more, after
<1> QED
  BY <1>6, <1>7, <1>8 DEF Http!Fragment

(* What the consumer has been handed of the answer s: its texts, and then   *)
(* those of its calls, put together in made, that come first.              *)
Items == {<<"text", n>> : n \in Nat} \cup {<<"call", i, c>> : i \in Indices, c \in Made}
Handed(g, s, made, t) ==
    /\ Http!InOrder("text", g, 1, t) /\ Http!Given(g, 1, t) = Http!Texts(s)
    /\ Http!InOrder("call", g, t + 1, Len(g))
    /\ \A n \in t + 1 .. Len(g) :
          /\ g[n][2] \in Http!Called(s) /\ g[n][3] = made[g[n][2]]
          /\ \A i \in Http!Called(s) : i < g[n][2] => i \in Http!Given(g, t + 1, Len(g))

LEMMA OneMoreItem ==
    ASSUME NEW S, NEW g \in Seq(S), NEW x
    PROVE  /\ Len(g) \in Nat /\ Len(Append(g, x)) = Len(g) + 1
           /\ DOMAIN g = 1 .. Len(g)
           /\ \A n \in 1 .. Len(g) : Append(g, x)[n] = g[n]
           /\ Append(g, x)[Len(g) + 1] = x
           /\ \A from, to : to \in 0 .. Len(g) /\ from \in 1 .. Len(g) + 1 =>
                Http!Given(Append(g, x), from, to) = Http!Given(g, from, to)
           /\ \A from \in 1 .. Len(g) + 1 :
                Http!Given(Append(g, x), from, Len(g) + 1) = Http!Given(g, from, Len(g)) \cup {x[2]}
<1> DEFINE more == Append(g, x)
<1>1. /\ Len(g) \in Nat /\ Len(more) = Len(g) + 1
      /\ DOMAIN g = 1 .. Len(g)
      /\ \A n \in 1 .. Len(g) : more[n] = g[n]
      /\ more[Len(g) + 1] = x
  <2>1. g \in Seq(S \cup {x})
    OBVIOUS
  <2> QED
    BY <2>1, AppendProperties, LenProperties
<1> HIDE DEF more
<1>2. ASSUME NEW from \in 1 .. Len(g) + 1, NEW to \in 0 .. Len(g)
      PROVE  Http!Given(more, from, to) = Http!Given(g, from, to)
  <2>1. \A n \in from .. to : n \in 1 .. Len(g)
    BY <1>1
  <2> QED
    BY <1>1, <2>1 DEF Http!Given
<1>3. ASSUME NEW from \in 1 .. Len(g) + 1
      PROVE  Http!Given(more, from, Len(g) + 1) = Http!Given(g, from, Len(g)) \cup {x[2]}
  <2>1. /\ \A n \in from .. Len(g) : n \in 1 .. Len(g) /\ n \in from .. Len(g) + 1
        /\ \A n \in from .. Len(g) + 1 : n \in from .. Len(g) \/ n = Len(g) + 1
        /\ Len(g) + 1 \in from .. Len(g) + 1
    BY <1>1
  <2> QED
    BY <1>1, <2>1 DEF Http!Given
<1> QED
  BY <1>1, <1>2, <1>3 DEF more

LEMMA TextIsHanded ==
    ASSUME NEW s \in Seq(Http!Events), NEW e \in Http!Events, e.what = "text",
           NEW S, NEW g \in Seq(S), NEW made, Handed(g, s, made, Len(g))
    PROVE  Handed(Append(g, <<"text", Len(s) + 1>>), Append(s, e), made, Len(g) + 1)
<1> DEFINE x == <<"text", Len(s) + 1>>
           more == Append(g, x)
<1>1. /\ Len(g) \in Nat /\ Len(more) = Len(g) + 1
      /\ \A n \in 1 .. Len(g) : more[n] = g[n]
      /\ more[Len(g) + 1] = x
      /\ Http!Given(more, 1, Len(g) + 1) = Http!Given(g, 1, Len(g)) \cup {x[2]}
  <2>1. Len(g) \in Nat /\ 1 \in 1 .. Len(g) + 1
    BY LenProperties
  <2> QED
    BY <2>1, OneMoreItem
<1>2. x[1] = "text" /\ x[2] = Len(s) + 1
  OBVIOUS
<1>3. /\ Http!Texts(Append(s, e)) = Http!Texts(s) \cup {Len(s) + 1}
      /\ Len(s) \in Nat /\ \A k \in Http!Texts(s) : k < Len(s) + 1
  BY OneMoreEvent
<1> HIDE DEF x, more
<1>4. \A n \in 1 .. Len(g) : g[n][2] \in Http!Texts(s)
  BY DEF Handed, Http!InOrder, Http!Given
<1>5. ASSUME NEW n \in 1 .. Len(g) + 1
      PROVE  more[n][1] = "text" /\ \A m \in 1 .. n - 1 : more[m][2] < more[n][2]
  <2>1. CASE n \in 1 .. Len(g)
    <3>1. g[n][1] = "text" /\ \A m \in 1 .. n - 1 : g[m][2] < g[n][2]
      BY <2>1 DEF Handed, Http!InOrder
    <3>2. \A m \in 1 .. n - 1 : m \in 1 .. Len(g)
      BY <1>1
    <3> QED
      BY <1>1, <2>1, <3>1, <3>2
  <2>2. CASE n = Len(g) + 1
    <3>1. \A m \in 1 .. n - 1 : m \in 1 .. Len(g)
      BY <1>1, <2>2
    <3> QED
      BY <1>1, <1>2, <1>3, <1>4, <2>2, <3>1
  <2> QED
    BY <1>1, <2>1, <2>2
<1>6. Http!Given(more, 1, Len(g) + 1) = Http!Texts(Append(s, e))
  BY <1>1, <1>2, <1>3 DEF Handed, Http!InOrder
<1>7. (Len(g) + 1) + 1 .. Len(more) = {}
  BY <1>1
<1> QED
  BY <1>5, <1>6, <1>7 DEF Handed, Http!InOrder, more, x

LEMMA NoTextNothingHanded ==
    ASSUME NEW s \in Seq(Http!Events), NEW e \in Http!Events, e.what # "text",
           NEW S, NEW g \in Seq(S), NEW made, NEW after, Handed(g, s, made, Len(g))
    PROVE  Handed(g, Append(s, e), after, Len(g))
<1>1. Http!Texts(Append(s, e)) = Http!Texts(s)
  <2>1. Http!Texts(Append(s, e))
          = Http!Texts(s) \cup (IF e.what = "text" THEN {Len(s) + 1} ELSE {})
    BY OneMoreEvent
  <2> QED
    BY <2>1
<1>2. Len(g) + 1 .. Len(g) = {}
  BY LenProperties
<1> QED
  BY <1>1, <1>2 DEF Handed, Http!InOrder

(* HandOver: the least call not handed over yet comes after the others.     *)
LEMMA CallIsHanded ==
    ASSUME NEW s, NEW S, NEW g \in Seq(S), NEW made, NEW t \in 0 .. Len(g), Handed(g, s, made, t),
           NEW i \in Http!Called(s), i \notin Http!Given(g, t + 1, Len(g)),
           \A j \in Http!Called(s) : j \notin Http!Given(g, t + 1, Len(g)) => i <= j
    PROVE  Handed(Append(g, <<"call", i, made[i]>>), s, made, t)
<1> DEFINE x == <<"call", i, made[i]>>
           more == Append(g, x)
           before == Http!Given(g, t + 1, Len(g))
<1>1. /\ Len(g) \in Nat /\ Len(more) = Len(g) + 1 /\ t \in Nat
      /\ \A n \in 1 .. Len(g) : more[n] = g[n]
      /\ more[Len(g) + 1] = x
      /\ Http!Given(more, 1, t) = Http!Given(g, 1, t)
      /\ Http!Given(more, t + 1, Len(g) + 1) = before \cup {x[2]}
  <2>1. Len(g) \in Nat /\ 1 \in 1 .. Len(g) + 1 /\ t + 1 \in 1 .. Len(g) + 1
    BY LenProperties
  <2> QED
    BY <2>1, OneMoreItem
<1>2. x[1] = "call" /\ x[2] = i /\ x[3] = made[i]
  OBVIOUS
<1>3. i \in Nat /\ \A j \in Http!Called(s) : j \in Nat
  BY HttpAssumption DEF Http!Called
<1> HIDE DEF x, more
<1>4. \A n \in t + 1 .. Len(g) :
         /\ g[n][1] = "call" /\ \A m \in t + 1 .. n - 1 : g[m][2] < g[n][2]
         /\ g[n][2] \in Http!Called(s) /\ g[n][3] = made[g[n][2]]
         /\ \A j \in Http!Called(s) : j < g[n][2] => j \in before
  BY DEF Handed, Http!InOrder
<1>5. \A n \in t + 1 .. Len(g) : g[n][2] \in before
  BY DEF Http!Given
<1> HIDE DEF before
<1>6. \A n \in t + 1 .. Len(g) : g[n][2] < i
  <2> SUFFICES ASSUME NEW n \in t + 1 .. Len(g) PROVE g[n][2] < i
    OBVIOUS
  <2>1. g[n][2] \in Nat /\ ~(i < g[n][2]) /\ g[n][2] # i
    BY <1>3, <1>4, <1>5 DEF before
  <2> QED
    BY <1>3, <2>1
<1>7. \A n \in 1 .. t : more[n] = g[n] /\ \A m \in 1 .. n - 1 : more[m] = g[m]
  BY <1>1
<1>8. /\ \A n \in 1 .. t : more[n][1] = "text" /\ \A m \in 1 .. n - 1 : more[m][2] < more[n][2]
      /\ Http!Given(more, 1, t) = Http!Texts(s)
  BY <1>1, <1>7 DEF Handed, Http!InOrder
<1>9. ASSUME NEW n \in t + 1 .. Len(g) + 1
      PROVE  /\ more[n][1] = "call" /\ \A m \in t + 1 .. n - 1 : more[m][2] < more[n][2]
             /\ more[n][2] \in Http!Called(s) /\ more[n][3] = made[more[n][2]]
             /\ \A j \in Http!Called(s) : j < more[n][2] => j \in before \cup {i}
  <2>0. \A m \in t + 1 .. n - 1 : m \in t + 1 .. Len(g) /\ m \in 1 .. Len(g)
    BY <1>1
  <2>1. CASE n \in t + 1 .. Len(g)
    <3>1. n \in 1 .. Len(g)
      BY <1>1, <2>1
    <3> QED
      BY <1>1, <1>4, <2>0, <2>1, <3>1
  <2>2. CASE n = Len(g) + 1
    <3>1. more[n] = x
      BY <1>1, <2>2
    <3>2. \A m \in t + 1 .. n - 1 : more[m][2] < i
      BY <1>1, <1>6, <2>0
    <3>3. \A j \in Http!Called(s) : j < i => j \in before
      BY <1>3 DEF before
    <3> QED
      BY <1>2, <3>1, <3>2, <3>3
  <2> QED
    BY <1>1, <2>1, <2>2
<1>10. Http!Given(more, t + 1, Len(more)) = before \cup {i}
  BY <1>1, <1>2
<1>11. \A n \in t + 1 .. Len(more) : n \in t + 1 .. Len(g) + 1
  BY <1>1
<1> QED
  BY <1>8, <1>9, <1>10, <1>11 DEF Handed, Http!InOrder, more, x

(* What AnswerIsWhatWasMeant says of t texts and the calls up to c.         *)
Says(g, s, t, c) ==
    /\ Http!InOrder("text", g, 1, t) /\ Http!Given(g, 1, t) = Http!Texts(s)
    /\ Http!InOrder("call", g, t + 1, c) /\ Http!Given(g, t + 1, c) \subseteq Http!Called(s)
    /\ \A n \in t + 1 .. c :
          /\ Http!Meant(g[n][2], g[n][3], s)
          /\ \A i \in Http!Called(s) : i < g[n][2] => i \in Http!Given(g, t + 1, c)

LEMMA HandedSays ==
    ASSUME NEW s, NEW g, NEW made, NEW t, Handed(g, s, made, t), PutTogether(s, made)
    PROVE  Says(g, s, t, Len(g))
<1>1. Http!Given(g, t + 1, Len(g)) \subseteq Http!Called(s)
  BY DEF Handed, Http!Given
<1>2. \A n \in t + 1 .. Len(g) : Http!Meant(g[n][2], g[n][3], s)
  BY DEF Handed, PutTogether
<1> QED
  BY <1>1, <1>2 DEF Handed, Says

LEMMA SaysStill ==
    ASSUME NEW S, NEW g \in Seq(S), NEW x, NEW s, NEW t \in 0 .. Len(g), Says(g, s, t, Len(g))
    PROVE  Says(Append(g, x), s, t, Len(g))
<1> DEFINE more == Append(g, x)
<1>1. /\ Len(g) \in Nat /\ t \in Nat
      /\ \A n \in 1 .. Len(g) : more[n] = g[n]
      /\ Http!Given(more, 1, t) = Http!Given(g, 1, t)
      /\ Http!Given(more, t + 1, Len(g)) = Http!Given(g, t + 1, Len(g))
  <2>1. Len(g) \in Nat /\ 1 \in 1 .. Len(g) + 1 /\ t + 1 \in 1 .. Len(g) + 1
        /\ Len(g) \in 0 .. Len(g)
    BY LenProperties
  <2> QED
    BY <2>1, OneMoreItem
<1> HIDE DEF more
<1>2. /\ \A n \in 1 .. t : more[n] = g[n] /\ \A m \in 1 .. n - 1 : more[m] = g[m]
      /\ \A n \in t + 1 .. Len(g) : more[n] = g[n] /\ \A m \in t + 1 .. n - 1 : more[m] = g[m]
  BY <1>1
<1>3. Http!InOrder("text", more, 1, t) /\ Http!InOrder("call", more, t + 1, Len(g))
  BY <1>2 DEF Says, Http!InOrder
<1> QED
  BY <1>1, <1>2, <1>3 DEF Says, more

StillGoing ==
    /\ phase \in {"asked", "streaming", "yielded", "tools"} /\ outcome = "none"
    /\ sent \in Seq(Http!Events) /\ got \in Seq(Items) /\ PutTogether(sent, acc)
    /\ \E t \in 0 .. Len(got) :
          Handed(got, sent, acc, t) /\ (phase \in {"asked", "streaming"} => t = Len(got))
    /\ phase = "asked" => sent = <<>>

HttpInv == IF phase = "over" THEN AnswerIsWhatWasMeant ELSE StillGoing

LEMMA HttpSays == HttpInv => AnswerIsWhatWasMeant
<1> SUFFICES ASSUME StillGoing PROVE AnswerIsWhatWasMeant
  BY DEF HttpInv
<1>1. PICK t \in 0 .. Len(got) :
        Handed(got, sent, acc, t) /\ (phase \in {"asked", "streaming"} => t = Len(got))
  BY DEF StillGoing
<1>2. Says(got, sent, t, Len(got))
  BY <1>1, HandedSays DEF StillGoing
<1>3. Len(got) \in t .. Len(got)
  BY <1>1, LenProperties DEF StillGoing
<1>4. /\ outcome = "none" /\ outcome \notin Http!Failures
      /\ phase = "streaming" => Len(got) = t
  BY <1>1 DEF StillGoing, Http!Failures
<1> QED
  BY <1>2, <1>3, <1>4 DEF AnswerIsWhatWasMeant, Http!AnswerIsWhatWasMeant, Says

LEMMA HttpStarts == Http!Init => HttpInv
<1> SUFFICES ASSUME Http!Init PROVE StillGoing
  BY DEF HttpInv, Http!Init
<1>1. sent = <<>> /\ acc = <<>> /\ got = <<>> /\ phase = "asked" /\ outcome = "none"
  BY DEF Http!Init
<1>2. Http!Called(<<>>) = {} /\ Http!Texts(<<>>) = {}
  BY DEF Http!Called, Http!Texts, Http!Of
<1>3. PutTogether(<<>>, <<>>)
  BY <1>2 DEF PutTogether
<1>4. Handed(<<>>, <<>>, <<>>, 0) /\ Len(<<>>) = 0 /\ 0 \in 0 .. 0
  BY <1>2 DEF Handed, Http!InOrder, Http!Given
<1> QED
  BY <1>1, <1>3, <1>4 DEF StillGoing

LEMMA LeastIsMin ==
    ASSUME NEW T, T \subseteq Nat, T # {}
    PROVE  Http!Min(T) \in T /\ \A n \in T : Http!Min(T) <= n
BY Least DEF Http!Min

LEMMA HttpReceives ==
    ASSUME StillGoing, Http!Receive
    PROVE  StillGoing' /\ phase' # "over"
<1>1. PICK e \in Http!Events :
        /\ sent' = Append(sent, e)
        /\ IF e.what = "text" THEN Http!Yields(<<"text", Len(sent')>>) /\ phase' = "yielded"
           ELSE UNCHANGED <<got, phase>>
        /\ acc' = IF e.what \in Http!Fragment
                  THEN Http!Accumulated(e.what, e.index, Len(sent')) ELSE acc
  BY DEF Http!Receive
<1>2. /\ phase = "streaming" /\ outcome' = "none" /\ sent \in Seq(Http!Events)
      /\ got \in Seq(Items) /\ Len(got) \in Nat
      /\ PutTogether(sent, acc) /\ Handed(got, sent, acc, Len(got))
  BY LenProperties DEF Http!Receive, StillGoing
<1>3. sent' \in Seq(Http!Events) /\ Len(sent') = Len(sent) + 1 /\ Len(sent) \in Nat
  BY <1>1, <1>2, OneMoreEvent
<1>4. PutTogether(sent', acc')
  <2>1. CASE e.what \notin Http!Fragment
    BY <1>1, <1>2, <2>1, NotAFragment
  <2>2. CASE e.what \in Http!Fragment
    <3> DEFINE i == e.index
               before == IF i \in DOMAIN acc THEN acc[i] ELSE Http!Nothing
               after == Http!Extended(before, e.what, Len(sent) + 1)
               called == Http!Called(sent)
    <3>1. i \in Indices
      BY <2>2 DEF Http!Events, Http!Fragment
    <3>2. acc \in [called -> Made] /\ \A j \in called : j \in Indices /\ Http!Meant(j, acc[j], sent)
      BY <1>2 DEF PutTogether, Http!Called
    <3>3. before \in Made /\ Http!Meant(i, before, sent)
      <4>1. CASE i \in called
        BY <3>2, <4>1
      <4>2. CASE i \notin called
        <5>1. before = Http!Nothing
          BY <3>2, <4>2
        <5>2. Http!Of(i, Http!Fragment, sent) = {}
          BY <3>1, <4>2 DEF Http!Called
        <5>3. Http!Of(i, {"head"}, sent) = {} /\ Http!Of(i, {"part", "whole"}, sent) = {}
          BY <5>2 DEF Http!Of, Http!Fragment
        <5>4. Http!SinceWhole(i, sent) = {}
          BY <5>3 DEF Http!SinceWhole
        <5>5. Http!Nothing \in Made /\ Http!Nothing.name = <<>> /\ Http!Nothing.args = <<>>
              /\ Http!Nothing.id = 0
          BY DEF Http!Nothing, Made
        <5>6. Http!Ascending(<<>>, {})
          BY DEF Http!Ascending, Http!ToSet
        <5> QED
          BY <5>1, <5>3, <5>4, <5>5, <5>6 DEF Http!Meant
      <4> QED
        BY <4>1, <4>2
    <3>4. acc' = [j \in called \cup {i} |-> IF j = i THEN after ELSE acc[j]]
      <4>1. DOMAIN acc = called
        BY <3>2
      <4>2. acc' = Http!Accumulated(e.what, e.index, Len(sent) + 1)
        BY <1>1, <1>3, <2>2
      <4> QED
        BY <4>1, <4>2 DEF Http!Accumulated
    <3> HIDE DEF before
    <3>5. /\ i \in Http!Called(sent') /\ after \in Made /\ Http!Meant(i, after, sent')
      BY <1>1, <1>2, <2>2, <3>1, <3>3, FragmentMeans
    <3> HIDE DEF after
    <3>6. \A j \in Indices : j # i =>
            /\ j \in Http!Called(sent') <=> j \in called
            /\ \A made : Http!Meant(j, made, sent') <=> Http!Meant(j, made, sent)
      BY <1>1, <1>2, SameMeaning
    <3>7. \A j \in Http!Called(sent') : j \in Indices
      BY DEF Http!Called
    <3> HIDE DEF called, i
    <3>8. Http!Called(sent') = called \cup {i}
      BY <3>2, <3>5, <3>6, <3>7
    <3>9. acc' \in [Http!Called(sent') -> Made]
      BY <3>2, <3>4, <3>5, <3>8
    <3>10. \A j \in Http!Called(sent') : Http!Meant(j, acc'[j], sent')
      BY <3>2, <3>4, <3>5, <3>6, <3>8
    <3> QED
      BY <3>9, <3>10 DEF PutTogether
  <2> QED
    BY <2>1, <2>2
<1>5. CASE e.what = "text"
  <2> DEFINE x == <<"text", Len(sent) + 1>>
  <2>1. got' = Append(got, x) /\ phase' = "yielded" /\ acc' = acc
    BY <1>1, <1>3, <1>5 DEF Http!Yields, Http!Fragment
  <2>2. x \in Items
    BY <1>3 DEF Items
  <2>3. Handed(got', sent', acc', Len(got) + 1)
    BY <1>1, <1>2, <1>5, <2>1, TextIsHanded
  <2> HIDE DEF x
  <2>4. got' \in Seq(Items) /\ Len(got') = Len(got) + 1
    BY <1>2, <2>1, <2>2, AppendProperties
  <2>5. Len(got) + 1 \in 0 .. Len(got')
    BY <1>2, <2>4
  <2> QED
    BY <1>2, <1>3, <1>4, <2>1, <2>3, <2>4, <2>5 DEF StillGoing
<1>6. CASE e.what # "text"
  <2>1. UNCHANGED <<got, phase>>
    BY <1>1, <1>6
  <2>2. Handed(got', sent', acc', Len(got'))
    BY <1>1, <1>2, <1>6, <2>1, NoTextNothingHanded
  <2>3. Len(got') \in 0 .. Len(got')
    BY <1>2, <2>1
  <2> QED
    BY <1>2, <1>3, <1>4, <2>1, <2>2, <2>3 DEF StillGoing
<1> QED
  BY <1>5, <1>6

(* What is handed over is what comes after the texts. *)
LEMMA HandedOverAre ==
    ASSUME StillGoing, NEW t \in 0 .. Len(got), Handed(got, sent, acc, t)
    PROVE  Http!HandedOver = Http!Given(got, t + 1, Len(got))
<1>1. Len(got) \in Nat /\ DOMAIN got = 1 .. Len(got)
  BY LenProperties DEF StillGoing
<1>2. /\ \A n \in 1 .. t : got[n][1] = "text"
      /\ \A n \in t + 1 .. Len(got) : got[n][1] = "call" /\ got[n][2] \in Http!Called(sent)
  BY DEF Handed, Http!InOrder
<1>3. \A i \in Http!Called(sent) : i \in Indices
  BY DEF Http!Called
<1>4. /\ \A n \in 1 .. Len(got) : n \in 1 .. t \/ n \in t + 1 .. Len(got)
      /\ \A n \in t + 1 .. Len(got) : n \in 1 .. Len(got)
  BY <1>1
<1> QED
  BY <1>1, <1>2, <1>3, <1>4 DEF Http!HandedOver, Http!Given

LEMMA HttpHandsOver ==
    ASSUME StillGoing, Http!HandOver
    PROVE  StillGoing' /\ phase' # "over"
<1>1. PICK t \in 0 .. Len(got) : Handed(got, sent, acc, t)
  BY DEF StillGoing
<1> DEFINE handed == Http!Given(got, t + 1, Len(got))
           i == Http!Min(DOMAIN acc \ Http!HandedOver)
           x == <<"call", i, acc[i]>>
<1>2. /\ sent \in Seq(Http!Events) /\ got \in Seq(Items) /\ Len(got) \in Nat
      /\ PutTogether(sent, acc) /\ outcome = "none"
  BY LenProperties DEF StillGoing
<1>3. Http!HandedOver = handed
  BY <1>1, HandedOverAre
<1>4. acc \in [Http!Called(sent) -> Made] /\ DOMAIN acc = Http!Called(sent)
  BY <1>2 DEF PutTogether
<1>5. handed \subseteq Http!Called(sent)
  BY <1>1 DEF Handed, Http!Given
<1>6. \A j \in Http!Called(sent) : j \in Indices /\ j \in Nat
  BY HttpAssumption DEF Http!Called
<1>7. /\ DOMAIN acc # Http!HandedOver /\ got' = Append(got, x) /\ phase' = "yielded"
      /\ UNCHANGED <<sent, acc, outcome>>
  BY DEF Http!HandOver, Http!Yields
<1> HIDE DEF handed
<1>8. i \in Http!Called(sent) /\ i \notin handed
      /\ \A j \in Http!Called(sent) : j \notin handed => i <= j
  <2>1. DOMAIN acc \ Http!HandedOver \subseteq Nat /\ DOMAIN acc \ Http!HandedOver # {}
    BY <1>3, <1>4, <1>5, <1>6, <1>7
  <2>2. i \in DOMAIN acc \ Http!HandedOver /\ \A j \in DOMAIN acc \ Http!HandedOver : i <= j
    BY <2>1, LeastIsMin
  <2> HIDE DEF i
  <2> QED
    BY <1>3, <1>4, <2>2
<1> HIDE DEF i
<1>9. Handed(Append(got, x), sent, acc, t)
  BY <1>1, <1>2, <1>8, CallIsHanded DEF handed
<1>10. x \in Items
  BY <1>4, <1>6, <1>8 DEF Items
<1> HIDE DEF x
<1>11. got' \in Seq(Items) /\ Len(got') = Len(got) + 1
  BY <1>2, <1>7, <1>10, AppendProperties
<1>12. t \in 0 .. Len(got')
  BY <1>2, <1>11
<1>13. Handed(got', sent', acc', t)
  BY <1>7, <1>9
<1> QED
  BY <1>2, <1>7, <1>11, <1>12, <1>13 DEF StillGoing

LEMMA HttpEnds ==
    ASSUME StillGoing, UNCHANGED sent, phase' = "over",
           \/ Http!Generated \/ Http!RequestFails \/ Http!Closed \/ Http!StreamFails
           \/ Http!CallRefused \/ Http!Final
    PROVE  AnswerIsWhatWasMeant'
<1>1. PICK t \in 0 .. Len(got) :
        Handed(got, sent, acc, t) /\ (phase \in {"asked", "streaming"} => t = Len(got))
  BY DEF StillGoing
<1>2. /\ sent \in Seq(Http!Events) /\ got \in Seq(Items) /\ Len(got) \in Nat
      /\ PutTogether(sent, acc) /\ Len(got) \in t .. Len(got)
  BY LenProperties DEF StillGoing
<1>3. Says(got, sent, t, Len(got))
  BY <1>1, <1>2, HandedSays
<1>4. CASE Http!Generated \/ Http!RequestFails
  <2>1. sent' = <<>>
    BY <1>4 DEF Http!Generated, Http!RequestFails, StillGoing
  <2> QED
    BY <2>1 DEF AnswerIsWhatWasMeant, Http!AnswerIsWhatWasMeant
<1>5. CASE Http!Closed \/ Http!CallRefused \/ Http!StreamFails
  <2>1. got' = got /\ sent' = sent
    BY <1>5 DEF Http!Closed, Http!CallRefused, Http!StreamFails
  <2>2. outcome' # "answered" /\ (outcome' \in Http!Failures => t = Len(got))
    <3>1. CASE Http!Closed \/ Http!CallRefused
      BY <3>1 DEF Http!Closed, Http!CallRefused, Http!Over, Http!Failures
    <3>2. CASE Http!StreamFails
      BY <1>1, <3>2 DEF Http!StreamFails, Http!Over, Http!Failures
    <3> QED
      BY <1>5, <3>1, <3>2
  <2> QED
    BY <1>1, <1>2, <1>3, <2>1, <2>2 DEF AnswerIsWhatWasMeant, Http!AnswerIsWhatWasMeant, Says
<1>6. CASE Http!Final
  <2> DEFINE x == <<"final", Http!LastOf("finish"), Http!LastOf("usage")>>
  <2>1. got' = Append(got, x) /\ outcome' = "answered" /\ DOMAIN acc = Http!HandedOver
        /\ sent' = sent
    BY <1>6 DEF Http!Final, Http!Yields, Http!Over
  <2>2. x' = x
    BY <2>1 DEF Http!LastOf
  <2>3. Http!Given(got, t + 1, Len(got)) = Http!Called(sent)
    BY <1>1, <1>2, <2>1, HandedOverAre DEF PutTogether
  <2> HIDE DEF x
  <2>4. /\ Len(got') = Len(got) + 1 /\ got'[Len(got) + 1] = x
        /\ Http!Given(got', t + 1, Len(got)) = Http!Given(got, t + 1, Len(got))
    <3>1. t + 1 \in 1 .. Len(got) + 1 /\ Len(got) \in 0 .. Len(got)
      BY <1>2
    <3> QED
      BY <1>2, <2>1, <3>1, OneMoreItem
  <2>5. Says(got', sent', t, Len(got))
    BY <1>2, <1>3, <2>1, SaysStill
  <2>6. t \in 0 .. Len(got') /\ Len(got) \in t .. Len(got')
    BY <1>2, <2>4
  <2>7. phase' # "streaming" /\ outcome' \notin Http!Failures
    BY <2>1 DEF Http!Failures
  <2>8. got'[Len(got) + 1] = <<"final", Http!LastOf("finish")', Http!LastOf("usage")'>>
    BY <2>2, <2>4 DEF x
  <2>9. Http!Given(got', t + 1, Len(got)) = Http!Called(sent')
    BY <2>1, <2>3, <2>4
  <2> QED
    BY <2>1, <2>4, <2>5, <2>6, <2>7, <2>8, <2>9
    DEF AnswerIsWhatWasMeant, Http!AnswerIsWhatWasMeant, Says
<1> QED
  BY <1>4, <1>5, <1>6

LEMMA HttpMoves == HttpInv /\ [Http!Next]_httpVars => HttpInv'
<1> SUFFICES ASSUME HttpInv, [Http!Next]_httpVars PROVE HttpInv'
  OBVIOUS
<1>1. CASE UNCHANGED httpVars
  BY <1>1 DEF httpVars, HttpInv, StillGoing, AnswerIsWhatWasMeant, Http!AnswerIsWhatWasMeant,
     Http!LastOf
<1>2. CASE Http!Receive
  <2>1. StillGoing
    BY <1>2 DEF HttpInv, Http!Receive
  <2> QED
    BY <1>2, <2>1, HttpReceives DEF HttpInv
<1>3. CASE Http!HandOver
  <2>1. StillGoing
    BY <1>3 DEF HttpInv, Http!HandOver
  <2> QED
    BY <1>3, <2>1, HttpHandsOver DEF HttpInv
<1>4. CASE \/ Http!Generated \/ Http!RequestFails \/ Http!Closed \/ Http!StreamFails
           \/ Http!CallRefused \/ Http!Final
  <2>1. StillGoing /\ UNCHANGED sent /\ phase' = "over"
    BY <1>4 DEF HttpInv, Http!Generated, Http!RequestFails, Http!Closed, Http!StreamFails,
       Http!CallRefused, Http!Final, Http!Over
  <2> QED
    BY <1>4, <2>1, HttpEnds DEF HttpInv
<1>5. CASE Http!Connected \/ Http!Resumed \/ Http!ServerDone
  <2>1. StillGoing /\ UNCHANGED <<sent, acc, got, outcome>>
    BY <1>5 DEF HttpInv, Http!Connected, Http!Resumed, Http!ServerDone
  <2>2. PICK t \in 0 .. Len(got) :
          Handed(got, sent, acc, t) /\ (phase \in {"asked", "streaming"} => t = Len(got))
    BY <2>1 DEF StillGoing
  <2>3. phase' \in {"streaming", "tools"} /\ (phase' = "streaming" => t = Len(got))
    <3>1. CASE Http!Connected \/ Http!ServerDone
      BY <2>2, <3>1 DEF Http!Connected, Http!ServerDone
    <3>2. CASE Http!Resumed
      <4>1. phase' = IF Len(got) > 0 /\ Http!Last(got)[1] = "call" THEN "tools" ELSE "streaming"
        BY <3>2 DEF Http!Resumed
      <4>2. Len(got) \in Nat
        BY <2>1, LenProperties DEF StillGoing
      <4>3. ASSUME t # Len(got) PROVE Len(got) > 0 /\ Http!Last(got)[1] = "call"
        <5>1. Len(got) \in t + 1 .. Len(got) /\ Len(got) > 0
          BY <4>2, <4>3
        <5> QED
          BY <2>2, <5>1 DEF Handed, Http!InOrder, Http!Last
      <4> QED
        BY <4>1, <4>3
    <3> QED
      BY <1>5, <3>1, <3>2
  <2>4. StillGoing'
    BY <2>1, <2>2, <2>3 DEF StillGoing
  <2> QED
    BY <2>3, <2>4 DEF HttpInv
<1> QED
  BY <1>1, <1>2, <1>3, <1>4, <1>5 DEF Http!Next

(* However the server cuts, interleaves and breaks off its answer, and      *)
(* whenever the consumer leaves: it is handed the texts in their order and  *)
(* the calls the server meant by index, none of them after a failure.       *)
THEOREM StreamsHandOverWhatWasMeant == ServicesSpec => []AnswerIsWhatWasMeant
<1>1. ServicesInit => HttpInv
  BY HttpStarts DEF ServicesInit
<1>2. HttpInv /\ [ServicesNext]_serviceVars => HttpInv'
  BY HttpMoves, EachPartByItself
<1> QED
  BY <1>1, <1>2, HttpSays, PTL DEF ServicesSpec
=============================================================================
