-------------------------- MODULE EnginePartsProofs --------------------------
(***************************************************************************)
(* The parts of MCEngineParts, for any number of requests and samples.  A  *)
(* step of the composition is a step of one part or leaves that part       *)
(* alone, so each part is proved by itself.                                *)
(***************************************************************************)
EXTENDS MCEngineParts, SequenceTheorems, FiniteSetTheorems, TLAPS

LEMMA EachPartByItself == [Next]_vars => [Play!Next]_playVars
BY DEF Next, PlayNext, CaptureNext, ServerNext, vars


-----------------------------------------------------------------------------
(* Playback *)

Samples == Callers \X Nat
Sounds == Seq(Samples)
StreamRows ==
    [device : BOOLEAN, bridge : BOOLEAN, cancelled : BOOLEAN,
     channel : Seq(Callers), input : Sounds, samples : Sounds]
Later == {"clone", "send", "ok", "error"}
CallPcs == {"idle", "open", "install"} \cup Later

PlayTypes ==
    /\ current \in Callers \cup {NoStream}
    /\ calls \in [Callers -> [pc : CallPcs, to : Callers \cup {NoStream}]]
    /\ streams \in [Callers -> StreamRows]
    /\ heard \in Sounds
    /\ hushed \in [Callers -> {"no", "under way", "accepted"}]

Empty(s) == streams[s].channel = <<>> /\ streams[s].input = <<>> /\ streams[s].samples = <<>>

Nowhere(c, s) ==
    /\ Play!Absent(c, streams[s].samples) /\ Play!Absent(c, streams[s].input)
    /\ \A j \in DOMAIN streams[s].channel : streams[s].channel[j] # c

(* Only the current stream plays, besides those not yet installed. *)
OnePlays ==
    /\ \A s \in Callers :
          /\ streams[s].device => s = current \/ calls[s].pc = "install"
          /\ calls[s].pc = "install" => Empty(s) /\ ~streams[s].cancelled
    /\ current # NoStream => calls[current].pc \in Later /\ ~streams[current].cancelled

(* A sound goes to the current stream until silence is asked for. *)
ToTheCurrent ==
    \A c \in Callers :
       /\ calls[c].pc = "send" =>
             calls[c].to \in Callers /\ calls[calls[c].to].pc \in Later
       /\ hushed[c] = "no" =>
             /\ calls[c].pc = "clone" => current # NoStream
             /\ calls[c].pc = "send" => calls[c].to = current

(* What has not been accepted is nowhere, and what had been when silence    *)
(* was asked for is at no stream that plays.                               *)
NotYetSent ==
    \A c \in Callers : calls[c].pc # "ok" =>
       Play!Absent(c, heard) /\ \A s \in Callers : Nowhere(c, s)
Silenced ==
    \A c \in Callers : hushed[c] = "accepted" =>
       calls[c].pc = "ok" /\ \A s \in Callers : streams[s].device => Nowhere(c, s)

PlaybackInv == PlayTypes /\ OnePlays /\ ToTheCurrent /\ NotYetSent /\ Silenced
PlaysAll == PlaybackInv /\ Play!AcceptedIsNotLost

(* An accepted sound is kept: taken whole, or waiting whole. *)
Kept(c, taken, waiting) ==
    \/ Play!Whole(c, taken) /\ \A j \in DOMAIN waiting : waiting[j] # c
    \/ /\ Play!Absent(c, taken)
       /\ \E i \in DOMAIN waiting : \A j \in DOMAIN waiting : waiting[j] = c <=> j = i

LEMMA AllKept ==
    Play!AcceptedIsNotLost <=>
       \A c \in Callers : calls[c].pc = "ok" /\ hushed[c] = "no" => Kept(c, Play!Taken, Play!Waiting)
BY DEF Play!AcceptedIsNotLost, Kept

LEMMA AllKeptNext ==
    Play!AcceptedIsNotLost' <=>
       \A c \in Callers : calls'[c].pc = "ok" /\ hushed'[c] = "no" => Kept(c, Play!Taken', Play!Waiting')
BY DEF Play!AcceptedIsNotLost, Kept

LEMMA PlaybackStarts == Play!Init => PlaysAll
<1> SUFFICES ASSUME Play!Init PROVE PlaysAll
  OBVIOUS
<1>1. PlayTypes
  BY DEF Play!Init, PlayTypes, CallPcs, StreamRows, Play!Closed, Sounds
<1>2. OnePlays /\ ToTheCurrent /\ NotYetSent /\ Silenced
  BY PlaybackAssumption DEF Play!Init, OnePlays, ToTheCurrent, NotYetSent, Silenced, Nowhere, Play!Absent,
     Play!Closed
<1>3. Play!AcceptedIsNotLost
  BY DEF Play!Init, Play!AcceptedIsNotLost
<1> QED
  BY <1>1, <1>2, <1>3 DEF PlaysAll, PlaybackInv

(* Where a sound is when others join it. *)
LEMMA SoundIs == ASSUME NEW c \in Callers
                 PROVE  /\ Play!Sound(c) \in Sounds /\ Len(Play!Sound(c)) = Length
                        /\ \A i \in 1 .. Length : Play!Sound(c)[i] = <<c, i>>
<1>1. Play!Sound(c) \in [1 .. Length -> Samples]
  BY PlaybackAssumption DEF Play!Sound, Samples
<1> QED
  BY <1>1, PlaybackAssumption, IsASeq DEF Play!Sound, Sounds

LEMMA Joined ==
    ASSUME NEW q \in Sounds, NEW r \in Sounds
    PROVE  /\ q \o r \in Sounds /\ Len(q \o r) = Len(q) + Len(r)
           /\ DOMAIN q = 1 .. Len(q) /\ DOMAIN r = 1 .. Len(r)
           /\ DOMAIN (q \o r) = 1 .. Len(q) + Len(r) /\ Len(q) \in Nat /\ Len(r) \in Nat
           /\ \A i \in 1 .. Len(q) : (q \o r)[i] = q[i]
           /\ \A i \in 1 .. Len(r) : (q \o r)[Len(q) + i] = r[i]
           /\ \A i \in 1 .. Len(q) + Len(r) :
                 i \in 1 .. Len(q) \/ (i > Len(q) /\ i - Len(q) \in 1 .. Len(r)
                                       /\ (q \o r)[i] = r[i - Len(q)])
<1>1. /\ q \o r \in Sounds /\ Len(q \o r) = Len(q) + Len(r) /\ Len(q) \in Nat /\ Len(r) \in Nat
      /\ \A i \in 1 .. Len(q) + Len(r) :
             (q \o r)[i] = IF i <= Len(q) THEN q[i] ELSE r[i - Len(q)]
  BY ConcatProperties DEF Sounds
<1>2. DOMAIN q = 1 .. Len(q) /\ DOMAIN r = 1 .. Len(r) /\ DOMAIN (q \o r) = 1 .. Len(q) + Len(r)
  BY <1>1, LenProperties DEF Sounds
<1>3. \A i \in 1 .. Len(q) + Len(r) : i \in 1 .. Len(q) \/ (i > Len(q) /\ i - Len(q) \in 1 .. Len(r))
  BY <1>1
<1>4. \A i \in 1 .. Len(r) : Len(q) + i \in 1 .. Len(q) + Len(r) /\ ~(Len(q) + i <= Len(q))
                             /\ Len(q) + i - Len(q) = i
  BY <1>1
<1>5. \A i \in 1 .. Len(r) : (q \o r)[Len(q) + i] = r[i]
  BY <1>1, <1>4
<1>6. \A i \in 1 .. Len(q) : i \in 1 .. Len(q) + Len(r) /\ i <= Len(q)
  BY <1>1
<1> QED
  BY <1>1, <1>2, <1>3, <1>5, <1>6

LEMMA JoinedInAnyOrder ==
    ASSUME NEW p \in Sounds, NEW q \in Sounds, NEW r \in Sounds
    PROVE  (p \o q) \o r = p \o (q \o r)
BY ConcatAssociative DEF Sounds

LEMMA AbsentJoined ==
    ASSUME NEW c, NEW q \in Sounds, NEW r \in Sounds
    PROVE  Play!Absent(c, q \o r) <=> Play!Absent(c, q) /\ Play!Absent(c, r)
<1>0. /\ DOMAIN q = 1 .. Len(q) /\ DOMAIN r = 1 .. Len(r)
      /\ DOMAIN (q \o r) = 1 .. Len(q) + Len(r) /\ Len(q) \in Nat /\ Len(r) \in Nat
      /\ \A i \in 1 .. Len(q) : (q \o r)[i] = q[i]
      /\ \A i \in 1 .. Len(r) : (q \o r)[Len(q) + i] = r[i]
      /\ \A i \in 1 .. Len(q) + Len(r) :
            i \in 1 .. Len(q) \/ (i - Len(q) \in 1 .. Len(r) /\ (q \o r)[i] = r[i - Len(q)])
  BY Joined
<1>1. ASSUME Play!Absent(c, q), Play!Absent(c, r) PROVE Play!Absent(c, q \o r)
  BY <1>0, <1>1 DEF Play!Absent
<1>2. ASSUME Play!Absent(c, q \o r) PROVE Play!Absent(c, q) /\ Play!Absent(c, r)
  <2>1. \A i \in 1 .. Len(q) : i \in DOMAIN (q \o r)
    BY <1>0
  <2>2. \A i \in 1 .. Len(r) : Len(q) + i \in DOMAIN (q \o r)
    BY <1>0
  <2>3. Play!Absent(c, q)
    BY <1>0, <1>2, <2>1 DEF Play!Absent
  <2>4. Play!Absent(c, r)
    BY <1>0, <1>2, <2>2 DEF Play!Absent
  <2> QED
    BY <2>3, <2>4
<1> QED
  BY <1>1, <1>2

LEMMA AnotherSound ==
    ASSUME NEW c \in Callers, NEW d \in Callers, c # d
    PROVE  Play!Absent(c, Play!Sound(d))
BY SoundIs, LenProperties DEF Play!Absent, Sounds

LEMMA WholeJoined ==
    ASSUME NEW c \in Callers, NEW q \in Sounds
    PROVE  /\ \A r \in Sounds : Play!Whole(c, q) /\ Play!Absent(c, r) => Play!Whole(c, q \o r)
           /\ Play!Absent(c, q) => Play!Whole(c, q \o Play!Sound(c))
<1>0. Length \in Nat
  BY PlaybackAssumption
<1>1. ASSUME NEW r \in Sounds, Play!Whole(c, q), Play!Absent(c, r) PROVE Play!Whole(c, q \o r)
  <2>1. PICK k \in 0 .. Len(q) - Length : \A i \in DOMAIN q :
           IF i \in k + 1 .. k + Length THEN q[i] = Play!Sound(c)[i - k] ELSE q[i][1] # c
    BY <1>1 DEF Play!Whole
  <2>2. k \in 0 .. Len(q \o r) - Length /\ k + Length <= Len(q) /\ k \in Nat
    BY <1>0, Joined
  <2>3. ASSUME NEW i \in 1 .. Len(q) + Len(r)
        PROVE  IF i \in k + 1 .. k + Length THEN (q \o r)[i] = Play!Sound(c)[i - k] ELSE (q \o r)[i][1] # c
    <3>1. CASE i \in 1 .. Len(q)
      BY <2>1, <3>1, Joined
    <3>2. CASE i > Len(q) /\ i - Len(q) \in 1 .. Len(r) /\ (q \o r)[i] = r[i - Len(q)]
      <4>1. i \notin k + 1 .. k + Length
        BY <1>0, <2>2, <3>2, Joined
      <4>2. r[i - Len(q)][1] # c
        BY <1>1, <3>2, Joined DEF Play!Absent
      <4> QED
        BY <3>2, <4>1, <4>2
    <3> QED
      BY <3>1, <3>2, Joined
  <2>4. DOMAIN (q \o r) = 1 .. Len(q) + Len(r)
    BY Joined
  <2> QED
    BY <2>2, <2>3, <2>4 DEF Play!Whole
<1>2. ASSUME Play!Absent(c, q) PROVE Play!Whole(c, q \o Play!Sound(c))
  <2> DEFINE r == Play!Sound(c)
  <2>1. r \in Sounds /\ Len(r) = Length
    BY SoundIs
  <2> HIDE DEF r
  <2>2. Len(q) \in 0 .. Len(q \o r) - Length /\ Len(q) \in Nat
    BY <1>0, <2>1, Joined
  <2>3. ASSUME NEW i \in 1 .. Len(q) + Len(r)
        PROVE  IF i \in Len(q) + 1 .. Len(q) + Length THEN (q \o r)[i] = r[i - Len(q)] ELSE (q \o r)[i][1] # c
    <3>1. CASE i \in 1 .. Len(q)
      <4>1. i \notin Len(q) + 1 .. Len(q) + Length /\ (q \o r)[i] = q[i]
        BY <1>0, <2>1, <2>2, <3>1, Joined
      <4>2. q[i][1] # c
        BY <1>2, <2>1, <3>1, Joined DEF Play!Absent
      <4> QED
        BY <4>1, <4>2
    <3>2. CASE i > Len(q) /\ i - Len(q) \in 1 .. Len(r) /\ (q \o r)[i] = r[i - Len(q)]
      <4>1. i \in Len(q) + 1 .. Len(q) + Length
        BY <1>0, <2>1, <2>2, <3>2
      <4> QED
        BY <3>2, <4>1
    <3> QED
      BY <2>1, <3>1, <3>2, Joined
  <2>4. DOMAIN (q \o r) = 1 .. Len(q) + Len(r)
    BY <2>1, Joined
  <2>5. Play!Whole(c, q \o r)
    BY <2>2, <2>3, <2>4 DEF Play!Whole, r
  <2> QED
    BY <2>5 DEF r
<1> QED
  BY <1>1, <1>2

-----------------------------------------------------------------------------
(* One step of a request, which touches no stream that exists. *)

(* The request goes from where it was; nothing has been accepted or sent. *)
LEMMA RequestMoves ==
    ASSUME PlaysAll, NEW c \in Callers, calls[c].pc \notin {"install", "ok", "error"},
           NEW pc \in CallPcs, NEW to \in Callers \cup {NoStream},
           calls' = [calls EXCEPT ![c] = [pc |-> pc, to |-> to]],
           UNCHANGED <<current, streams, heard, hushed>>,
           pc = "install" => FALSE,
           calls[c].pc \in Later => pc \in Later,
           pc = "clone" => current # NoStream,
           pc = "send" => to \in Callers /\ to = current,
           pc = "ok" => hushed[c] # "no"
    PROVE  PlaysAll'
<1>1. PlayTypes /\ OnePlays /\ ToTheCurrent /\ NotYetSent /\ Silenced
  BY DEF PlaysAll, PlaybackInv
<1>2. PlayTypes'
  BY <1>1 DEF PlayTypes
<1>3. \A d \in Callers : calls'[d].pc = (IF d = c THEN pc ELSE calls[d].pc)
                        /\ calls'[d].to = (IF d = c THEN to ELSE calls[d].to)
  BY <1>1 DEF PlayTypes
<1>4. OnePlays'
  BY <1>1, <1>3 DEF OnePlays, Empty, Later, PlayTypes
<1>5. ToTheCurrent'
  <2> SUFFICES ASSUME NEW d \in Callers
               PROVE  /\ calls'[d].pc = "send" => calls'[d].to \in Callers /\ calls'[calls'[d].to].pc \in Later
                      /\ hushed[d] = "no" => /\ calls'[d].pc = "clone" => current # NoStream
                                             /\ calls'[d].pc = "send" => calls'[d].to = current
    BY DEF ToTheCurrent
  <2>1. CASE d = c
    BY <1>1, <1>3, <2>1, PlaybackAssumption DEF OnePlays
  <2>2. CASE d # c
    BY <1>1, <1>3, <2>2 DEF ToTheCurrent
  <2> QED
    BY <2>1, <2>2
<1>6. NotYetSent'
  BY <1>1, <1>3 DEF NotYetSent, Nowhere, Play!Absent
<1>7. Silenced'
  BY <1>1, <1>3 DEF Silenced, Nowhere, Play!Absent
<1>8. Play!AcceptedIsNotLost'
  <2>1. Play!Taken' = Play!Taken /\ Play!Waiting' = Play!Waiting
    BY DEF Play!Taken, Play!Waiting
  <2>2. \A d \in Callers : calls'[d].pc = "ok" /\ hushed'[d] = "no" => calls[d].pc = "ok" /\ hushed[d] = "no"
    BY <1>3
  <2> QED
    BY <2>1, <2>2, AllKept, AllKeptNext DEF PlaysAll
<1> QED
  BY <1>2, <1>4, <1>5, <1>6, <1>7, <1>8 DEF PlaysAll, PlaybackInv

(* Every request goes on from where it is, to the same stream. *)
LEMMA Gone ==
    ASSUME PlayTypes, NEW c \in Callers, NEW pc \in CallPcs, Play!Goes(c, pc)
    PROVE  /\ calls' \in [Callers -> [pc : CallPcs, to : Callers \cup {NoStream}]]
           /\ \A d \in Callers : /\ calls'[d].pc = (IF d = c THEN pc ELSE calls[d].pc)
                                 /\ calls'[d].to = calls[d].to
BY DEF PlayTypes, Play!Goes

LEMMA ClosedRow ==
    /\ Play!Closed \in StreamRows
    /\ Play!Closed.channel = <<>> /\ Play!Closed.input = <<>> /\ Play!Closed.samples = <<>>
    /\ ~Play!Closed.device /\ ~Play!Closed.cancelled
    /\ \A works \in BOOLEAN :
          LET row == [Play!Closed EXCEPT !.device = TRUE, !.bridge = works]
          IN  /\ row \in StreamRows
              /\ row.channel = <<>> /\ row.input = <<>> /\ row.samples = <<>>
              /\ row.cancelled = FALSE
<1>1. /\ Play!Closed \in StreamRows
      /\ Play!Closed.channel = <<>> /\ Play!Closed.input = <<>> /\ Play!Closed.samples = <<>>
      /\ ~Play!Closed.device /\ ~Play!Closed.cancelled
  BY DEF Play!Closed, StreamRows, Sounds
<1>2. ASSUME NEW works \in BOOLEAN,
             NEW row, row = [Play!Closed EXCEPT !.device = TRUE, !.bridge = works]
      PROVE  /\ row \in StreamRows
             /\ row.channel = <<>> /\ row.input = <<>> /\ row.samples = <<>>
             /\ row.cancelled = FALSE
  <2>1. row = [device |-> TRUE, bridge |-> works, cancelled |-> FALSE,
               channel |-> <<>>, input |-> <<>>, samples |-> <<>>]
    BY <1>2 DEF Play!Closed
  <2> QED
    BY <2>1 DEF StreamRows, Sounds
<1> QED
  BY <1>1, <1>2

LEMMA OpensStep == ASSUME PlaysAll, NEW c \in Callers, Play!Opens(c) PROVE PlaysAll'
<1>1. PlayTypes /\ OnePlays /\ ToTheCurrent /\ NotYetSent /\ Silenced
  BY DEF PlaysAll, PlaybackInv
<1>2. /\ \A d \in Callers : /\ calls'[d].pc = (IF d = c THEN "install" ELSE calls[d].pc)
                            /\ calls'[d].to = calls[d].to
      /\ calls' \in [Callers -> [pc : CallPcs, to : Callers \cup {NoStream}]]
  <2>1. "install" \in CallPcs
    BY DEF CallPcs
  <2> QED
    BY <1>1, <2>1, Gone DEF Play!Opens
<1>3. calls[c].pc = "open" /\ c # current
  BY <1>1, PlaybackAssumption DEF Play!Opens, OnePlays, Later
<1>4. PICK works \in BOOLEAN :
        streams' = [streams EXCEPT ![c] = [Play!Closed EXCEPT !.device = TRUE, !.bridge = works]]
  BY DEF Play!Opens
<1>5. /\ \A s \in Callers : s # c => streams'[s] = streams[s]
      /\ streams'[c].channel = <<>> /\ streams'[c].input = <<>> /\ streams'[c].samples = <<>>
      /\ streams'[c].cancelled = FALSE
      /\ streams' \in [Callers -> StreamRows]
  BY <1>1, <1>4, ClosedRow DEF PlayTypes
<1>6. UNCHANGED <<current, heard, hushed>>
  BY DEF Play!Opens
<1>7. PlayTypes'
  BY <1>1, <1>2, <1>5, <1>6 DEF PlayTypes
<1>8. OnePlays'
  BY <1>1, <1>2, <1>3, <1>5, <1>6 DEF OnePlays, Empty, PlayTypes
<1>9. ToTheCurrent'
  BY <1>1, <1>2, <1>3, <1>6 DEF ToTheCurrent, Later
<1>10. \A d \in Callers : Nowhere(d, c)'
  BY <1>5 DEF Nowhere, Play!Absent
<1>11. \A d, s \in Callers : s # c /\ Nowhere(d, s) => Nowhere(d, s)'
  BY <1>5 DEF Nowhere, Play!Absent
<1>12. NotYetSent'
  BY <1>1, <1>2, <1>3, <1>6, <1>10, <1>11 DEF NotYetSent, Play!Absent
<1>13. Silenced'
  BY <1>1, <1>2, <1>3, <1>5, <1>6, <1>10, <1>11 DEF Silenced
<1>14. Play!Taken' = Play!Taken /\ Play!Waiting' = Play!Waiting
  BY <1>1, <1>3, <1>5, <1>6 DEF Play!Taken, Play!Waiting, PlayTypes
<1>15. Play!AcceptedIsNotLost'
  BY <1>2, <1>3, <1>6, <1>14, AllKept, AllKeptNext DEF PlaysAll
<1> QED
  BY <1>7, <1>8, <1>9, <1>12, <1>13, <1>15 DEF PlaysAll, PlaybackInv

LEMMA InstallStep == ASSUME PlaysAll, NEW c \in Callers, Play!Install(c) PROVE PlaysAll'
<1>1. PlayTypes /\ OnePlays /\ ToTheCurrent /\ NotYetSent /\ Silenced
  BY DEF PlaysAll, PlaybackInv
<1>2. /\ \A d \in Callers : /\ calls'[d].pc = (IF d = c THEN "clone" ELSE calls[d].pc)
                            /\ calls'[d].to = calls[d].to
      /\ calls' \in [Callers -> [pc : CallPcs, to : Callers \cup {NoStream}]]
  <2>1. "clone" \in CallPcs
    BY DEF CallPcs, Later
  <2> QED
    BY <1>1, <2>1, Gone DEF Play!Install
<1>3. calls[c].pc = "install" /\ c # current /\ Empty(c) /\ ~streams[c].cancelled
  BY <1>1, PlaybackAssumption DEF Play!Install, OnePlays, Later
<1>4. UNCHANGED <<heard, hushed>>
  BY DEF Play!Install
<1>5. ASSUME streams' \in [Callers -> StreamRows],
             \A s \in Callers : s # c => streams'[s] = streams[s],
             streams'[c].channel = <<>>, streams'[c].input = <<>>, streams'[c].samples = <<>>,
             current' \in Callers, current' # c => ~streams'[c].device /\ current' = current,
             ~streams'[c].cancelled,
             current' = c => current = NoStream
      PROVE  PlaysAll'
  <2>1. PlayTypes'
    BY <1>1, <1>2, <1>4, <1>5 DEF PlayTypes
  <2>2. OnePlays'
    BY <1>1, <1>2, <1>3, <1>5, PlaybackAssumption DEF OnePlays, Empty, Later
  <2>3. ToTheCurrent'
    BY <1>1, <1>2, <1>3, <1>4, <1>5, PlaybackAssumption DEF ToTheCurrent, Later
  <2>4. \A d \in Callers : Nowhere(d, c)'
    BY <1>5 DEF Nowhere, Play!Absent
  <2>5. \A d, s \in Callers : s # c /\ Nowhere(d, s) => Nowhere(d, s)'
    BY <1>5 DEF Nowhere, Play!Absent
  <2>6. NotYetSent'
    BY <1>1, <1>2, <1>3, <1>4, <2>4, <2>5 DEF NotYetSent, Play!Absent
  <2>7. Silenced'
    BY <1>1, <1>2, <1>3, <1>4, <1>5, <2>4, <2>5 DEF Silenced
  <2>8. Play!Taken' = Play!Taken /\ Play!Waiting' = Play!Waiting
    <3>1. CASE current' = c
      <4>1. <<>> \o <<>> = <<>>
        OBVIOUS
      <4> QED
        BY <1>4, <1>5, <3>1, <4>1, PlaybackAssumption DEF Play!Taken, Play!Waiting
    <3>2. CASE current' # c
      BY <1>4, <1>5, <3>2 DEF Play!Taken, Play!Waiting
    <3> QED
      BY <3>1, <3>2
  <2>9. Play!AcceptedIsNotLost'
    BY <1>2, <1>3, <1>4, <2>8, AllKept, AllKeptNext DEF PlaysAll
  <2> QED
    BY <2>1, <2>2, <2>3, <2>6, <2>7, <2>9 DEF PlaysAll, PlaybackInv
<1>6. CASE current = NoStream
  <2>1. current' = c /\ streams' = streams
    BY <1>6 DEF Play!Install
  <2> QED
    BY <1>1, <1>3, <1>5, <1>6, <2>1 DEF PlayTypes, Empty
<1>7. CASE current # NoStream
  <2>1. current' = current /\ streams' = [streams EXCEPT ![c] = Play!Closed]
    BY <1>7 DEF Play!Install
  <2>2. /\ streams' \in [Callers -> StreamRows]
        /\ \A s \in Callers : s # c => streams'[s] = streams[s]
        /\ streams'[c] = Play!Closed
    BY <1>1, <2>1, ClosedRow DEF PlayTypes
  <2>3. current' \in Callers /\ current' # c
    BY <1>1, <1>3, <1>7, <2>1 DEF PlayTypes
  <2> QED
    BY <1>5, <2>1, <2>2, <2>3, ClosedRow
<1> QED
  BY <1>6, <1>7

LEMMA SendStep == ASSUME PlaysAll, NEW c \in Callers, Play!Send(c) PROVE PlaysAll'
<1>1. PlayTypes /\ OnePlays /\ ToTheCurrent /\ NotYetSent /\ Silenced
  BY DEF PlaysAll, PlaybackInv
<1>2. /\ \A d \in Callers : /\ calls'[d].pc = (IF d = c THEN "ok" ELSE calls[d].pc)
                            /\ calls'[d].to = calls[d].to
      /\ calls' \in [Callers -> [pc : CallPcs, to : Callers \cup {NoStream}]]
  <2>1. "ok" \in CallPcs
    BY DEF CallPcs, Later
  <2> QED
    BY <1>1, <2>1, Gone DEF Play!Send
<1> DEFINE s == calls[c].to
<1>3. /\ calls[c].pc = "send" /\ s \in Callers /\ calls[s].pc \in Later
      /\ hushed[c] = "no" => s = current
  BY <1>1 DEF Play!Send, ToTheCurrent
<1>4. /\ streams' = [streams EXCEPT ![s].channel = Append(@, c)]
      /\ UNCHANGED <<current, heard, hushed>>
  BY DEF Play!Send
<1> HIDE DEF s
<1> DEFINE q == streams[s].channel
<1>5. /\ q \in Seq(Callers) /\ Append(q, c) \in Seq(Callers)
      /\ Len(q) \in Nat /\ DOMAIN q = 1 .. Len(q)
      /\ DOMAIN Append(q, c) = 1 .. Len(q) + 1
      /\ \A i \in 1 .. Len(q) : Append(q, c)[i] = q[i]
      /\ Append(q, c)[Len(q) + 1] = c
      /\ \A j \in 1 .. Len(q) + 1 : j \in 1 .. Len(q) \/ j = Len(q) + 1
      /\ \A j \in 1 .. Len(q) : j \in 1 .. Len(q) + 1 /\ j # Len(q) + 1
  <2>1. q \in Seq(Callers)
    BY <1>1, <1>3 DEF PlayTypes, StreamRows
  <2> HIDE DEF q
  <2>2. Len(q) \in Nat /\ DOMAIN q = 1 .. Len(q)
    BY <2>1, LenProperties
  <2>3. /\ Append(q, c) \in Seq(Callers) /\ Len(Append(q, c)) = Len(q) + 1
        /\ \A i \in 1 .. Len(q) : Append(q, c)[i] = q[i]
        /\ Append(q, c)[Len(q) + 1] = c
    BY <2>1, AppendProperties
  <2>4. DOMAIN Append(q, c) = 1 .. Len(q) + 1
    BY <2>3, LenProperties
  <2>5. /\ \A j \in 1 .. Len(q) + 1 : j \in 1 .. Len(q) \/ j = Len(q) + 1
        /\ \A j \in 1 .. Len(q) : j \in 1 .. Len(q) + 1 /\ j # Len(q) + 1
    BY <2>2
  <2> QED
    BY <2>1, <2>2, <2>3, <2>4, <2>5
<1>6. /\ streams' \in [Callers -> StreamRows]
      /\ \A t \in Callers : t # s => streams'[t] = streams[t]
      /\ streams'[s].channel = Append(q, c)
      /\ streams'[s].input = streams[s].input /\ streams'[s].samples = streams[s].samples
      /\ streams'[s].device = streams[s].device /\ streams'[s].cancelled = streams[s].cancelled
  BY <1>1, <1>3, <1>4, <1>5 DEF PlayTypes, StreamRows
<1> HIDE DEF q
<1>7. PlayTypes'
  BY <1>1, <1>2, <1>4, <1>6 DEF PlayTypes
<1>8. OnePlays'
  <2>1. ASSUME NEW t \in Callers
        PROVE  /\ streams'[t].device => t = current' \/ calls'[t].pc = "install"
               /\ calls'[t].pc = "install" => Empty(t)' /\ ~streams'[t].cancelled
    <3>1. streams'[t].device = streams[t].device /\ streams'[t].cancelled = streams[t].cancelled
      BY <1>6
    <3>2. calls'[t].pc = "install" <=> calls[t].pc = "install"
      BY <1>2, <1>3
    <3>3. calls[t].pc = "install" => t # s
      BY <1>3 DEF Later
    <3>4. t # s /\ Empty(t) => Empty(t)'
      BY <1>6 DEF Empty
    <3> QED
      BY <1>1, <1>4, <3>1, <3>2, <3>3, <3>4 DEF OnePlays
  <2>2. current' # NoStream => calls'[current'].pc \in Later /\ ~streams'[current'].cancelled
    BY <1>1, <1>2, <1>4, <1>6 DEF OnePlays, Later, PlayTypes
  <2> QED
    BY <2>1, <2>2 DEF OnePlays
<1>9. ToTheCurrent'
  <2>1. \A d \in Callers : calls[d].pc \in Later => calls'[d].pc \in Later
    BY <1>2 DEF Later
  <2> QED
    BY <1>1, <1>2, <1>4, <2>1 DEF ToTheCurrent
<1>10. ASSUME NEW d \in Callers, d # c, NEW t \in Callers, Nowhere(d, t) PROVE Nowhere(d, t)'
  <2>1. CASE t = s
    <3>1. \A j \in DOMAIN q : q[j] # d
      BY <1>10, <2>1 DEF Nowhere, q
    <3>2. \A j \in DOMAIN Append(q, c) : Append(q, c)[j] # d
      BY <1>5, <1>10, <3>1
    <3> QED
      BY <1>6, <1>10, <2>1, <3>2 DEF Nowhere, Play!Absent
  <2>2. CASE t # s
    BY <1>6, <1>10, <2>2 DEF Nowhere, Play!Absent
  <2> QED
    BY <2>1, <2>2
<1>11. NotYetSent'
  BY <1>1, <1>2, <1>3, <1>4, <1>10 DEF NotYetSent, Play!Absent
<1>12. Silenced'
  BY <1>1, <1>2, <1>3, <1>4, <1>6, <1>10 DEF Silenced
<1>13. /\ Play!Taken' = Play!Taken
       /\ Play!Waiting' = IF s = current THEN Append(q, c) ELSE Play!Waiting
       /\ s = current => Play!Waiting = q
  <2>1. current \in Callers \cup {NoStream} /\ s # NoStream
    BY <1>1, <1>3, PlaybackAssumption DEF PlayTypes
  <2>2. Play!Taken' = Play!Taken
    <3>1. CASE current = NoStream
      BY <1>4, <3>1 DEF Play!Taken
    <3>2. CASE current # NoStream
      <4>1. /\ streams'[current].input = streams[current].input
            /\ streams'[current].samples = streams[current].samples
        BY <1>6, <2>1, <3>2
      <4>2. heard' = heard /\ current' = current
        BY <1>4
      <4> QED
        BY <3>2, <4>1, <4>2 DEF Play!Taken
    <3> QED
      BY <3>1, <3>2
  <2>3. CASE s = current
    BY <1>4, <1>6, <2>1, <2>2, <2>3 DEF Play!Waiting, q
  <2>4. CASE s # current
    BY <1>4, <1>6, <2>1, <2>2, <2>4 DEF Play!Waiting
  <2> QED
    BY <2>2, <2>3, <2>4
<1>14. ASSUME NEW d \in Callers, calls'[d].pc = "ok", hushed'[d] = "no"
       PROVE  Kept(d, Play!Taken', Play!Waiting')
  <2>1. CASE d = c
    <3>1. Play!Absent(c, heard) /\ Nowhere(c, current) /\ current = s
      BY <1>1, <1>3, <1>4, <1>14, <2>1 DEF NotYetSent
    <3>2. Play!Absent(c, Play!Taken) /\ \A j \in DOMAIN q : q[j] # c
      <4>1. heard \in Sounds /\ streams[s].samples \in Sounds /\ streams[s].input \in Sounds
        BY <1>1, <1>3 DEF PlayTypes, StreamRows
      <4>2. streams[s].samples \o streams[s].input \in Sounds
        BY <4>1, Joined
      <4>3. Play!Absent(c, streams[s].samples \o streams[s].input)
        BY <3>1, <4>1, AbsentJoined DEF Nowhere
      <4> QED
        BY <1>3, <3>1, <4>1, <4>2, <4>3, AbsentJoined, PlaybackAssumption DEF Play!Taken, Nowhere, q
    <3>3. \A j \in DOMAIN Append(q, c) : Append(q, c)[j] = c <=> j = Len(q) + 1
      BY <1>5, <3>2
    <3>4. Len(q) + 1 \in DOMAIN Append(q, c)
      BY <1>5
    <3> QED
      BY <1>13, <2>1, <3>1, <3>2, <3>3, <3>4 DEF Kept
  <2>2. CASE d # c
    <3>1. Kept(d, Play!Taken, Play!Waiting)
      BY <1>2, <1>4, <1>14, <2>2, AllKept DEF PlaysAll
    <3>2. CASE s # current
      BY <1>13, <3>1, <3>2
    <3>3. CASE s = current
      <4>1. Kept(d, Play!Taken, q)
        BY <1>13, <3>1, <3>3
      <4>2. ASSUME NEW j \in DOMAIN Append(q, c)
            PROVE  \/ j \in DOMAIN q /\ Append(q, c)[j] = q[j]
                   \/ j = Len(q) + 1 /\ Append(q, c)[j] = c
        <5>1. CASE j \in 1 .. Len(q)
          BY <1>5, <5>1
        <5>2. CASE j = Len(q) + 1
          BY <1>5, <5>2
        <5> QED
          BY <1>5, <5>1, <5>2
      <4>3. \A j \in DOMAIN q : j \in DOMAIN Append(q, c) /\ Append(q, c)[j] = q[j]
                                /\ j # Len(q) + 1
        BY <1>5
      <4>4. Kept(d, Play!Taken, Append(q, c))
        BY <2>2, <4>1, <4>2, <4>3 DEF Kept
      <4> QED
        BY <1>13, <3>3, <4>4
    <3> QED
      BY <3>2, <3>3
  <2> QED
    BY <2>1, <2>2
<1>15. Play!AcceptedIsNotLost'
  BY <1>14, AllKeptNext
<1> QED
  BY <1>7, <1>8, <1>9, <1>11, <1>12, <1>15 DEF PlaysAll, PlaybackInv

LEMMA StopStep == ASSUME PlaysAll, Play!Stop PROVE PlaysAll'
<1>1. PlayTypes /\ OnePlays /\ ToTheCurrent /\ NotYetSent /\ Silenced
  BY DEF PlaysAll, PlaybackInv
<1>2. /\ current' = NoStream /\ UNCHANGED <<calls, heard>>
      /\ \A c \in Callers : hushed'[c] = CASE calls[c].pc = "idle" -> hushed[c]
                                           [] calls[c].pc = "ok"   -> "accepted"
                                           [] OTHER                -> "under way"
      /\ hushed' \in [Callers -> {"no", "under way", "accepted"}]
  BY <1>1 DEF Play!Stop, Play!Hush, PlayTypes
<1>3. /\ streams' \in [Callers -> StreamRows]
      /\ \A s \in Callers :
            /\ s # current => streams'[s] = streams[s]
            /\ s = current => ~streams'[s].device
            /\ streams'[s].channel = streams[s].channel /\ streams'[s].input = streams[s].input
            /\ streams'[s].samples = streams[s].samples
  <2>1. CASE current = NoStream
    BY <1>1, <2>1, PlaybackAssumption DEF Play!Stop, PlayTypes
  <2>2. CASE current # NoStream
    <3>1. /\ streams' = [streams EXCEPT ![current].cancelled = TRUE, ![current].device = FALSE]
          /\ current \in Callers
      BY <1>1, <2>2 DEF Play!Stop, PlayTypes
    <3> QED
      BY <1>1, <3>1 DEF PlayTypes, StreamRows
  <2> QED
    BY <2>1, <2>2
<1>4. PlayTypes'
  BY <1>1, <1>2, <1>3 DEF PlayTypes
<1>5. OnePlays'
  <2>1. ASSUME NEW s \in Callers
        PROVE  /\ streams'[s].device => calls[s].pc = "install"
               /\ calls[s].pc = "install" => Empty(s)' /\ ~streams'[s].cancelled
    <3>1. CASE s = current
      <4>1. ~streams'[s].device /\ calls[s].pc # "install"
        BY <1>1, <1>3, <3>1, PlaybackAssumption DEF OnePlays, Later
      <4> QED
        BY <4>1
    <3>2. CASE s # current
      <4>1. streams'[s] = streams[s]
        BY <1>3, <3>2
      <4> QED
        BY <1>1, <3>2, <4>1 DEF OnePlays, Empty
    <3> QED
      BY <3>1, <3>2
  <2> QED
    BY <1>2, <2>1 DEF OnePlays
<1>6. ToTheCurrent'
  BY <1>1, <1>2 DEF ToTheCurrent
<1>7. \A c, s \in Callers : Nowhere(c, s)' <=> Nowhere(c, s)
  BY <1>3 DEF Nowhere, Play!Absent
<1>8. NotYetSent'
  BY <1>1, <1>2, <1>7 DEF NotYetSent, Play!Absent
<1>9. Silenced'
  <2> SUFFICES ASSUME NEW c \in Callers, hushed'[c] = "accepted"
               PROVE  calls'[c].pc = "ok" /\ \A s \in Callers : streams'[s].device => Nowhere(c, s)'
    BY DEF Silenced
  <2>1. calls[c].pc = "ok"
    BY <1>1, <1>2 DEF Silenced
  <2>2. ASSUME NEW s \in Callers, streams'[s].device PROVE Nowhere(c, s)'
    <3>1. Empty(s)
      BY <1>1, <1>3, <2>2 DEF OnePlays
    <3>2. Nowhere(c, s)
      BY <3>1 DEF Nowhere, Empty, Play!Absent
    <3> QED
      BY <1>7, <3>2
  <2> QED
    BY <1>2, <2>1, <2>2
<1>10. Play!AcceptedIsNotLost'
  BY <1>2, AllKeptNext
<1> QED
  BY <1>4, <1>5, <1>6, <1>8, <1>9, <1>10 DEF PlaysAll, PlaybackInv

(* What is left when samples are taken from the front. *)
LEMMA TakenFromTheFront ==
    ASSUME NEW q \in Sounds, q # <<>>
    PROVE  /\ Head(q) \in Samples /\ Tail(q) \in Sounds /\ <<Head(q)>> \in Sounds
           /\ <<Head(q)>> \o Tail(q) = q
           /\ \A c : Play!Absent(c, q) => Head(q)[1] # c /\ Play!Absent(c, Tail(q))
<1>1. Len(q) \in Nat /\ Len(q) # 0 /\ DOMAIN q = 1 .. Len(q)
  BY LenProperties, EmptySeq DEF Sounds
<1>2. Head(q) \in Samples /\ Tail(q) \in Sounds /\ Len(Tail(q)) = Len(q) - 1
      /\ \A i \in 1 .. Len(Tail(q)) : Tail(q)[i] = q[i + 1]
  BY HeadTailProperties DEF Sounds
<1>3. <<Head(q)>> \in Sounds /\ Len(<<Head(q)>>) = 1 /\ <<Head(q)>>[1] = Head(q) /\ Head(q) = q[1]
  BY <1>1, <1>2 DEF Sounds
<1>4. <<Head(q)>> \o Tail(q) = q
  <2> DEFINE h == <<Head(q)>>
             t == Tail(q)
  <2>1. h \in Sounds /\ t \in Sounds /\ Len(h) = 1 /\ h[1] = q[1] /\ Len(t) = Len(q) - 1
        /\ \A i \in 1 .. Len(q) - 1 : t[i] = q[i + 1]
    BY <1>2, <1>3
  <2> HIDE DEF h, t
  <2>0. /\ h \o t \in Sounds /\ Len(h \o t) = Len(h) + Len(t)
        /\ \A i \in 1 .. Len(h) : (h \o t)[i] = h[i]
        /\ \A i \in 1 .. Len(h) + Len(t) :
              i \in 1 .. Len(h) \/ (i > Len(h) /\ i - Len(h) \in 1 .. Len(t)
                                       /\ (h \o t)[i] = t[i - Len(h)])
    BY <2>1, Joined
  <2>2. h \o t \in Sounds /\ Len(h \o t) = Len(q)
        /\ \A i \in 1 .. Len(q) : i \in 1 .. 1 \/ (i - 1 \in 1 .. Len(q) - 1 /\ (h \o t)[i] = t[i - 1])
    BY <1>1, <2>0, <2>1
  <2>3. (h \o t)[1] = h[1]
    BY <2>0, <2>1
  <2>4. ASSUME NEW i \in 1 .. Len(q) PROVE (h \o t)[i] = q[i]
    <3>1. CASE i = 1
      BY <2>1, <2>3, <3>1
    <3>2. CASE i # 1
      <4>1. i - 1 \in 1 .. Len(q) - 1 /\ (h \o t)[i] = t[i - 1] /\ (i - 1) + 1 = i
        BY <1>1, <2>2, <3>2
      <4> QED
        BY <2>1, <4>1
    <3> QED
      BY <3>1, <3>2
  <2>5. h \o t = q
    BY <1>1, <2>2, <2>4, SeqEqual DEF Sounds
  <2> QED
    BY <2>5 DEF h, t
<1>5. ASSUME NEW c, Play!Absent(c, q) PROVE Head(q)[1] # c /\ Play!Absent(c, Tail(q))
  <2>1. Play!Absent(c, Tail(q))
    BY <1>2, <1>3, <1>4, <1>5, AbsentJoined
  <2>2. 1 \in DOMAIN q
    BY <1>1
  <2> QED
    BY <1>3, <1>5, <2>1, <2>2 DEF Play!Absent
<1> QED
  BY <1>2, <1>3, <1>4, <1>5

LEMMA Cut ==
    ASSUME NEW q \in Sounds, NEW n \in 0 .. Len(q)
    PROVE  /\ SubSeq(q, 1, n) \in Sounds /\ SubSeq(q, n + 1, Len(q)) \in Sounds
           /\ SubSeq(q, 1, n) \o SubSeq(q, n + 1, Len(q)) = q
<1>1. Len(q) \in Nat /\ \A i \in 1 .. Len(q) : q[i] \in Samples
  BY LenProperties, ElementOfSeq DEF Sounds
<1>2. 1 \in Int /\ n \in Int /\ n + 1 \in Int /\ Len(q) \in Int
      /\ (\A i \in 1 .. n : q[i] \in Samples) /\ (\A i \in n + 1 .. Len(q) : q[i] \in Samples)
  BY <1>1
<1>3. SubSeq(q, 1, n) \in Sounds /\ SubSeq(q, n + 1, Len(q)) \in Sounds
  BY <1>2, SubSeqProperties DEF Sounds
<1>4. 1 \in 1 .. Len(q) + 1 /\ n \in 1 - 1 .. Len(q) /\ Len(q) \in n .. Len(q)
  BY <1>1
<1>5. SubSeq(q, 1, n) \o SubSeq(q, n + 1, Len(q)) = SubSeq(q, 1, Len(q))
  BY <1>4, ConcatAdjacentSubSeq DEF Sounds
<1> QED
  BY <1>3, <1>5, SubSeqFull DEF Sounds

LEMMA WholeChunks ==
    ASSUME NEW n \in Nat
    PROVE  n - (n % Chunk) \in 0 .. n
<1>1. Chunk \in Nat /\ Chunk > 0
  BY PlaybackAssumption
<1>2. n % Chunk \in 0 .. Chunk - 1 /\ n = Chunk * (n \div Chunk) + (n % Chunk) /\ n \div Chunk \in Nat
  BY <1>1
<1>3. Chunk * (n \div Chunk) \in Nat
  BY <1>1, <1>2
<1> QED
  BY <1>2, <1>3

LEMMA BridgeCancelledStep == ASSUME PlaysAll, NEW s \in Callers, Play!BridgeCancelled(s) PROVE PlaysAll'
<1>1. PlayTypes /\ OnePlays /\ ToTheCurrent /\ NotYetSent /\ Silenced
  BY DEF PlaysAll, PlaybackInv
<1>2. /\ streams[s].cancelled
      /\ streams' = [streams EXCEPT ![s].bridge = FALSE, ![s].channel = <<>>]
      /\ UNCHANGED <<current, calls, heard, hushed>>
  BY DEF Play!BridgeCancelled
<1>3. s # current /\ calls[s].pc # "install"
  BY <1>1, <1>2, PlaybackAssumption DEF OnePlays
<1>4. /\ streams' \in [Callers -> StreamRows]
      /\ \A t \in Callers : t # s => streams'[t] = streams[t]
      /\ streams'[s].channel = <<>>
      /\ streams'[s].input = streams[s].input /\ streams'[s].samples = streams[s].samples
      /\ streams'[s].device = streams[s].device
  <2>1. /\ streams'[s] = [streams[s] EXCEPT !.bridge = FALSE, !.channel = <<>>]
        /\ \A t \in Callers : t # s => streams'[t] = streams[t]
    BY <1>1, <1>2 DEF PlayTypes
  <2>2. streams[s] \in StreamRows
    BY <1>1 DEF PlayTypes
  <2>3. /\ streams'[s] \in StreamRows
        /\ streams'[s].channel = <<>>
        /\ streams'[s].input = streams[s].input /\ streams'[s].samples = streams[s].samples
        /\ streams'[s].device = streams[s].device
    <3> DEFINE old == streams[s]
               new == streams'[s]
    <3>1. <<>> \in Seq(Callers)
      OBVIOUS
    <3>2. old \in StreamRows /\ new = [old EXCEPT !.bridge = FALSE, !.channel = <<>>]
      BY <2>1, <2>2
    <3> HIDE DEF old, new
    <3>3. /\ new \in StreamRows /\ new.channel = <<>> /\ new.input = old.input
          /\ new.samples = old.samples /\ new.device = old.device
      BY <3>1, <3>2 DEF StreamRows
    <3> QED
      BY <3>3 DEF old, new
  <2>4. streams' \in [Callers -> StreamRows]
    BY <1>1, <1>2, <2>1, <2>3 DEF PlayTypes
  <2> QED
    BY <2>1, <2>3, <2>4
<1>5. PlayTypes'
  BY <1>1, <1>2, <1>4 DEF PlayTypes
<1>6. OnePlays'
  <2>1. ASSUME NEW t \in Callers
        PROVE  /\ streams'[t].device => t = current \/ calls[t].pc = "install"
               /\ calls[t].pc = "install" => Empty(t)' /\ ~streams'[t].cancelled
    BY <1>1, <1>3, <1>4 DEF OnePlays, Empty
  <2>2. current # NoStream => calls[current].pc \in Later /\ ~streams'[current].cancelled
    BY <1>1, <1>3, <1>4 DEF OnePlays, PlayTypes
  <2> QED
    BY <1>2, <2>1, <2>2 DEF OnePlays
<1>7. ToTheCurrent'
  BY <1>1, <1>2 DEF ToTheCurrent
<1>8. ASSUME NEW d \in Callers, NEW t \in Callers, Nowhere(d, t) PROVE Nowhere(d, t)'
  <2>1. CASE t = s
    BY <1>4, <1>8, <2>1 DEF Nowhere, Play!Absent
  <2>2. CASE t # s
    BY <1>4, <1>8, <2>2 DEF Nowhere, Play!Absent
  <2> QED
    BY <2>1, <2>2
<1>9. NotYetSent'
  BY <1>1, <1>2, <1>8 DEF NotYetSent, Play!Absent
<1>10. Silenced'
  BY <1>1, <1>2, <1>4, <1>8 DEF Silenced
<1>11. Play!Taken' = Play!Taken /\ Play!Waiting' = Play!Waiting
  <2>1. heard' = heard /\ current' = current /\ (current # NoStream => streams'[current] = streams[current])
    BY <1>1, <1>2, <1>3, <1>4 DEF PlayTypes
  <2> QED
    BY <2>1 DEF Play!Taken, Play!Waiting
<1>12. Play!AcceptedIsNotLost'
  BY <1>2, <1>11, AllKept, AllKeptNext DEF PlaysAll
<1> QED
  BY <1>5, <1>6, <1>7, <1>9, <1>10, <1>12 DEF PlaysAll, PlaybackInv

(* The device of the current stream moves its next sample to what is heard. *)
LEMMA DeviceStep == ASSUME PlaysAll, NEW s \in Callers, Play!Device(s) PROVE PlaysAll'
<1>1. PlayTypes /\ OnePlays /\ ToTheCurrent /\ NotYetSent /\ Silenced
  BY DEF PlaysAll, PlaybackInv
<1> DEFINE q == streams[s].samples
<1>2. /\ streams[s].device /\ q # <<>>
      /\ heard' = Append(heard, Head(q))
      /\ streams' = [streams EXCEPT ![s].samples = Tail(@)]
      /\ UNCHANGED <<current, calls, hushed>>
  BY DEF Play!Device
<1>3. s = current
  BY <1>1, <1>2 DEF OnePlays, Empty
<1>4. q \in Sounds /\ heard \in Sounds
  BY <1>1 DEF PlayTypes, StreamRows
<1>5. /\ Head(q) \in Samples /\ Tail(q) \in Sounds /\ <<Head(q)>> \in Sounds /\ <<Head(q)>> \o Tail(q) = q
      /\ \A c : Play!Absent(c, q) => Head(q)[1] # c /\ Play!Absent(c, Tail(q))
  <2> HIDE DEF q
  <2> QED
    BY <1>2, <1>4, TakenFromTheFront
<1>6. /\ \A t \in Callers : t # s => streams'[t] = streams[t]
      /\ streams'[s] = [streams[s] EXCEPT !.samples = Tail(q)]
  BY <1>1, <1>2 DEF PlayTypes
<1>7. /\ streams'[s] \in StreamRows /\ streams'[s].samples = Tail(q)
      /\ streams'[s].input = streams[s].input /\ streams'[s].channel = streams[s].channel
      /\ streams'[s].device = streams[s].device /\ streams'[s].cancelled = streams[s].cancelled
  <2>1. streams[s] \in StreamRows
    BY <1>1 DEF PlayTypes
  <2> HIDE DEF q
  <2> QED
    BY <1>5, <1>6, <2>1 DEF StreamRows
<1>8. heard' = heard \o <<Head(q)>> /\ heard' \in Sounds
  <2>1. heard' = heard \o <<Head(q)>>
    BY <1>2, <1>4, <1>5, AppendIsConcat DEF Sounds
  <2> QED
    BY <1>4, <1>5, <2>1, Joined
<1>9. PlayTypes'
  <2>1. streams' \in [Callers -> StreamRows]
    <3>1. \A t \in Callers : streams'[t] \in StreamRows
      BY <1>1, <1>6, <1>7 DEF PlayTypes
    <3> QED
      BY <1>1, <1>2, <3>1 DEF PlayTypes
  <2> QED
    BY <1>1, <1>2, <1>8, <2>1 DEF PlayTypes
<1>10. OnePlays'
  <2>1. ASSUME NEW t \in Callers
        PROVE  /\ streams'[t].device => t = current \/ calls[t].pc = "install"
               /\ calls[t].pc = "install" => Empty(t)' /\ ~streams'[t].cancelled
    <3>1. CASE t = s
      BY <1>1, <1>3, <3>1, PlaybackAssumption DEF OnePlays, Later
    <3>2. CASE t # s
      BY <1>1, <1>6, <3>2 DEF OnePlays, Empty
    <3> QED
      BY <3>1, <3>2
  <2>2. current # NoStream => calls[current].pc \in Later /\ ~streams'[current].cancelled
    BY <1>1, <1>3, <1>7 DEF OnePlays
  <2> QED
    BY <1>2, <2>1, <2>2 DEF OnePlays
<1>11. ToTheCurrent'
  BY <1>1, <1>2 DEF ToTheCurrent
<1>12. ASSUME NEW d \in Callers, NEW t \in Callers, Nowhere(d, t) PROVE Nowhere(d, t)'
  <2>1. CASE t = s
    <3>1. /\ Play!Absent(d, q) /\ Play!Absent(d, streams[s].input)
          /\ \A j \in DOMAIN streams[s].channel : streams[s].channel[j] # d
      BY <1>12, <2>1 DEF Nowhere
    <3>2. Play!Absent(d, Tail(q))
      BY <1>5, <3>1
    <3>3. /\ \A i \in DOMAIN streams'[s].samples : streams'[s].samples[i][1] # d
          /\ \A i \in DOMAIN streams'[s].input : streams'[s].input[i][1] # d
          /\ \A j \in DOMAIN streams'[s].channel : streams'[s].channel[j] # d
      <4> HIDE DEF q
      <4> QED
        BY <1>7, <3>1, <3>2 DEF Play!Absent
    <3> QED
      BY <2>1, <3>3 DEF Nowhere, Play!Absent
  <2>2. CASE t # s
    BY <1>6, <1>12, <2>2 DEF Nowhere, Play!Absent
  <2> QED
    BY <2>1, <2>2
<1>13. ASSUME NEW d \in Callers, Play!Absent(d, heard), Nowhere(d, s) PROVE Play!Absent(d, heard)'
  <2>1. Head(q)[1] # d
    BY <1>5, <1>13 DEF Nowhere
  <2>2. Play!Absent(d, <<Head(q)>>)
    <3> HIDE DEF q
    <3> QED
      BY <2>1 DEF Play!Absent
  <2>3. Play!Absent(d, heard \o <<Head(q)>>)
    BY <1>4, <1>5, <1>13, <2>2, AbsentJoined
  <2> QED
    BY <1>8, <2>3 DEF Play!Absent
<1>14. NotYetSent'
  BY <1>1, <1>2, <1>12, <1>13 DEF NotYetSent
<1>15. Silenced'
  <2>1. \A t \in Callers : streams'[t].device => streams[t].device
    BY <1>6, <1>7
  <2> QED
    BY <1>1, <1>2, <1>12, <2>1 DEF Silenced
<1>16. Play!Taken' = Play!Taken /\ Play!Waiting' = Play!Waiting
  <2>1. current' = current /\ current # NoStream
    BY <1>2, <1>3, PlaybackAssumption
  <2> DEFINE h == <<Head(q)>>
             t == Tail(q)
             in == streams[s].input
  <2>2. in \in Sounds /\ h \in Sounds /\ t \in Sounds /\ h \o t = q
    BY <1>1, <1>5 DEF PlayTypes, StreamRows
  <2>3. Play!Taken = heard \o (q \o in) /\ Play!Taken' = (heard \o h) \o (t \o in)
    BY <1>3, <1>7, <1>8, <2>1 DEF Play!Taken
  <2>4. Play!Waiting' = Play!Waiting
    BY <1>3, <1>7, <2>1 DEF Play!Waiting
  <2> HIDE DEF h, t, in, q
  <2>5. t \o in \in Sounds /\ (h \o t) \o in = h \o (t \o in)
    BY <2>2, Joined, JoinedInAnyOrder
  <2>6. (heard \o h) \o (t \o in) = heard \o (h \o (t \o in))
    BY <1>4, <2>2, <2>5, JoinedInAnyOrder
  <2> QED
    BY <2>2, <2>3, <2>4, <2>5, <2>6
<1>17. Play!AcceptedIsNotLost'
  BY <1>2, <1>16, AllKept, AllKeptNext DEF PlaysAll
<1> QED
  BY <1>9, <1>10, <1>11, <1>14, <1>15, <1>17 DEF PlaysAll, PlaybackInv

(* A sound of the channel joins what has been taken: it was absent there,  *)
(* and is not in the channel any more.                                     *)
LEMMA TakesASound ==
    ASSUME NEW taken \in Sounds, NEW waiting \in Seq(Callers), waiting # <<>>, NEW d \in Callers,
           Kept(d, taken, waiting)
    PROVE  Kept(d, taken \o Play!Sound(Head(waiting)), Tail(waiting))
<1> DEFINE h == Head(waiting)
           t == Tail(waiting)
<1>1. /\ h \in Callers /\ h = waiting[1] /\ Len(waiting) \in Nat /\ Len(waiting) # 0
      /\ DOMAIN waiting = 1 .. Len(waiting)
      /\ DOMAIN t = 1 .. Len(waiting) - 1
      /\ \A i \in 1 .. Len(waiting) - 1 : t[i] = waiting[i + 1]
  <2>1. /\ h \in Callers /\ h = waiting[1] /\ t \in Seq(Callers) /\ Len(t) = Len(waiting) - 1
        /\ \A i \in 1 .. Len(t) : t[i] = waiting[i + 1]
    BY HeadTailProperties
  <2>2. Len(waiting) \in Nat /\ Len(waiting) # 0 /\ DOMAIN waiting = 1 .. Len(waiting)
    BY LenProperties, EmptySeq
  <2> HIDE DEF h, t
  <2>3. DOMAIN t = 1 .. Len(t)
    BY <2>1, LenProperties
  <2> QED
    BY <2>1, <2>2, <2>3
<1> HIDE DEF h, t
<1>2. \A i \in 1 .. Len(waiting) - 1 : i + 1 \in 1 .. Len(waiting) /\ i + 1 # 1
  BY <1>1
<1>3. 1 \in 1 .. Len(waiting)
  BY <1>1
<1>4. Play!Sound(h) \in Sounds
  BY <1>1, SoundIs
<1>5. CASE Play!Whole(d, taken) /\ \A j \in DOMAIN waiting : waiting[j] # d
  <2>1. h # d /\ \A j \in DOMAIN t : t[j] # d
    BY <1>1, <1>2, <1>3, <1>5
  <2>2. Play!Whole(d, taken \o Play!Sound(h))
    BY <1>1, <1>4, <1>5, <2>1, AnotherSound, WholeJoined
  <2> QED
    BY <2>1, <2>2 DEF Kept, h, t
<1>6. CASE /\ Play!Absent(d, taken)
           /\ \E i \in DOMAIN waiting : \A j \in DOMAIN waiting : waiting[j] = d <=> j = i
  <2>0. PICK i \in DOMAIN waiting : \A j \in DOMAIN waiting : waiting[j] = d <=> j = i
    BY <1>6
  <2>1. i \in 1 .. Len(waiting) /\ \A j \in 1 .. Len(waiting) : waiting[j] = d <=> j = i
    <3>1. DOMAIN waiting = 1 .. Len(waiting)
      BY <1>1
    <3> QED
      BY <2>0, <3>1, Zenon
  <2>2. CASE i = 1
    <3>1. h = d /\ \A j \in DOMAIN t : t[j] # d
      BY <1>1, <1>2, <1>3, <2>1, <2>2
    <3>2. Play!Whole(d, taken \o Play!Sound(h))
      BY <1>6, <3>1, WholeJoined
    <3> QED
      BY <3>1, <3>2 DEF Kept, h, t
  <2>3. CASE i # 1
    <3>1. h # d
      BY <1>1, <1>3, <2>1, <2>3
    <3>2. Play!Absent(d, taken \o Play!Sound(h))
      BY <1>1, <1>4, <1>6, <3>1, AnotherSound, AbsentJoined
    <3>3. i - 1 \in DOMAIN t
      BY <1>1, <2>3
    <3>4. \A j \in DOMAIN t : t[j] = d <=> j = i - 1
      <4> SUFFICES ASSUME NEW j \in 1 .. Len(waiting) - 1 PROVE t[j] = d <=> j = i - 1
        BY <1>1
      <4>1. t[j] = waiting[j + 1] /\ j + 1 \in 1 .. Len(waiting)
        BY <1>1, <1>2
      <4>2. t[j] = d <=> j + 1 = i
        BY <2>1, <4>1
      <4> QED
        BY <4>2
    <3> QED
      BY <3>2, <3>3, <3>4 DEF Kept, h, t
  <2> QED
    BY <2>2, <2>3
<1> QED
  BY <1>5, <1>6 DEF Kept

LEMMA BridgeStep == ASSUME PlaysAll, NEW s \in Callers, Play!Bridge(s) PROVE PlaysAll'
<1>1. PlayTypes /\ OnePlays /\ ToTheCurrent /\ NotYetSent /\ Silenced
  BY DEF PlaysAll, PlaybackInv
<1> DEFINE w == streams[s].channel
           old == streams[s].input
           q == streams[s].samples
           sound == Play!Sound(Head(w))
           in == old \o sound
           n == Len(in) - (Len(in) % Chunk)
           front == SubSeq(in, 1, n)
           rest == SubSeq(in, n + 1, Len(in))
<1>2. /\ w # <<>>
      /\ streams' = [streams EXCEPT ![s].channel = Tail(@), ![s].input = rest, ![s].samples = @ \o front]
      /\ UNCHANGED <<current, calls, heard, hushed>>
  BY DEF Play!Bridge
<1>3. /\ w \in Seq(Callers) /\ old \in Sounds /\ q \in Sounds /\ heard \in Sounds
      /\ streams[s] \in StreamRows
  BY <1>1 DEF PlayTypes, StreamRows
<1>4. calls[s].pc # "install"
  BY <1>1, <1>2 DEF OnePlays, Empty
<1>5. /\ streams'[s] = [streams[s] EXCEPT !.channel = Tail(w), !.input = rest, !.samples = q \o front]
      /\ \A t \in Callers : t # s => streams'[t] = streams[t]
      /\ DOMAIN streams' = Callers /\ streams' = [t \in Callers |-> streams'[t]]
  <2> HIDE DEF rest, front
  <2> QED
    BY <1>1, <1>2 DEF PlayTypes
<1> HIDE DEF w, old, q, rest, front, n, in, sound
<1>6. /\ Head(w) \in Callers /\ Tail(w) \in Seq(Callers) /\ Head(w) = w[1]
      /\ 1 \in DOMAIN w /\ \A i \in DOMAIN Tail(w) : i + 1 \in DOMAIN w /\ Tail(w)[i] = w[i + 1]
  <2>1. /\ Head(w) \in Callers /\ Tail(w) \in Seq(Callers) /\ Head(w) = w[1] /\ Len(Tail(w)) = Len(w) - 1
        /\ \A i \in 1 .. Len(Tail(w)) : Tail(w)[i] = w[i + 1]
    BY <1>2, <1>3, HeadTailProperties
  <2>2. Len(w) \in Nat /\ Len(w) # 0 /\ DOMAIN w = 1 .. Len(w)
    BY <1>2, <1>3, LenProperties, EmptySeq
  <2>3. DOMAIN Tail(w) = 1 .. Len(w) - 1
    BY <2>1, LenProperties
  <2> QED
    BY <2>1, <2>2, <2>3
<1>7. sound \in Sounds /\ in \in Sounds /\ in = old \o sound /\ sound = Play!Sound(Head(w))
  <2>1. sound \in Sounds
    BY <1>6, SoundIs DEF sound
  <2> QED
    BY <1>3, <2>1, Joined DEF in, sound
<1>8. front \in Sounds /\ rest \in Sounds /\ front \o rest = in
  <2>1. Len(in) \in Nat
    BY <1>7, LenProperties DEF Sounds
  <2>2. n \in 0 .. Len(in)
    BY <2>1, WholeChunks DEF n
  <2> QED
    BY <1>7, <2>2, Cut DEF front, rest
<1>9. q \o front \in Sounds
  BY <1>3, <1>8, Joined
<1>10. /\ streams'[s] \in StreamRows /\ streams'[s].channel = Tail(w)
       /\ streams'[s].input = rest /\ streams'[s].samples = q \o front
       /\ streams'[s].device = streams[s].device /\ streams'[s].cancelled = streams[s].cancelled
  BY <1>3, <1>5, <1>6, <1>8, <1>9 DEF StreamRows
<1>11. PlayTypes'
  <2>1. streams' \in [Callers -> StreamRows]
    BY <1>1, <1>5, <1>10 DEF PlayTypes
  <2> QED
    BY <1>1, <1>2, <2>1 DEF PlayTypes
<1>12. OnePlays'
  <2>1. ASSUME NEW t \in Callers
        PROVE  /\ streams'[t].device => t = current \/ calls[t].pc = "install"
               /\ calls[t].pc = "install" => Empty(t)' /\ ~streams'[t].cancelled
    <3>1. CASE t = s
      BY <1>1, <1>4, <1>10, <3>1 DEF OnePlays
    <3>2. CASE t # s
      BY <1>1, <1>5, <3>2 DEF OnePlays, Empty
    <3> QED
      BY <3>1, <3>2
  <2>2. current # NoStream => calls[current].pc \in Later /\ ~streams'[current].cancelled
    <3>1. \A t \in Callers : streams'[t].cancelled = streams[t].cancelled
      BY <1>5, <1>10
    <3> QED
      BY <1>1, <3>1 DEF OnePlays, PlayTypes
  <2> QED
    BY <1>2, <2>1, <2>2 DEF OnePlays
<1>13. ToTheCurrent'
  BY <1>1, <1>2 DEF ToTheCurrent
<1>14. ASSUME NEW d \in Callers, NEW t \in Callers, Nowhere(d, t) PROVE Nowhere(d, t)'
  <2>1. CASE t = s
    <3>1. Play!Absent(d, q) /\ Play!Absent(d, old) /\ \A j \in DOMAIN w : w[j] # d
      BY <1>14, <2>1 DEF Nowhere, q, old, w
    <3>2. Head(w) # d /\ \A j \in DOMAIN Tail(w) : Tail(w)[j] # d
      BY <1>6, <3>1
    <3>3. Play!Absent(d, in)
      BY <1>3, <1>6, <1>7, <3>1, <3>2, AnotherSound, AbsentJoined
    <3>4. Play!Absent(d, front) /\ Play!Absent(d, rest)
      BY <1>8, <3>3, AbsentJoined
    <3>5. Play!Absent(d, q \o front)
      BY <1>3, <1>8, <3>1, <3>4, AbsentJoined
    <3> QED
      BY <1>10, <2>1, <3>2, <3>4, <3>5 DEF Nowhere, Play!Absent
  <2>2. CASE t # s
    BY <1>5, <1>14, <2>2 DEF Nowhere, Play!Absent
  <2> QED
    BY <2>1, <2>2
<1>15. NotYetSent'
  BY <1>1, <1>2, <1>14 DEF NotYetSent, Play!Absent
<1>16. Silenced'
  <2>1. \A t \in Callers : streams'[t].device => streams[t].device
    BY <1>5, <1>10
  <2> QED
    BY <1>1, <1>2, <1>14, <2>1 DEF Silenced
<1>17. CASE s # current
  <2>1. Play!Taken' = Play!Taken /\ Play!Waiting' = Play!Waiting
    <3>1. heard' = heard /\ current' = current /\ (current # NoStream => streams'[current] = streams[current])
      BY <1>1, <1>2, <1>5, <1>17 DEF PlayTypes
    <3> QED
      BY <3>1 DEF Play!Taken, Play!Waiting
  <2>2. Play!AcceptedIsNotLost'
    BY <1>2, <2>1, AllKept, AllKeptNext DEF PlaysAll
  <2> QED
    BY <1>11, <1>12, <1>13, <1>15, <1>16, <2>2 DEF PlaysAll, PlaybackInv
<1>18. CASE s = current
  <2>1. current' = current /\ current # NoStream /\ heard' = heard
    BY <1>2, <1>18, PlaybackAssumption
  <2>2. Play!Waiting = w /\ Play!Waiting' = Tail(w)
    BY <1>10, <1>18, <2>1 DEF Play!Waiting, w
  <2>3. Play!Taken = heard \o (q \o old) /\ Play!Taken' = heard \o ((q \o front) \o rest)
    BY <1>10, <1>18, <2>1 DEF Play!Taken, q, old
  <2>4. (q \o front) \o rest = (q \o old) \o sound
    <3>1. (q \o front) \o rest = q \o in
      BY <1>3, <1>8, JoinedInAnyOrder
    <3>2. (q \o old) \o sound = q \o in
      BY <1>3, <1>7, JoinedInAnyOrder
    <3> QED
      BY <3>1, <3>2
  <2>5. q \o old \in Sounds /\ Play!Taken \in Sounds
    BY <1>3, <2>3, Joined
  <2>6. Play!Taken' = Play!Taken \o sound
    <3>1. heard \o ((q \o old) \o sound) = (heard \o (q \o old)) \o sound
      <4>1. heard \in Sounds /\ q \o old \in Sounds /\ sound \in Sounds
        BY <1>3, <1>7, <2>5
      <4> QED
        BY <4>1, JoinedInAnyOrder
    <3> QED
      BY <2>3, <2>4, <3>1
  <2>7. \A d \in Callers : Kept(d, Play!Taken, w) => Kept(d, Play!Taken', Tail(w))
    BY <1>2, <1>3, <1>7, <2>5, <2>6, TakesASound
  <2>8. Play!AcceptedIsNotLost'
    BY <1>2, <2>2, <2>7, AllKept, AllKeptNext DEF PlaysAll
  <2> QED
    BY <1>11, <1>12, <1>13, <1>15, <1>16, <2>8 DEF PlaysAll, PlaybackInv
<1> QED
  BY <1>17, <1>18

LEMMA PlaybackStep == PlaysAll /\ [Play!Next]_playVars => PlaysAll'
<1> SUFFICES ASSUME PlaysAll, [Play!Next]_playVars PROVE PlaysAll'
  OBVIOUS
<1> USE DEF CallPcs, Later
<1>1. PlayTypes /\ ToTheCurrent
  BY DEF PlaysAll, PlaybackInv
<1>2. ASSUME NEW c \in Callers, NEW pc \in CallPcs, Play!Goes(c, pc)
      PROVE  calls' = [calls EXCEPT ![c] = [pc |-> pc, to |-> calls[c].to]] /\ calls[c].to \in Callers \cup {NoStream}
  <2>1. calls[c] \in [pc : CallPcs, to : Callers \cup {NoStream}] /\ calls' = [calls EXCEPT ![c] = [calls[c] EXCEPT !.pc = pc]]
    BY <1>1, <1>2 DEF PlayTypes, Play!Goes
  <2>2. [calls[c] EXCEPT !.pc = pc] = [pc |-> pc, to |-> calls[c].to]
    BY <2>1
  <2> QED
    BY <2>1, <2>2
<1>3. ASSUME NEW c \in Callers, Play!Play(c) PROVE PlaysAll'
  <2>1. CASE current # NoStream
    BY <1>2, <1>3, <2>1, RequestMoves DEF Play!Play
  <2>2. CASE current = NoStream
    BY <1>2, <1>3, <2>2, RequestMoves DEF Play!Play
  <2> QED
    BY <2>1, <2>2
<1>4. ASSUME NEW c \in Callers, Play!OpenFails(c) PROVE PlaysAll'
  BY <1>2, <1>4, RequestMoves DEF Play!OpenFails
<1>5. ASSUME NEW c \in Callers, Play!CloneSender(c) PROVE PlaysAll'
  <2>1. CASE current # NoStream
    <3>1. /\ calls' = [calls EXCEPT ![c] = [pc |-> "send", to |-> current]]
          /\ calls[c].pc = "clone" /\ current \in Callers
          /\ UNCHANGED <<current, streams, heard, hushed>>
      BY <1>1, <1>5, <2>1 DEF Play!CloneSender, PlayTypes
    <3>2. PICK pc, to : pc = "send" /\ to = current
      OBVIOUS
    <3>3. /\ calls' = [calls EXCEPT ![c] = [pc |-> pc, to |-> to]]
          /\ pc \in CallPcs /\ to \in Callers \cup {NoStream}
          /\ calls[c].pc \notin {"install", "ok", "error"} /\ pc \in Later
          /\ pc # "install" /\ pc # "clone" /\ pc # "ok" /\ to \in Callers
      BY <3>1, <3>2
    <3> HIDE DEF CallPcs, Later
    <3> QED
      BY <3>1, <3>2, <3>3, RequestMoves
  <2>2. CASE current = NoStream
    BY <1>1, <1>5, <2>2, RequestMoves DEF Play!CloneSender, ToTheCurrent
  <2> QED
    BY <2>1, <2>2
<1>6. ASSUME NEW c \in Callers, Play!SendFails(c) PROVE PlaysAll'
  BY <1>2, <1>6, RequestMoves DEF Play!SendFails
<1>7. ASSUME NEW c \in Callers, Play!TimesOut(c) PROVE PlaysAll'
  BY <1>2, <1>7, RequestMoves DEF Play!TimesOut
<1>8. ASSUME UNCHANGED playVars PROVE PlaysAll'
  <2>1. UNCHANGED <<current, calls, streams, heard, hushed>>
    BY <1>8 DEF playVars
  <2>2. PlaybackInv'
    <3>1. PlayTypes'
      BY <1>1, <2>1 DEF PlayTypes
    <3>2. OnePlays' /\ ToTheCurrent'
      BY <2>1 DEF PlaysAll, PlaybackInv, OnePlays, Empty, ToTheCurrent
    <3>3. NotYetSent'
      BY <2>1 DEF PlaysAll, PlaybackInv, NotYetSent, Nowhere, Play!Absent
    <3>4. Silenced'
      BY <2>1 DEF PlaysAll, PlaybackInv, Silenced, Nowhere, Play!Absent
    <3> QED
      BY <3>1, <3>2, <3>3, <3>4 DEF PlaybackInv
  <2>3. Play!Taken' = Play!Taken /\ Play!Waiting' = Play!Waiting
    BY <2>1 DEF Play!Taken, Play!Waiting
  <2> QED
    BY <2>1, <2>2, <2>3, AllKept, AllKeptNext DEF PlaysAll
<1> QED
  BY <1>3, <1>4, <1>5, <1>6, <1>7, <1>8, StopStep, OpensStep, InstallStep, SendStep, BridgeStep,
     BridgeCancelledStep, DeviceStep DEF Play!Next

(* Whatever streams the concurrent requests open and drop and however the   *)
(* resampler cuts it, a sound that play_buffer accepted is played or on its *)
(* way, whole and in order, until somebody asks for silence.               *)
THEOREM AcceptedSoundsArePlayed == Spec => []AcceptedIsNotLost
<1>1. Init => PlaysAll
  BY PlaybackStarts DEF Init
<1>2. PlaysAll /\ [Next]_vars => PlaysAll'
  BY EachPartByItself, PlaybackStep
<1>3. PlaysAll => AcceptedIsNotLost
  BY DEF PlaysAll, AcceptedIsNotLost
<1> QED
  BY <1>1, <1>2, <1>3, PTL DEF Spec

LEMMA NothingSilencedIsPlayed ==
    ASSUME PlaysAll, Play!Next, heard' # heard
    PROVE  hushed[Play!Last(heard')[1]] # "accepted"
<1>1. PICK s \in Callers : Play!Device(s)
  BY DEF Play!Next, Play!Stop, Play!Play, Play!Opens, Play!OpenFails, Play!Install, Play!CloneSender, Play!Send,
     Play!SendFails, Play!TimesOut, Play!Bridge, Play!BridgeCancelled
<1> DEFINE q == streams[s].samples
<1>2. /\ streams[s].device /\ q # <<>> /\ heard' = Append(heard, Head(q))
      /\ q \in Sounds /\ heard \in Sounds
  BY <1>1 DEF PlaysAll, PlaybackInv, PlayTypes, StreamRows, Play!Device
<1> HIDE DEF q
<1>3. Head(q) \in Samples /\ \A c : Play!Absent(c, q) => Head(q)[1] # c
  BY <1>2, TakenFromTheFront
<1>4. Play!Last(heard') = Head(q)
  <2>1. Len(heard') = Len(heard) + 1 /\ heard'[Len(heard) + 1] = Head(q)
    BY <1>2, <1>3, AppendProperties DEF Sounds
  <2> QED
    BY <2>1 DEF Play!Last
<1>5. Head(q)[1] \in Callers
  BY <1>3 DEF Samples
<1>6. ASSUME NEW c \in Callers, hushed[c] = "accepted" PROVE Head(q)[1] # c
  <2>1. Play!Absent(c, q)
    BY <1>2, <1>6 DEF PlaysAll, PlaybackInv, Silenced, Nowhere, q
  <2> QED
    BY <1>3, <2>1
<1> QED
  BY <1>4, <1>5, <1>6

(* stop_playback takes the controller before anything can be sent again:   *)
(* the device never plays a sample of a sound accepted before the stop.    *)
THEOREM StopPlaybackSilences == Spec => StopSilences
<1>1. Init => PlaysAll
  BY PlaybackStarts DEF Init
<1>2. PlaysAll /\ [Next]_vars => PlaysAll'
  BY EachPartByItself, PlaybackStep
<1>3. PlaysAll /\ [Next]_vars =>
        [heard' # heard => hushed[Play!Last(heard')[1]] # "accepted"]_Play!playVars
  BY EachPartByItself, NothingSilencedIsPlayed DEF playVars, Play!playVars
<1> QED
  BY <1>1, <1>2, <1>3, PTL DEF Spec, StopSilences, Play!StopSilences
=============================================================================
