-------------------------- MODULE VoicePartsProofs --------------------------
(***************************************************************************)
(* The parts of MCVoiceParts, for any number of sentences, turns, callers  *)
(* and frames.  A step of the composition is a step of one part or leaves  *)
(* that part alone, so each part is proved by itself.                      *)
(***************************************************************************)
EXTENDS MCVoiceParts, SequenceTheorems, FiniteSetTheorems, WellFoundedInduction, TLAPS

LEMMA EachPartByItself ==
    [Next]_vars =>
       /\ [Mic!Next]_micVars /\ [Pipe!Next]_pipeVars /\ [Speech!Next]_speechVars
       /\ [Conversation!Next]_conversationVars /\ [Stream!Next]_streamVars
       /\ [Sentences!Next]_sentenceVars
BY DEF Next, StreamNext, MicNext, PipeNext, SpeechNext, SentencesNext, ConversationNext, vars

-----------------------------------------------------------------------------
(* The stream of synthesized speech *)

Marks == [index : 0 .. Size, last : BOOLEAN]
EOF == Stream!EOF

(***************************************************************************)
(* What waits in a queue is in the order of the sentences, and nothing     *)
(* comes behind the last one or the mark of the end but such marks.        *)
(***************************************************************************)
Rising(q) ==
    \A i, j \in 1 .. Len(q) :
       i < j /\ q[j].index # EOF => q[i].index < q[j].index /\ ~q[i].last

Numbers == 0 .. Size

(* The slots hold the tasks in the order of their sentences, then the end. *)
SlotsRise(q) == \A i, j \in 1 .. Len(q) : i < j /\ q[j] # EOF => q[i] < q[j] /\ q[i] # EOF

(* The producer has a sentence in hand until it has started its synthesis. *)
Given(n) == n <= fed /\ (producer = "acquire" => n < fed)

Producing ==
    /\ fed \in 0 .. Size /\ producer \in {"fetch", "acquire", "ended"}
    /\ producer = "acquire" => fed # 0
    /\ last \in [Stream!Sentences -> {"unknown", "last", "more"}]
    /\ \A i \in Stream!Sentences : last[i] = "last" => producer = "ended" /\ i = fed
    /\ slots \in Seq(Numbers) /\ SlotsRise(slots)
    /\ \A k \in 1 .. Len(slots) : Given(slots[k]) /\ (producer # "ended" => slots[k] # EOF)
    /\ sequencer.pc \in {"get", "await", "ended"}
    /\ sequencer.pc = "await" =>
          /\ sequencer.task \in Stream!Sentences /\ Given(sequencer.task)
          /\ \A k \in 1 .. Len(slots) : slots[k] # EOF => sequencer.task < slots[k]

(* All that is still to come is behind this chunk. *)
Passed(m) ==
    m.index # EOF =>
       /\ Given(m.index)
       /\ \A k \in 1 .. Len(slots) : slots[k] # EOF => m.index < slots[k]
       /\ sequencer.pc = "await" => m.index < sequencer.task
       /\ m.last => producer = "ended" /\ m.index = fed

(* Chunks that all that is still to come is behind, and the end itself. *)
Past == {m \in Marks : Passed(m)}
Closed == Stream!Cancelled \/ sequencer.pc = "ended"

InOrderSoFar(q) ==
    /\ q \in Seq(Marks) /\ Rising(q)
    /\ \A j \in 1 .. Len(q) : q[j] \in Past /\ (q[j].index = EOF => Closed)

(* What was taken from a queue is followed by what waits in it. *)
GoesOn(taken, q) ==
    /\ taken \in Seq(Stream!Chunk)
    /\ taken # <<>> =>
          /\ taken[Len(taken)] \in Past
          /\ \A j \in 1 .. Len(q) : q[j].index # EOF =>
                taken[Len(taken)].index < q[j].index /\ ~taken[Len(taken)].last

(***************************************************************************)
(* The order of what is delivered is not inductive: it needs the order of  *)
(* what is queued and of the tasks before it, and that a sentence is known *)
(* to be the last only once the producer has ended.                        *)
(***************************************************************************)
StreamInv ==
    /\ Producing
    /\ InOrderSoFar(out) /\ GoesOn(delivered, out)
    /\ InOrderSoFar(playQueue) /\ GoesOn(played, playQueue)
    /\ player = "play" => playQueue # <<>> /\ Head(playQueue).index # EOF

LEMMA StreamStarts == Stream!Init => StreamInv
<1> SUFFICES ASSUME Stream!Init PROVE StreamInv
  OBVIOUS
<1>1. Producing
  BY SizeAssumption DEF Stream!Init, Producing, SlotsRise, Numbers
<1>2. InOrderSoFar(out) /\ InOrderSoFar(playQueue)
  BY DEF Stream!Init, InOrderSoFar, Rising
<1>3. GoesOn(delivered, out) /\ GoesOn(played, playQueue)
  BY DEF Stream!Init, GoesOn
<1> QED
  BY <1>1, <1>2, <1>3 DEF StreamInv, Stream!Init

(* A queue loses its head, or something joins it. *)
LEMMA QueueTail ==
    ASSUME NEW q \in Seq(Marks), q # <<>>, Rising(q)
    PROVE  /\ Tail(q) \in Seq(Marks) /\ Rising(Tail(q)) /\ Head(q) \in Marks
           /\ \A j \in 1 .. Len(Tail(q)) : \E i \in 1 .. Len(q) : Tail(q)[j] = q[i]
           /\ \E i \in 1 .. Len(q) : Head(q) = q[i]
           /\ \A j \in 1 .. Len(Tail(q)) :
                 Tail(q)[j].index # EOF => Head(q).index < Tail(q)[j].index /\ ~Head(q).last
<1>1. /\ Tail(q) \in Seq(Marks) /\ Len(Tail(q)) = Len(q) - 1 /\ Len(q) \in Nat /\ Len(q) # 0
      /\ \A j \in 1 .. Len(q) - 1 : Tail(q)[j] = q[j + 1]
      /\ Head(q) = q[1] /\ Head(q) \in Marks
  BY HeadTailProperties
<1>2. \A j \in 1 .. Len(q) - 1 : j + 1 \in 1 .. Len(q) /\ 1 < j + 1 /\ 1 \in 1 .. Len(q)
  BY <1>1
<1>3. Rising(Tail(q))
  <2> SUFFICES ASSUME NEW i \in 1 .. Len(q) - 1, NEW j \in 1 .. Len(q) - 1, i < j, q[j + 1].index # EOF
               PROVE  q[i + 1].index < q[j + 1].index /\ ~q[i + 1].last
    BY <1>1 DEF Rising
  <2>1. i + 1 < j + 1
    OBVIOUS
  <2> QED
    BY <1>2, <2>1 DEF Rising
<1>4. \A j \in 1 .. Len(q) - 1 : q[j + 1].index # EOF => q[1].index < q[j + 1].index /\ ~q[1].last
  BY <1>2 DEF Rising
<1> QED
  BY <1>1, <1>2, <1>3, <1>4

LEMMA QueueAppend ==
    ASSUME NEW q \in Seq(Marks), Rising(q), NEW m \in Marks,
           m.index # EOF => \A i \in 1 .. Len(q) : q[i].index < m.index /\ ~q[i].last
    PROVE  /\ Append(q, m) \in Seq(Marks) /\ Rising(Append(q, m)) /\ Append(q, m) # <<>>
           /\ \A j \in 1 .. Len(Append(q, m)) :
                 Append(q, m)[j] = m \/ \E i \in 1 .. Len(q) : Append(q, m)[j] = q[i]
           /\ q # <<>> => Head(Append(q, m)) = Head(q)
<1>1. /\ Append(q, m) \in Seq(Marks) /\ Append(q, m) # <<>>
      /\ Len(Append(q, m)) = Len(q) + 1 /\ Len(q) \in Nat
      /\ \A i \in 1 .. Len(q) : Append(q, m)[i] = q[i]
      /\ Append(q, m)[Len(q) + 1] = m
  BY AppendProperties
<1>2. \A j \in 1 .. Len(q) + 1 : j \in 1 .. Len(q) \/ j = Len(q) + 1
  BY <1>1
<1>3. Rising(Append(q, m))
  <2> SUFFICES ASSUME NEW i \in 1 .. Len(q) + 1, NEW j \in 1 .. Len(q) + 1, i < j,
                      Append(q, m)[j].index # EOF
               PROVE  Append(q, m)[i].index < Append(q, m)[j].index /\ ~Append(q, m)[i].last
    BY <1>1 DEF Rising
  <2>1. i \in 1 .. Len(q)
    BY <1>1, <1>2
  <2>2. CASE j \in 1 .. Len(q)
    BY <1>1, <2>1, <2>2 DEF Rising
  <2>3. CASE j = Len(q) + 1
    BY <1>1, <2>1, <2>3
  <2> QED
    BY <1>2, <2>2, <2>3
<1>4. q # <<>> => Head(Append(q, m)) = Head(q)
  BY <1>1
<1> QED
  BY <1>1, <1>2, <1>3, <1>4

LEMMA EndMarkIsOne == Stream!EndMark \in Marks /\ Stream!EndMark.index = EOF
BY SizeAssumption DEF Stream!EndMark, Marks, EOF, Stream!EOF

(***************************************************************************)
(* What a step does upstream: a sentence is taken, its synthesis starts,   *)
(* the sequencer goes on to it, or the producer or the sequencer ends.     *)
(***************************************************************************)
Ends ==
    /\ UNCHANGED fed
    /\ UNCHANGED <<producer, last, slots>> \/ (producer # "ended" /\ Stream!ProducerEnds(slots))
    /\ UNCHANGED sequencer \/ sequencer'.pc \in {"get", "ended"}
    /\ sequencer.pc = "ended" => sequencer'.pc = "ended"

LEMMA UpstreamEffects ==
    ASSUME Stream!Next
    PROVE  Stream!Fetch \/ Stream!StartSynthesis \/ Stream!NextSlot \/ Stream!NoMoreSlots \/ Ends
<1> USE DEF Stream!source, Stream!tasks
<1>1. ASSUME NEW i \in Stream!Sentences, Stream!Synthesized(i) \/ Stream!LearnsIfLast(i) PROVE Ends
  BY <1>1 DEF Stream!Synthesized, Stream!LearnsIfLast, Ends
<1>2. CASE Stream!SourceEnds
  BY <1>2 DEF Stream!SourceEnds, Ends
<1>3. CASE Stream!Skip
  BY <1>3 DEF Stream!Skip, Ends
<1>4. CASE Stream!Sequence
  <2>1. /\ UNCHANGED <<fed, producer, last, slots>> /\ sequencer'.pc \in {"get", "ended"}
        /\ sequencer.pc = "await"
    BY <1>4 DEF Stream!Sequence, Stream!SequencerEnds
  <2> QED
    BY <2>1 DEF Ends
<1>s. ASSUME Stream!Shutdown, UNCHANGED fed PROVE Ends
  BY <1>s DEF Stream!Shutdown, Stream!SequencerEnds, Ends
<1>5. CASE Stream!Drained \/ Stream!CallerLeaves
  BY <1>5, <1>s DEF Stream!Drained, Stream!CallerLeaves
<1>6. CASE Stream!StreamEnds
  BY <1>6, <1>s DEF Stream!StreamEnds, Ends
<1>7. CASE Stream!Deliver \/ Stream!LeavesDraining \/ Stream!Cancel \/ Stream!Watch
  BY <1>7 DEF Stream!Deliver, Stream!LeavesDraining, Stream!Cancel, Stream!Watch, Ends
<1>8. CASE Stream!TakeChunk \/ Stream!Played \/ Stream!PlayFails \/ Stream!TailPlayed
  BY <1>8 DEF Stream!TakeChunk, Stream!Played, Stream!PlayFails, Stream!TailPlayed, Ends
<1> QED
  BY <1>1, <1>2, <1>3, <1>4, <1>5, <1>6, <1>7, <1>8 DEF Stream!Next

LEMMA SlotsTail ==
    ASSUME NEW q \in Seq(Numbers), q # <<>>, SlotsRise(q)
    PROVE  /\ Tail(q) \in Seq(Numbers) /\ SlotsRise(Tail(q)) /\ Head(q) \in Numbers
           /\ \A j \in 1 .. Len(Tail(q)) : \E i \in 1 .. Len(q) : Tail(q)[j] = q[i]
           /\ \E i \in 1 .. Len(q) : Head(q) = q[i]
           /\ \A j \in 1 .. Len(Tail(q)) : Tail(q)[j] # EOF => Head(q) < Tail(q)[j]
<1>1. /\ Tail(q) \in Seq(Numbers) /\ Len(Tail(q)) = Len(q) - 1 /\ Len(q) \in Nat /\ Len(q) # 0
      /\ \A j \in 1 .. Len(q) - 1 : Tail(q)[j] = q[j + 1]
      /\ Head(q) = q[1] /\ Head(q) \in Numbers
  BY HeadTailProperties
<1>2. \A j \in 1 .. Len(q) - 1 : j + 1 \in 1 .. Len(q) /\ 1 < j + 1 /\ 1 \in 1 .. Len(q)
  BY <1>1
<1>3. SlotsRise(Tail(q))
  <2> SUFFICES ASSUME NEW i \in 1 .. Len(q) - 1, NEW j \in 1 .. Len(q) - 1, i < j, q[j + 1] # EOF
               PROVE  q[i + 1] < q[j + 1] /\ q[i + 1] # EOF
    BY <1>1 DEF SlotsRise
  <2>1. i + 1 < j + 1
    OBVIOUS
  <2> QED
    BY <1>2, <2>1 DEF SlotsRise
<1>4. \A j \in 1 .. Len(q) - 1 : q[j + 1] # EOF => q[1] < q[j + 1]
  BY <1>2 DEF SlotsRise
<1> QED
  BY <1>1, <1>2, <1>3, <1>4

LEMMA SlotsAppend ==
    ASSUME NEW q \in Seq(Numbers), SlotsRise(q), NEW n \in Numbers,
           n # EOF => \A i \in 1 .. Len(q) : q[i] < n /\ q[i] # EOF
    PROVE  /\ Append(q, n) \in Seq(Numbers) /\ SlotsRise(Append(q, n))
           /\ \A j \in 1 .. Len(Append(q, n)) :
                 Append(q, n)[j] = n \/ \E i \in 1 .. Len(q) : Append(q, n)[j] = q[i]
<1>1. /\ Append(q, n) \in Seq(Numbers)
      /\ Len(Append(q, n)) = Len(q) + 1 /\ Len(q) \in Nat
      /\ \A i \in 1 .. Len(q) : Append(q, n)[i] = q[i]
      /\ Append(q, n)[Len(q) + 1] = n
  BY AppendProperties
<1>2. \A j \in 1 .. Len(q) + 1 : j \in 1 .. Len(q) \/ j = Len(q) + 1
  BY <1>1
<1>3. SlotsRise(Append(q, n))
  <2> SUFFICES ASSUME NEW i \in 1 .. Len(q) + 1, NEW j \in 1 .. Len(q) + 1, i < j, Append(q, n)[j] # EOF
               PROVE  Append(q, n)[i] < Append(q, n)[j] /\ Append(q, n)[i] # EOF
    BY <1>1 DEF SlotsRise
  <2>1. i \in 1 .. Len(q)
    BY <1>1, <1>2
  <2>2. CASE j \in 1 .. Len(q)
    BY <1>1, <2>1, <2>2 DEF SlotsRise
  <2>3. CASE j = Len(q) + 1
    BY <1>1, <2>1, <2>3
  <2> QED
    BY <1>2, <2>2, <2>3
<1> QED
  BY <1>1, <1>2, <1>3

(* No chunk that was passed is overtaken. *)
LEMMA Upstream ==
    ASSUME Producing, Stream!Next
    PROVE  /\ Producing' /\ Past \subseteq Past'
           /\ sequencer.pc = "ended" => sequencer'.pc = "ended"
<1> USE DEF Stream!source, Stream!tasks
<1>p. (\A m \in Marks : Passed(m) => Passed(m)') => Past \subseteq Past'
  BY DEF Past
<1>t. /\ fed \in 0 .. Size /\ EOF = 0 /\ slots \in Seq(Numbers) /\ SlotsRise(slots)
      /\ \A k \in 1 .. Len(slots) : slots[k] \in 0 .. Size
      /\ Numbers = 0 .. Size /\ Stream!Sentences = 1 .. Size /\ \A m \in Marks : m.index \in 0 .. Size
  <2>1. slots \in Seq(Numbers)
    BY DEF Producing
  <2>2. \A k \in 1 .. Len(slots) : slots[k] \in Numbers
    BY <2>1
  <2> QED
    BY <2>1, <2>2 DEF Producing, Numbers, EOF, Stream!EOF, Stream!Sentences, Marks
<1>1. CASE Stream!Fetch
  <2>1. /\ producer = "fetch" /\ fed < Size /\ fed' = fed + 1 /\ producer' = "acquire"
        /\ last' = [i \in Stream!Sentences |-> IF i = fed THEN "more" ELSE last[i]]
        /\ UNCHANGED <<slots, sequencer>>
    BY <1>1 DEF Stream!Fetch
  <2>2. \A n \in 0 .. Size : Given(n) => Given(n)'
    BY <1>t, <2>1 DEF Given
  <2>3. fed' \in 0 .. Size /\ fed' # 0
    BY <1>t, <2>1, SizeAssumption
  <2>4. /\ last' \in [Stream!Sentences -> {"unknown", "last", "more"}]
        /\ \A i \in Stream!Sentences : last'[i] # "last"
    BY <2>1 DEF Producing
  <2>5. Producing'
    BY <1>t, <2>1, <2>2, <2>3, <2>4 DEF Producing
  <2>6. \A m \in Marks : Passed(m) => Passed(m)'
    BY <1>t, <2>1, <2>2 DEF Passed
  <2> QED
    BY <1>p, <2>1, <2>5, <2>6
<1>2. CASE Stream!StartSynthesis /\ ~Stream!Cancelled
  <2>1. /\ producer = "acquire" /\ producer' = "fetch" /\ slots' = Append(slots, fed)
        /\ UNCHANGED <<fed, last, sequencer>>
    BY <1>2 DEF Stream!StartSynthesis
  <2>2. \A n \in 0 .. Size : Given(n) => n < fed /\ Given(n)'
    BY <1>t, <2>1 DEF Given
  <2>3. fed # 0 /\ \A k \in 1 .. Len(slots) : slots[k] < fed /\ slots[k] # EOF
    BY <1>t, <2>1, <2>2 DEF Producing
  <2>4. /\ slots' \in Seq(Numbers) /\ SlotsRise(slots')
        /\ \A j \in 1 .. Len(slots') : slots'[j] = fed \/ \E i \in 1 .. Len(slots) : slots'[j] = slots[i]
    BY <1>t, <2>1, <2>3, SlotsAppend
  <2>5. Given(fed)'
    BY <1>t, <2>1 DEF Given
  <2>6. \A k \in 1 .. Len(slots') : Given(slots[k])' /\ slots'[k] # EOF
    <3> SUFFICES ASSUME NEW k \in 1 .. Len(slots')
                 PROVE  slots'[k] <= fed' /\ slots'[k] # EOF
      BY <2>1 DEF Given
    <3>1. slots'[k] = fed \/ \E i \in 1 .. Len(slots) : slots'[k] = slots[i]
      BY <2>4
    <3> QED
      BY <1>t, <2>1, <2>3, <3>1
  <2>7. sequencer'.pc = "await" =>
           \A k \in 1 .. Len(slots') : slots'[k] # EOF => sequencer'.task < slots'[k]
    BY <1>t, <2>1, <2>2, <2>4 DEF Producing
  <2>8. Producing'
    BY <1>t, <2>1, <2>2, <2>4, <2>6, <2>7 DEF Producing
  <2>9. \A m \in Marks : Passed(m) => Passed(m)'
    BY <1>t, <2>1, <2>2, <2>4 DEF Passed
  <2> QED
    BY <1>p, <2>1, <2>8, <2>9
<1>7. CASE Stream!StartSynthesis /\ Stream!Cancelled
  <2> DEFINE before == Append(slots, fed)
  <2>1. /\ producer = "acquire" /\ producer' = "ended" /\ slots' = Append(before, EOF)
        /\ last' = [i \in Stream!Sentences |-> IF i = fed /\ last[i] = "unknown" THEN "last" ELSE last[i]]
        /\ UNCHANGED <<fed, sequencer>>
    BY <1>7 DEF Stream!StartSynthesis, Stream!ProducerEnds, EOF
  <2>2. \A n \in 0 .. Size : Given(n) => n < fed /\ Given(n)'
    BY <1>t, <2>1 DEF Given
  <2>3. fed # 0 /\ \A k \in 1 .. Len(slots) : slots[k] < fed /\ slots[k] # EOF
    BY <1>t, <2>1, <2>2 DEF Producing
  <2>4. /\ before \in Seq(Numbers) /\ SlotsRise(before)
        /\ \A j \in 1 .. Len(before) : before[j] = fed \/ \E i \in 1 .. Len(slots) : before[j] = slots[i]
    BY <1>t, <2>3, SlotsAppend
  <2> HIDE DEF before
  <2>5. /\ slots' \in Seq(Numbers) /\ SlotsRise(slots')
        /\ \A j \in 1 .. Len(slots') : slots'[j] = EOF \/ \E i \in 1 .. Len(before) : slots'[j] = before[i]
    BY <1>t, <2>1, <2>4, SlotsAppend, SizeAssumption
  <2>6. \A j \in 1 .. Len(slots') :
           slots'[j] = EOF \/ slots'[j] = fed \/ \E i \in 1 .. Len(slots) : slots'[j] = slots[i]
    BY <2>4, <2>5
  <2>7. Given(EOF)' /\ Given(fed)'
    BY <1>t, <2>1 DEF Given
  <2>8. \A k \in 1 .. Len(slots') : Given(slots[k])'
    BY <1>t, <2>1, <2>3, <2>6 DEF Producing, Given
  <2>9. /\ last' \in [Stream!Sentences -> {"unknown", "last", "more"}]
        /\ \A i \in Stream!Sentences : last'[i] = "last" => i = fed
    BY <2>1 DEF Producing
  <2>10. sequencer'.pc = "await" =>
            \A k \in 1 .. Len(slots') : slots'[k] # EOF => sequencer'.task < slots'[k]
    <3> SUFFICES ASSUME sequencer.pc = "await", NEW k \in 1 .. Len(slots'), slots'[k] # EOF
                 PROVE  sequencer.task < slots'[k]
      BY <2>1
    <3>1. /\ sequencer.task \in 0 .. Size /\ sequencer.task < fed
          /\ \A i \in 1 .. Len(slots) : slots[i] # EOF => sequencer.task < slots[i]
      BY <1>t, <2>2 DEF Producing
    <3> QED
      BY <2>6, <3>1
  <2>11. Producing'
    BY <1>t, <2>1, <2>2, <2>5, <2>8, <2>9, <2>10 DEF Producing
  <2>12. \A m \in Marks : Passed(m) => Passed(m)'
    BY <1>t, <2>1, <2>2, <2>6 DEF Passed
  <2> QED
    BY <1>p, <2>1, <2>11, <2>12
<1>3. CASE Stream!NextSlot
  <2>1. /\ slots # <<>> /\ Head(slots) # EOF /\ slots' = Tail(slots) /\ sequencer.pc = "get"
        /\ sequencer' = [pc |-> "await", task |-> Head(slots)]
        /\ UNCHANGED <<fed, producer, last>>
    BY <1>3 DEF Stream!NextSlot, EOF
  <2>2. /\ slots' \in Seq(Numbers) /\ SlotsRise(slots') /\ Head(slots) \in 0 .. Size
        /\ \A j \in 1 .. Len(slots') : \E i \in 1 .. Len(slots) : slots'[j] = slots[i]
        /\ \E i \in 1 .. Len(slots) : Head(slots) = slots[i]
        /\ \A j \in 1 .. Len(slots') : slots'[j] # EOF => Head(slots) < slots'[j]
    BY <1>t, <2>1, SlotsTail
  <2>3. sequencer'.pc = "await" /\ sequencer'.task = Head(slots) /\ Head(slots) \in Stream!Sentences
    BY <1>t, <2>1, <2>2
  <2>4. \A n \in 0 .. Size : Given(n) => Given(n)'
    BY <2>1 DEF Given
  <2>5. Producing'
    BY <1>t, <2>1, <2>2, <2>3, <2>4 DEF Producing
  <2>6. \A m \in Marks : Passed(m) => Passed(m)'
    BY <1>t, <2>1, <2>2, <2>3, <2>4 DEF Passed
  <2> QED
    BY <1>p, <2>1, <2>5, <2>6
<1>4. CASE Stream!NoMoreSlots
  <2>1. /\ slots # <<>> /\ slots' = Tail(slots) /\ sequencer'.pc = "ended"
        /\ UNCHANGED <<fed, producer, last>>
    BY <1>4 DEF Stream!NoMoreSlots, Stream!SequencerEnds
  <2>2. /\ slots' \in Seq(Numbers) /\ SlotsRise(slots')
        /\ \A j \in 1 .. Len(slots') : \E i \in 1 .. Len(slots) : slots'[j] = slots[i]
    BY <1>t, <2>1, SlotsTail
  <2>3. \A n \in 0 .. Size : Given(n) => Given(n)'
    BY <2>1 DEF Given
  <2>4. Producing'
    BY <1>t, <2>1, <2>2, <2>3 DEF Producing
  <2>5. \A m \in Marks : Passed(m) => Passed(m)'
    BY <1>t, <2>1, <2>2, <2>3 DEF Passed
  <2> QED
    BY <1>p, <2>1, <2>4, <2>5
<1>5. CASE Ends /\ UNCHANGED <<producer, last, slots>>
  <2>1. /\ UNCHANGED <<fed, producer, last, slots>>
        /\ UNCHANGED sequencer \/ sequencer'.pc \in {"get", "ended"}
        /\ sequencer.pc = "ended" => sequencer'.pc = "ended"
    BY <1>5 DEF Ends
  <2>2. \A n \in 0 .. Size : Given(n) <=> Given(n)'
    BY <2>1 DEF Given
  <2>3. Producing'
    BY <1>t, <2>1, <2>2 DEF Producing
  <2>4. \A m \in Marks : Passed(m) => Passed(m)'
    BY <1>t, <2>1, <2>2 DEF Passed
  <2> QED
    BY <1>p, <2>1, <2>3, <2>4
<1>6. CASE Ends /\ producer # "ended" /\ Stream!ProducerEnds(slots)
  <2>1. /\ producer # "ended" /\ producer' = "ended" /\ slots' = Append(slots, EOF) /\ UNCHANGED fed
        /\ last' = [i \in Stream!Sentences |-> IF i = fed /\ last[i] = "unknown" THEN "last" ELSE last[i]]
        /\ UNCHANGED sequencer \/ sequencer'.pc \in {"get", "ended"}
        /\ sequencer.pc = "ended" => sequencer'.pc = "ended"
    BY <1>6 DEF Ends, Stream!ProducerEnds, EOF
  <2>2. \A n \in 0 .. Size : Given(n) => Given(n)'
    BY <2>1 DEF Given
  <2>3. /\ slots' \in Seq(Numbers) /\ SlotsRise(slots')
        /\ \A j \in 1 .. Len(slots') : slots'[j] = EOF \/ \E i \in 1 .. Len(slots) : slots'[j] = slots[i]
    BY <1>t, <2>1, SlotsAppend, SizeAssumption
  <2>4. Given(EOF)'
    BY <1>t, <2>1 DEF Given
  <2>5. /\ last' \in [Stream!Sentences -> {"unknown", "last", "more"}]
        /\ \A i \in Stream!Sentences : last'[i] = "last" => i = fed
    BY <2>1 DEF Producing
  <2>6. \A k \in 1 .. Len(slots') : Given(slots[k])'
    BY <1>t, <2>1, <2>3 DEF Producing, Given
  <2>7. Producing'
    BY <1>t, <2>1, <2>2, <2>3, <2>5, <2>6 DEF Producing
  <2>8. \A m \in Marks : Passed(m) => Passed(m)'
    BY <1>t, <2>1, <2>2, <2>3 DEF Passed
  <2> QED
    BY <1>p, <2>1, <2>7, <2>8
<1> QED
  BY <1>1, <1>2, <1>3, <1>4, <1>5, <1>6, <1>7, UpstreamEffects DEF Ends

(* What was passed is before the sentence the sequencer awaits. *)
LEMMA NextIsBehind ==
    ASSUME Producing, sequencer.pc = "await", ~Closed,
           NEW p \in Past, p.index = EOF => Closed
    PROVE  p.index < sequencer.task /\ ~p.last
<1>1. p \in Marks /\ Passed(p) /\ p.index # EOF
  BY DEF Past
<1>2. p.index \in Nat /\ p.index < sequencer.task /\ (p.last => p.index = fed) /\ p.last \in BOOLEAN
  BY <1>1, SizeAssumption DEF Passed, Marks
<1>3. sequencer.task \in Nat /\ sequencer.task <= fed /\ fed \in Nat
  BY SizeAssumption DEF Producing, Given, Stream!Sentences
<1> QED
  BY <1>2, <1>3

(***************************************************************************)
(* A queue loses its head, gets the mark of the end, or gets the chunk the *)
(* sequencer awaited.                                                      *)
(***************************************************************************)
LEMMA QueueKept ==
    ASSUME Producing, Past \subseteq Past', Closed => Closed',
           NEW q, InOrderSoFar(q), NEW r,
           \/ r = q
           \/ q # <<>> /\ r = Tail(q)
           \/ Closed' /\ r = Append(q, Stream!EndMark)
           \/ /\ ~Closed /\ sequencer.pc = "await"
              /\ \E m \in Past' : m.index = sequencer.task /\ r = Append(q, m)
    PROVE  /\ r \in Seq(Marks) /\ Rising(r)
           /\ \A j \in 1 .. Len(r) : r[j] \in Past' /\ (r[j].index = EOF => Closed')
<1>1. /\ q \in Seq(Marks) /\ Rising(q)
      /\ \A j \in 1 .. Len(q) : q[j] \in Past' /\ (q[j].index = EOF => Closed')
      /\ \A j \in 1 .. Len(q) : q[j] \in Past /\ (q[j].index = EOF => Closed)
  BY DEF InOrderSoFar
<1>2. CASE r = q
  BY <1>1, <1>2
<1>3. CASE q # <<>> /\ r = Tail(q)
  <2>1. r \in Seq(Marks) /\ Rising(r) /\ \A j \in 1 .. Len(r) : \E i \in 1 .. Len(q) : r[j] = q[i]
    BY <1>1, <1>3, QueueTail
  <2> QED
    BY <1>1, <2>1
<1>4. ASSUME NEW m \in Marks, r = Append(q, m), m \in Past', m.index = EOF => Closed',
             m.index # EOF => \A i \in 1 .. Len(q) : q[i].index < m.index /\ ~q[i].last
      PROVE  /\ r \in Seq(Marks) /\ Rising(r)
             /\ \A j \in 1 .. Len(r) : r[j] \in Past' /\ (r[j].index = EOF => Closed')
  <2>1. /\ r \in Seq(Marks) /\ Rising(r)
        /\ \A j \in 1 .. Len(r) : r[j] = m \/ \E i \in 1 .. Len(q) : r[j] = q[i]
    BY <1>1, <1>4, QueueAppend
  <2> QED
    BY <1>1, <1>4, <2>1
<1>5. CASE Closed' /\ r = Append(q, Stream!EndMark)
  <2>1. Stream!EndMark \in Marks /\ Stream!EndMark.index = EOF /\ Stream!EndMark \in Past'
    BY EndMarkIsOne DEF Past, Passed
  <2> QED
    BY <1>4, <1>5, <2>1
<1>6. ASSUME ~Closed, sequencer.pc = "await",
             NEW m \in Past', m.index = sequencer.task, r = Append(q, m)
      PROVE  /\ r \in Seq(Marks) /\ Rising(r)
             /\ \A j \in 1 .. Len(r) : r[j] \in Past' /\ (r[j].index = EOF => Closed')
  <2>1. m \in Marks /\ m.index # EOF
    BY <1>6 DEF Past, Producing, Stream!Sentences, EOF, Stream!EOF
  <2>2. \A i \in 1 .. Len(q) : q[i].index < m.index /\ ~q[i].last
    BY <1>1, <1>6, NextIsBehind
  <2> QED
    BY <1>4, <1>6, <2>1, <2>2
<1> QED
  BY <1>2, <1>3, <1>5, <1>6

(* What the consumer has stays before all that waits. *)
LEMMA TakenKept ==
    ASSUME Producing, Past \subseteq Past', NEW q, InOrderSoFar(q), NEW t, GoesOn(t, q), NEW r,
           \/ r = q
           \/ q # <<>> /\ r = Tail(q)
           \/ Closed' /\ r = Append(q, Stream!EndMark)
           \/ /\ ~Closed /\ sequencer.pc = "await"
              /\ \E m \in Past' : m.index = sequencer.task /\ r = Append(q, m)
    PROVE  /\ t \in Seq(Stream!Chunk)
           /\ t # <<>> =>
                 /\ t[Len(t)] \in Past'
                 /\ \A j \in 1 .. Len(r) : r[j].index # EOF =>
                       t[Len(t)].index < r[j].index /\ ~t[Len(t)].last
<1> SUFFICES ASSUME t # <<>>
             PROVE  \A j \in 1 .. Len(r) : r[j].index # EOF =>
                       t[Len(t)].index < r[j].index /\ ~t[Len(t)].last
  BY DEF GoesOn
<1>1. /\ q \in Seq(Marks) /\ Rising(q) /\ t \in Seq(Stream!Chunk) /\ t[Len(t)] \in Past
      /\ \A i \in 1 .. Len(q) : q[i].index # EOF =>
            t[Len(t)].index < q[i].index /\ ~t[Len(t)].last
  BY DEF InOrderSoFar, GoesOn
<1>2. t[Len(t)] \in Stream!Chunk
  BY <1>1
<1>3. t[Len(t)].index # EOF
  BY <1>2 DEF Stream!Chunk, Stream!Sentences, EOF, Stream!EOF
<1>4. CASE r = q
  BY <1>1, <1>4
<1>5. CASE q # <<>> /\ r = Tail(q)
  <2>1. \A j \in 1 .. Len(r) : \E i \in 1 .. Len(q) : r[j] = q[i]
    BY <1>1, <1>5, QueueTail
  <2> QED
    BY <1>1, <2>1
<1>6. ASSUME NEW m, r = Append(q, m), m.index # EOF => t[Len(t)].index < m.index /\ ~t[Len(t)].last
      PROVE  \A j \in 1 .. Len(r) : r[j].index # EOF => t[Len(t)].index < r[j].index /\ ~t[Len(t)].last
  <2>1. \A j \in 1 .. Len(r) : r[j] = m \/ \E i \in 1 .. Len(q) : r[j] = q[i]
    BY <1>1, <1>6
  <2> QED
    BY <1>1, <1>6, <2>1
<1>7. CASE Closed' /\ r = Append(q, Stream!EndMark)
  BY <1>6, <1>7, EndMarkIsOne
<1>8. ASSUME ~Closed, sequencer.pc = "await", NEW m \in Past', m.index = sequencer.task, r = Append(q, m)
      PROVE  \A j \in 1 .. Len(r) : r[j].index # EOF => t[Len(t)].index < r[j].index /\ ~t[Len(t)].last
  <2>1. t[Len(t)].index < m.index /\ ~t[Len(t)].last
    BY <1>1, <1>3, <1>8, NextIsBehind
  <2> QED
    BY <1>6, <1>8, <2>1
<1> QED
  BY <1>4, <1>5, <1>7, <1>8

(* The head of a queue follows what the consumer has. *)
LEMMA TakenGrows ==
    ASSUME Past \subseteq Past', NEW q, InOrderSoFar(q), NEW t, GoesOn(t, q),
           q # <<>>, Head(q).index # EOF
    PROVE  /\ Head(q) \in Stream!Chunk
           /\ t # <<>> => t[Len(t)].index < Head(q).index /\ ~t[Len(t)].last
           /\ t \in Seq(Stream!Chunk) /\ Append(t, Head(q)) \in Seq(Stream!Chunk)
           /\ Append(t, Head(q))[Len(Append(t, Head(q)))] \in Past'
           /\ \A j \in 1 .. Len(Tail(q)) : Tail(q)[j].index # EOF =>
                 /\ Append(t, Head(q))[Len(Append(t, Head(q)))].index < Tail(q)[j].index
                 /\ ~Append(t, Head(q))[Len(Append(t, Head(q)))].last
<1>1. /\ q \in Seq(Marks) /\ Rising(q) /\ t \in Seq(Stream!Chunk)
      /\ \A j \in 1 .. Len(q) : q[j] \in Past'
      /\ t # <<>> => \A i \in 1 .. Len(q) : q[i].index # EOF =>
            t[Len(t)].index < q[i].index /\ ~t[Len(t)].last
  BY DEF InOrderSoFar, GoesOn
<1>2. /\ Head(q) \in Marks /\ \E i \in 1 .. Len(q) : Head(q) = q[i]
      /\ \A j \in 1 .. Len(Tail(q)) :
            Tail(q)[j].index # EOF => Head(q).index < Tail(q)[j].index /\ ~Head(q).last
  BY <1>1, QueueTail
<1>3. Head(q) \in Stream!Chunk
  BY <1>2, SizeAssumption DEF Marks, Stream!Chunk, Stream!Sentences, EOF, Stream!EOF
<1>4. /\ Append(t, Head(q)) \in Seq(Stream!Chunk)
      /\ Append(t, Head(q))[Len(Append(t, Head(q)))] = Head(q)
  BY <1>1, <1>3
<1> QED
  BY <1>1, <1>2, <1>3, <1>4

(***************************************************************************)
(* What a step does downstream: to each queue, to what its consumer has,   *)
(* and to the consumer.                                                    *)
(***************************************************************************)
OutMoves ==
    \/ out' = out
    \/ out # <<>> /\ out' = Tail(out)
    \/ Closed' /\ out' = Append(out, Stream!EndMark)
    \/ Stream!Sequence /\ ~Stream!Cancelled

PlayQueueMoves ==
    \/ playQueue' = playQueue
    \/ playQueue # <<>> /\ playQueue' = Tail(playQueue) /\ player' # "play"
    \/ Closed' /\ playQueue' = Append(playQueue, Stream!EndMark)
    \/ Stream!Sequence /\ ~Stream!Cancelled

DeliveryMoves ==
    /\ Closed => Closed'
    /\ Stream!Deliver \/ (OutMoves /\ UNCHANGED delivered)
    /\ caller = "ended" => caller' = "ended"

PlaybackMoves ==
    /\ \/ Stream!Played
       \/ (player = "play" => playQueue # <<>>) => PlayQueueMoves /\ UNCHANGED played
    /\ player = "ended" => player' = "ended"
    /\ player' = "play" => player = "play" \/ Stream!TakeChunk

LEMMA DownstreamEffects ==
    ASSUME Stream!Next
    PROVE  DeliveryMoves /\ PlaybackMoves
<1> USE DEF Stream!source, Stream!tasks, Closed, Stream!Cancelled, DeliveryMoves, PlaybackMoves
<1>1. CASE \/ Stream!Fetch \/ Stream!StartSynthesis \/ Stream!SourceEnds \/ Stream!NextSlot
           \/ Stream!Skip \/ Stream!LeavesDraining \/ Stream!Cancel
  BY <1>1 DEF Stream!Fetch, Stream!StartSynthesis, Stream!SourceEnds, Stream!NextSlot,
              Stream!Skip, Stream!LeavesDraining, Stream!Cancel, OutMoves, PlayQueueMoves
<1>2. CASE \E i \in Stream!Sentences : Stream!Synthesized(i) \/ Stream!LearnsIfLast(i)
  BY <1>2 DEF Stream!Synthesized, Stream!LearnsIfLast, OutMoves, PlayQueueMoves
<1>3. CASE Stream!NoMoreSlots
  BY <1>3 DEF Stream!NoMoreSlots, Stream!SequencerEnds, OutMoves, PlayQueueMoves
<1>4. CASE Stream!Sequence
  <2>1. /\ UNCHANGED <<caller, delivered, player, played, token>> /\ sequencer.pc = "await"
        /\ Stream!Cancelled => Stream!SequencerEnds
    BY <1>4 DEF Stream!Sequence
  <2> QED
    BY <1>4, <2>1 DEF Stream!SequencerEnds, OutMoves, PlayQueueMoves
<1>s. ASSUME Stream!Shutdown, UNCHANGED <<delivered, played, token>>, caller # "ended"
      PROVE  DeliveryMoves /\ PlaybackMoves
  BY <1>s DEF Stream!Shutdown, Stream!SequencerEnds, OutMoves, PlayQueueMoves
<1>5. CASE Stream!Drained \/ Stream!CallerLeaves
  BY <1>5, <1>s DEF Stream!Drained, Stream!CallerLeaves
<1>6. CASE Stream!StreamEnds
  <2>1. CASE Stream!Cancelled
    BY <1>6, <2>1, <1>s DEF Stream!StreamEnds
  <2>2. CASE ~Stream!Cancelled
    BY <1>6, <2>2 DEF Stream!StreamEnds, OutMoves, PlayQueueMoves
  <2> QED
    BY <2>1, <2>2
<1>7. CASE Stream!Deliver \/ Stream!Watch
  BY <1>7 DEF Stream!Deliver, Stream!Watch, OutMoves, PlayQueueMoves
<1>8. CASE Stream!TakeChunk \/ Stream!Played
  BY <1>8 DEF Stream!TakeChunk, Stream!Played, Stream!PlayerEnds, OutMoves, PlayQueueMoves
<1>9. CASE Stream!PlayFails \/ Stream!TailPlayed
  BY <1>9 DEF Stream!PlayFails, Stream!TailPlayed, Stream!PlayerEnds, OutMoves, PlayQueueMoves
<1> QED
  BY <1>1, <1>2, <1>3, <1>4, <1>5, <1>6, <1>7, <1>8, <1>9 DEF Stream!Next

(* The chunk that was awaited joins both queues. *)
LEMMA Sequenced ==
    ASSUME Producing, Closed => Closed', Stream!Sequence, ~Stream!Cancelled
    PROVE  /\ ~Closed /\ sequencer.pc = "await" /\ UNCHANGED player
           /\ \E m \in Past' : /\ m.index = sequencer.task
                              /\ out' = Append(out, m) /\ playQueue' = Append(playQueue, m)
<1> DEFINE i == sequencer.task
           m == [index |-> i, last |-> last[i] = "last"]
<1>1. /\ sequencer.pc = "await" /\ sequencer'.pc = "get" /\ UNCHANGED <<fed, producer, slots, player>>
      /\ out' = Append(out, m) /\ playQueue' = Append(playQueue, m)
  BY DEF Stream!Sequence, Stream!source, Stream!tasks
<1>2. /\ i \in Stream!Sentences /\ Given(i)
      /\ \A k \in 1 .. Len(slots) : slots[k] # EOF => i < slots[k]
      /\ last[i] = "last" => producer = "ended" /\ i = fed
  BY <1>1 DEF Producing
<1>3. m \in Marks
  BY <1>2, SizeAssumption DEF Marks, Stream!Sentences
<1>4. m.index = i /\ (m.last => producer = "ended" /\ i = fed)
  BY <1>2
<1>5. i <= fed' /\ (producer' = "acquire" => i < fed')
  BY <1>1, <1>2 DEF Given
<1> HIDE DEF m
<1>6. m \in Past'
  BY <1>1, <1>2, <1>3, <1>4, <1>5 DEF Past, Passed, Given
<1> QED
  BY <1>1, <1>4, <1>6 DEF Closed

(***************************************************************************)
(* Each step keeps the order of a queue and of what was taken from it; the *)
(* step that takes a chunk emits it, any other leaves the consumer's       *)
(* stream as it is or ends it.                                             *)
(***************************************************************************)
LEMMA Delivering ==
    ASSUME StreamInv, Producing', Past \subseteq Past', Stream!Next
    PROVE  /\ InOrderSoFar(out)' /\ GoesOn(delivered, out)'
           /\ [Stream!Delivery!Next]_<<delivered, caller = "ended">>
<1>1. /\ Producing /\ InOrderSoFar(out) /\ GoesOn(delivered, out) /\ DeliveryMoves
  BY DownstreamEffects DEF StreamInv
<1>2. Closed => Closed'
  BY <1>1 DEF DeliveryMoves
<1>3. CASE Stream!Deliver
  <2>1. /\ caller = "get" /\ out # <<>> /\ Head(out).index # EOF /\ UNCHANGED caller
        /\ delivered' = Append(delivered, Head(out)) /\ out' = Tail(out)
    BY <1>3 DEF Stream!Deliver, EOF
  <2>2. /\ out' \in Seq(Marks) /\ Rising(out')
        /\ \A j \in 1 .. Len(out') : out'[j] \in Past' /\ (out'[j].index = EOF => Closed')
    BY <1>1, <1>2, <2>1, QueueKept
  <2>3. /\ Head(out) \in Stream!Chunk
        /\ delivered # <<>> => /\ delivered[Len(delivered)].index < Head(out).index
                              /\ ~delivered[Len(delivered)].last
        /\ delivered' \in Seq(Stream!Chunk) /\ delivered'[Len(delivered')] \in Past'
        /\ \A j \in 1 .. Len(out') : out'[j].index # EOF =>
              delivered'[Len(delivered')].index < out'[j].index /\ ~delivered'[Len(delivered')].last
    BY <1>1, <2>1, TakenGrows
  <2>4. Stream!Delivery!Emit(Head(out))
    BY <2>1, <2>3 DEF Stream!Delivery!Emit, Stream!Delivery!Follows
  <2>5. Head(out) \in Stream!Delivery!Chunk
    BY <2>3 DEF Stream!Delivery!Chunk, Stream!Chunk, Stream!Sentences
  <2> QED
    BY <2>2, <2>3, <2>4, <2>5 DEF InOrderSoFar, GoesOn, Stream!Delivery!Next
<1>4. CASE OutMoves /\ UNCHANGED delivered
  <2>1. \/ out' = out
        \/ out # <<>> /\ out' = Tail(out)
        \/ Closed' /\ out' = Append(out, Stream!EndMark)
        \/ /\ ~Closed /\ sequencer.pc = "await"
           /\ \E m \in Past' : m.index = sequencer.task /\ out' = Append(out, m)
    BY <1>1, <1>2, <1>4, Sequenced DEF OutMoves
  <2>2. /\ out' \in Seq(Marks) /\ Rising(out')
        /\ \A j \in 1 .. Len(out') : out'[j] \in Past' /\ (out'[j].index = EOF => Closed')
    BY <1>1, <1>2, <2>1, QueueKept
  <2>3. /\ delivered \in Seq(Stream!Chunk)
        /\ delivered # <<>> =>
              /\ delivered[Len(delivered)] \in Past'
              /\ \A j \in 1 .. Len(out') : out'[j].index # EOF =>
                    delivered[Len(delivered)].index < out'[j].index /\ ~delivered[Len(delivered)].last
    BY <1>1, <2>1, TakenKept
  <2>4. InOrderSoFar(out)' /\ GoesOn(delivered, out)'
    BY <1>4, <2>2, <2>3 DEF InOrderSoFar, GoesOn
  <2>5. (caller = "ended")' = (caller = "ended") \/ (caller = "ended")' = TRUE
    BY <1>1 DEF DeliveryMoves
  <2> QED
    BY <1>4, <2>4, <2>5 DEF Stream!Delivery!Next, Stream!Delivery!End
<1> QED
  BY <1>1, <1>3, <1>4 DEF DeliveryMoves

(* The player has the chunk it plays at the head of its queue. *)
Holding == player = "play" => playQueue # <<>> /\ Head(playQueue).index # EOF

LEMMA Playing ==
    ASSUME StreamInv, Producing', Past \subseteq Past', Stream!Next
    PROVE  /\ InOrderSoFar(playQueue)' /\ GoesOn(played, playQueue)' /\ Holding'
           /\ [Stream!Playback!Next]_<<played, player = "ended">>
<1>1. /\ Producing /\ InOrderSoFar(playQueue) /\ GoesOn(played, playQueue) /\ Holding
      /\ DeliveryMoves /\ PlaybackMoves
  BY DownstreamEffects DEF StreamInv, Holding
<1>2. Closed => Closed'
  BY <1>1 DEF DeliveryMoves
<1>3. CASE Stream!Played
  <2>1. /\ player = "play" /\ playQueue # <<>> /\ Head(playQueue).index # EOF /\ player' = "get"
        /\ played' = Append(played, Head(playQueue)) /\ playQueue' = Tail(playQueue)
    BY <1>1, <1>3 DEF Stream!Played, Holding
  <2>2. /\ playQueue' \in Seq(Marks) /\ Rising(playQueue')
        /\ \A j \in 1 .. Len(playQueue') :
              playQueue'[j] \in Past' /\ (playQueue'[j].index = EOF => Closed')
    BY <1>1, <1>2, <2>1, QueueKept
  <2>3. /\ Head(playQueue) \in Stream!Chunk
        /\ played # <<>> => /\ played[Len(played)].index < Head(playQueue).index
                           /\ ~played[Len(played)].last
        /\ played' \in Seq(Stream!Chunk) /\ played'[Len(played')] \in Past'
        /\ \A j \in 1 .. Len(playQueue') : playQueue'[j].index # EOF =>
              played'[Len(played')].index < playQueue'[j].index /\ ~played'[Len(played')].last
    BY <1>1, <2>1, TakenGrows
  <2>4. Stream!Playback!Emit(Head(playQueue))
    BY <2>1, <2>3 DEF Stream!Playback!Emit, Stream!Playback!Follows
  <2>5. Head(playQueue) \in Stream!Playback!Chunk
    BY <2>3 DEF Stream!Playback!Chunk, Stream!Chunk, Stream!Sentences
  <2> QED
    BY <2>1, <2>2, <2>3, <2>4, <2>5 DEF InOrderSoFar, GoesOn, Holding, Stream!Playback!Next
<1>4. CASE PlayQueueMoves /\ UNCHANGED played
  <2>1. \/ playQueue' = playQueue
        \/ playQueue # <<>> /\ playQueue' = Tail(playQueue) /\ player' # "play"
        \/ Closed' /\ playQueue' = Append(playQueue, Stream!EndMark)
        \/ /\ ~Closed /\ sequencer.pc = "await"
           /\ \E m \in Past' : m.index = sequencer.task /\ playQueue' = Append(playQueue, m)
    BY <1>1, <1>2, <1>4, Sequenced DEF PlayQueueMoves
  <2>2. /\ playQueue' \in Seq(Marks) /\ Rising(playQueue')
        /\ \A j \in 1 .. Len(playQueue') :
              playQueue'[j] \in Past' /\ (playQueue'[j].index = EOF => Closed')
    BY <1>1, <1>2, <2>1, QueueKept
  <2>3. /\ played \in Seq(Stream!Chunk)
        /\ played # <<>> =>
              /\ played[Len(played)] \in Past'
              /\ \A j \in 1 .. Len(playQueue') : playQueue'[j].index # EOF =>
                    played[Len(played)].index < playQueue'[j].index /\ ~played[Len(played)].last
    BY <1>1, <2>1, TakenKept
  <2>4. InOrderSoFar(playQueue)' /\ GoesOn(played, playQueue)'
    BY <1>4, <2>2, <2>3 DEF InOrderSoFar, GoesOn
  <2>5. Holding'
    <3> SUFFICES ASSUME player' = "play"
                 PROVE  playQueue' # <<>> /\ Head(playQueue').index # EOF
      BY DEF Holding
    <3>1. CASE Stream!TakeChunk
      BY <3>1 DEF Stream!TakeChunk, Stream!PlayerEnds, EOF
    <3>2. CASE player = "play"
      <4>1. playQueue \in Seq(Marks) /\ playQueue # <<>> /\ Head(playQueue).index # EOF
        BY <1>1, <3>2 DEF InOrderSoFar, Holding
      <4>2. ASSUME NEW m \in Marks, playQueue' = Append(playQueue, m)
            PROVE  playQueue' # <<>> /\ Head(playQueue').index # EOF
        BY <4>1, <4>2
      <4> QED
        BY <2>1, <4>1, <4>2, EndMarkIsOne DEF Past
    <3> QED
      BY <1>1, <3>1, <3>2 DEF PlaybackMoves
  <2>6. (player = "ended")' = (player = "ended") \/ (player = "ended")' = TRUE
    BY <1>1 DEF PlaybackMoves
  <2> QED
    BY <1>4, <2>4, <2>5, <2>6 DEF Stream!Playback!Next, Stream!Playback!End
<1> QED
  BY <1>1, <1>3, <1>4 DEF PlaybackMoves, Holding

LEMMA StreamStep ==
    ASSUME StreamInv, [Stream!Next]_streamVars
    PROVE  /\ StreamInv'
           /\ [Stream!Delivery!Next]_<<delivered, caller = "ended">>
           /\ [Stream!Playback!Next]_<<played, player = "ended">>
<1>1. CASE Stream!Next
  <2>1. Producing' /\ Past \subseteq Past'
    BY <1>1, Upstream DEF StreamInv
  <2> QED
    BY <1>1, <2>1, Delivering, Playing DEF StreamInv, Holding
<1>2. CASE UNCHANGED streamVars
  <2>1. Past' = Past /\ Closed' = Closed /\ Producing' = Producing
    BY <1>2 DEF streamVars, Past, Passed, Given, Closed, Stream!Cancelled, Producing
  <2> QED
    BY <1>2, <2>1 DEF streamVars, StreamInv, InOrderSoFar, GoesOn
<1> QED
  BY <1>1, <1>2

(***************************************************************************)
(* The caller of stream_synthesize and the engine that plays for it each   *)
(* get the chunks in the order of the sentences, none twice, none after    *)
(* the one marked as the last and none once it is over, however many are   *)
(* synthesized at a time, whichever of them fail, and wherever the token   *)
(* is cancelled or the caller leaves (_sequence, _play_pending, _shutdown).*)
(***************************************************************************)
THEOREM SpeechIsOrdered == Spec => StreamImplementsOrderedStream
<1>1. Init => StreamInv
  BY StreamStarts DEF Init
<1>2. Init => Stream!Delivery!Init /\ Stream!Playback!Init
  BY DEF Init, Stream!Init, Stream!Delivery!Init, Stream!Playback!Init
<1>3. StreamInv /\ [Next]_vars => /\ StreamInv'
                                 /\ [Stream!Delivery!Next]_<<delivered, caller = "ended">>
                                 /\ [Stream!Playback!Next]_<<played, player = "ended">>
  BY EachPartByItself, StreamStep
<1> QED
  BY <1>1, <1>2, <1>3, PTL
  DEF Spec, StreamImplementsOrderedStream, Stream!ImplementsOrderedStream,
      Stream!Delivery!Spec, Stream!Playback!Spec

-----------------------------------------------------------------------------
(* The pipeline *)

(***************************************************************************)
(* NeverLeftBusy is not inductive: of a pipeline that is busy somebody who *)
(* will leave it in order must always be at work.  It is the turn that is  *)
(* still the current one, or one that cleans up and was not cancelled      *)
(* again, or whoever interrupted them.  It is nobody only if one of them   *)
(* was cut off by its own caller and the pipeline was not reset since.     *)
(***************************************************************************)
InCharge ==
    \/ \E t \in Turns : turns[t].pc \in Pipe!Awaits /\ Pipe!Current(t)
    \/ \E t \in Turns : turns[t].pc \in Pipe!Cleanup /\ ~turns[t].cancel
    \/ barger = "flush" \/ resetter = "cleanup"
    \/ announcer \in {"flush", "synthesize", "play"}

SomebodyInCharge == ~cutOff /\ pipeline.state \notin {"IDLE", "INTERRUPTED", "ERROR"} => InCharge

(***************************************************************************)
(* CompletedUndisturbed is not either: a turn that was disturbed and does  *)
(* not know yet was told to cancel or has an epoch that is over, and a     *)
(* turn that is over is no longer the active one.                          *)
(***************************************************************************)
EpochsPass ==
    /\ \A t \in Turns : turns[t].mine <= pipeline.epoch
    /\ \A t \in disturbed : /\ turns[t].pc # "new"
                            /\ turns[t].pc \in Pipe!Awaits =>
                                 turns[t].cancel \/ turns[t].mine < pipeline.epoch
    /\ pipeline.active # NoOne => Pipe!Alive(pipeline.active)
    /\ \A t \in Turns : turns[t].result = "completed" =>
                           turns[t].pc = "ended" /\ t \notin disturbed

PipelineInv == Pipe!TypeOK /\ SomebodyInCharge /\ EpochsPass

LEMMA PipelineStarts == Pipe!Init => PipelineInv
<1> SUFFICES ASSUME Pipe!Init PROVE PipelineInv
  OBVIOUS
<1>1. Pipe!TypeOK
  BY DEF Pipe!Init, Pipe!TypeOK, Pipe!States
<1>2. SomebodyInCharge /\ EpochsPass
  BY DEF Pipe!Init, SomebodyInCharge, EpochsPass
<1> QED
  BY <1>1, <1>2 DEF PipelineInv

(* Every state in which the pipeline works may go on to IDLE and to ERROR.  *)
LEMMA WaysOut ==
    ASSUME NEW s \in Pipe!States
    PROVE  /\ Pipe!Allowed[s] \subseteq Pipe!States
           /\ s \notin {"IDLE", "INTERRUPTED", "ERROR"} => {"IDLE", "ERROR"} \subseteq Pipe!Allowed[s]
           /\ "PROCESSING" \in Pipe!Allowed[s] => s \in {"IDLE", "LISTENING"}
BY DEF Pipe!Allowed, Pipe!States

TurnRows == [pc : {"new", "ended"} \cup Pipe!Awaits \cup Pipe!Cleanup, mine : Nat, cancel : BOOLEAN,
             result : {"none", "completed", "empty", "interrupted", "error", "cancelled"}]

LEMMA CancelsOnlyTheActive ==
    ASSUME Pipe!TypeOK, Pipe!CancelsActive
    PROVE  /\ turns' \in [Turns -> TurnRows]
           /\ \A t \in Turns :
                 /\ turns'[t].pc = turns[t].pc /\ turns'[t].mine = turns[t].mine
                 /\ turns'[t].result = turns[t].result
                 /\ turns[t].cancel => turns'[t].cancel
                 /\ t = pipeline.active => turns'[t].cancel
<1> DEFINE told(t) == [turns[t] EXCEPT !.cancel = TRUE]
<1>1. ASSUME NEW t \in Turns
      PROVE  /\ turns[t] \in TurnRows /\ told(t) \in TurnRows
             /\ told(t).pc = turns[t].pc /\ told(t).mine = turns[t].mine
             /\ told(t).result = turns[t].result /\ told(t).cancel
  BY <1>1 DEF Pipe!TypeOK, TurnRows
<1>2. turns' = [t \in Turns |-> IF t = pipeline.active THEN told(t) ELSE turns[t]]
  BY DEF Pipe!CancelsActive
<1> HIDE DEF told
<1> QED
  BY <1>1, <1>2

(* Every turn that is alive is disturbed, and has an epoch that is over.    *)
LEMMA Invalidated ==
    ASSUME Pipe!TypeOK, EpochsPass, NEW flag \in BOOLEAN, Pipe!Invalidates(flag)
    PROVE  /\ pipeline' \in [state : Pipe!States, epoch : Nat, interrupted : BOOLEAN,
                              active : Turns \cup {NoOne}]
           /\ pipeline'.epoch = pipeline.epoch + 1 /\ pipeline'.active = pipeline.active
           /\ disturbed' \subseteq Turns
           /\ \A t \in disturbed' : t \in disturbed \/ Pipe!Alive(t)
           /\ \A t \in Turns : /\ turns[t].mine <= pipeline'.epoch
                               /\ turns[t].mine < pipeline'.epoch
           /\ \A t \in Turns : ~Pipe!Alive(t) => (t \in disturbed' <=> t \in disturbed)
<1>1. /\ pipeline'.epoch = pipeline.epoch + 1 /\ pipeline'.active = pipeline.active
      /\ pipeline' \in [state : Pipe!States, epoch : Nat, interrupted : BOOLEAN,
                         active : Turns \cup {NoOne}]
  <2> DEFINE marked == [pipeline EXCEPT !.interrupted = flag]
  <2>1. /\ marked \in [state : Pipe!States, epoch : Nat, interrupted : BOOLEAN,
                       active : Turns \cup {NoOne}]
        /\ marked.epoch = pipeline.epoch /\ marked.active = pipeline.active
    BY DEF Pipe!TypeOK
  <2>2. pipeline' = [marked EXCEPT !.epoch = pipeline.epoch + 1]
    BY DEF Pipe!Invalidates
  <2> HIDE DEF marked
  <2> QED
    BY <2>1, <2>2 DEF Pipe!TypeOK
<1>2. disturbed \subseteq Turns /\ disturbed' = disturbed \cup {t \in Turns : Pipe!Alive(t)}
  BY DEF Pipe!TypeOK, Pipe!Invalidates, Pipe!Living
<1>3. ASSUME NEW t \in Turns
      PROVE  turns[t].mine <= pipeline'.epoch /\ turns[t].mine < pipeline'.epoch
  <2>1. turns[t].mine \in Nat /\ pipeline.epoch \in Nat /\ turns[t].mine <= pipeline.epoch
    BY DEF Pipe!TypeOK, EpochsPass
  <2> QED
    BY <1>1, <2>1
<1> QED
  BY <1>1, <1>2, <1>3

(* What a turn does to itself alone, with what it does to the pipeline.     *)
LEMMA TurnFails ==
    ASSUME PipelineInv, NEW t \in Turns, turns[t].pc \in Pipe!Awaits, ~turns[t].cancel,
           Pipe!Fails(t), UNCHANGED Pipe!Others
    PROVE  PipelineInv'
BY DEF PipelineInv, Pipe!TypeOK, Pipe!Awaits, Pipe!Cleanup, Pipe!Fails, Pipe!Goes, Pipe!Others,
   Pipe!Alive, Pipe!Current, SomebodyInCharge, InCharge, EpochsPass

LEMMA TurnMoves ==
    ASSUME PipelineInv, NEW t \in Turns, turns[t].pc \in Pipe!Awaits, ~turns[t].cancel,
           NEW to \in Pipe!Awaits, Pipe!Goes(t, to), Pipe!Current(t),
           NEW state \in Pipe!States, pipeline' = [pipeline EXCEPT !.state = state],
           UNCHANGED Pipe!Others
    PROVE  PipelineInv'
BY DEF PipelineInv, Pipe!TypeOK, Pipe!Awaits, Pipe!Cleanup, Pipe!Goes, Pipe!Others,
   Pipe!Alive, Pipe!Current, SomebodyInCharge, InCharge, EpochsPass

(* A turn that ends leaves somebody in charge if it was not, or the         *)
(* pipeline in order.                                                      *)
LEMMA TurnEnds ==
    ASSUME PipelineInv, NEW t \in Turns,
           turns[t].pc \in Pipe!Awaits \cup Pipe!Cleanup,
           NEW result \in {"completed", "empty", "interrupted", "error", "cancelled"},
           Pipe!Ends(t, result), result = "completed" => t \notin disturbed,
           NEW state \in Pipe!States,
           pipeline' = [pipeline EXCEPT !.active = Pipe!Released(t), !.state = state],
           \/ state \in {"IDLE", "INTERRUPTED", "ERROR"}
           \/ /\ state = pipeline.state
              /\ turns[t].pc \in Pipe!Awaits => ~Pipe!Current(t)
              /\ turns[t].pc \in Pipe!Cleanup => turns[t].cancel,
           UNCHANGED Pipe!Others
    PROVE  PipelineInv'
<1> USE DEF PipelineInv
<1> DEFINE row == [turns[t] EXCEPT !.pc = "ended", !.result = result, !.cancel = FALSE]
<1>0. /\ row \in TurnRows /\ row.pc = "ended" /\ row.result = result /\ row.mine = turns[t].mine
      /\ turns' = [u \in Turns |-> IF u = t THEN row ELSE turns[u]]
      /\ turns \in [Turns -> TurnRows]
  <2>1. turns \in [Turns -> TurnRows] /\ turns[t] \in TurnRows
    BY DEF Pipe!TypeOK, TurnRows
  <2>2. row \in TurnRows /\ row.pc = "ended" /\ row.result = result /\ row.mine = turns[t].mine
    BY <2>1 DEF TurnRows
  <2>3. turns' = [u \in Turns |-> IF u = t THEN row ELSE turns[u]]
    BY <2>1 DEF Pipe!Ends
  <2> QED
    BY <2>1, <2>2, <2>3
<1> HIDE DEF row
<1>1. /\ turns'[t].pc = "ended" /\ turns'[t].result = result /\ turns'[t].mine = turns[t].mine
      /\ \A u \in Turns : u # t => turns'[u] = turns[u]
      /\ turns' \in [Turns -> TurnRows]
  BY <1>0
<1>2. /\ pipeline'.state = state /\ pipeline'.epoch = pipeline.epoch
      /\ pipeline'.interrupted = pipeline.interrupted
      /\ pipeline'.active = IF pipeline.active = t THEN NoOne ELSE pipeline.active
      /\ pipeline' \in [state : Pipe!States, epoch : Nat, interrupted : BOOLEAN,
                         active : Turns \cup {NoOne}]
  BY DEF Pipe!Released, Pipe!TypeOK
<1>3. UNCHANGED <<disturbed, barger, resetter, announcer, cutOff>>
  BY DEF Pipe!Others
<1>4. Pipe!TypeOK'
  BY <1>1, <1>2, <1>3 DEF Pipe!TypeOK, TurnRows
<1>5. SomebodyInCharge'
  BY <1>1, <1>2, <1>3 DEF SomebodyInCharge, InCharge, Pipe!Current, Pipe!Awaits, Pipe!Cleanup
<1>6. EpochsPass'
  BY <1>1, <1>2, <1>3 DEF EpochsPass, Pipe!Alive, Pipe!Awaits, Pipe!TypeOK
<1> QED
  BY <1>4, <1>5, <1>6

LEMMA PipelineMoves == PipelineInv /\ [Pipe!Next]_pipeVars => PipelineInv'
<1> SUFFICES ASSUME PipelineInv, [Pipe!Next]_pipeVars
             PROVE  PipelineInv'
  OBVIOUS
<1> USE DEF PipelineInv
<1>1. ASSUME NEW t \in Turns, Pipe!Begin(t)
      PROVE  PipelineInv'
  <2>1. PICK begins \in {"capture", "transcribe", "ended"} :
          /\ turns' = [turns EXCEPT ![t] = [pc |-> begins, mine |-> pipeline.epoch + 1, cancel |-> FALSE,
                           result |-> IF begins = "ended" THEN "empty" ELSE "none"]]
          /\ pipeline' = [state |-> CASE begins = "capture"    -> "LISTENING"
                                       [] begins = "transcribe" -> "PROCESSING"
                                       [] begins = "ended"      -> "IDLE",
                          epoch |-> pipeline.epoch + 1, interrupted |-> FALSE,
                          active |-> IF begins = "ended" THEN NoOne ELSE t]
    BY <1>1 DEF Pipe!Begin
  <2>2. /\ turns[t].pc = "new" /\ disturbed' = disturbed \cup Pipe!Living
        /\ UNCHANGED <<barger, resetter, announcer, bargeIns, cutOff>>
    BY <1>1 DEF Pipe!Begin
  <2>3. /\ pipeline'.epoch = pipeline.epoch + 1 /\ pipeline'.interrupted = FALSE
        /\ pipeline'.active = IF begins = "ended" THEN NoOne ELSE t
        /\ begins = "ended" => pipeline'.state = "IDLE"
        /\ pipeline' \in [state : Pipe!States, epoch : Nat, interrupted : BOOLEAN,
                           active : Turns \cup {NoOne}]
    <3>1. CASE begins = "capture"
      BY <2>1, <3>1 DEF Pipe!TypeOK, Pipe!States
    <3>2. CASE begins = "transcribe"
      BY <2>1, <3>2 DEF Pipe!TypeOK, Pipe!States
    <3>3. CASE begins = "ended"
      BY <2>1, <3>3 DEF Pipe!TypeOK, Pipe!States
    <3> QED
      BY <3>1, <3>2, <3>3
  <2>4. Pipe!TypeOK'
    BY <2>1, <2>2, <2>3 DEF Pipe!TypeOK, Pipe!Living, Pipe!Awaits
  <2>5. SomebodyInCharge'
    BY <2>1, <2>2, <2>3 DEF Pipe!TypeOK, Pipe!Current, Pipe!Awaits, SomebodyInCharge, InCharge
  <2>6. EpochsPass'
    BY <2>1, <2>2, <2>3 DEF Pipe!TypeOK, Pipe!Living, Pipe!Alive, Pipe!Awaits, EpochsPass
  <2> QED
    BY <2>4, <2>5, <2>6
<1>2. ASSUME NEW t \in Turns, Pipe!Proceeds(t)
      PROVE  PipelineInv'
  <2>1. /\ turns[t].pc \in Pipe!Awaits /\ ~turns[t].cancel /\ Pipe!Current(t)
        /\ UNCHANGED Pipe!Others
    BY <1>2 DEF Pipe!Proceeds
  <2>2. t \notin disturbed
    BY <2>1 DEF EpochsPass, Pipe!Current, Pipe!TypeOK
  <2>3. CASE Pipe!Fails(t)
    BY <2>1, <2>3, TurnFails
  <2>4. ASSUME NEW to \in Pipe!Awaits, NEW state \in Pipe!States, Pipe!MovesTo(t, state, to)
        PROVE  PipelineInv'
    BY <2>1, <2>3, <2>4, TurnMoves DEF Pipe!MovesTo
  <2>5. ASSUME NEW to \in Pipe!Awaits, Pipe!Goes(t, to), UNCHANGED pipeline
        PROVE  PipelineInv'
    <3>1. pipeline' = [pipeline EXCEPT !.state = pipeline.state] /\ pipeline.state \in Pipe!States
      BY <2>5 DEF Pipe!TypeOK
    <3> QED
      BY <2>1, <2>5, <3>1, TurnMoves
  <2>6. ASSUME NEW result \in {"completed", "empty"}, Pipe!Finishes(t, result)
        PROVE  PipelineInv'
    <3>1. CASE ~Pipe!CanMove("IDLE")
      BY <2>3, <2>6, <3>1 DEF Pipe!Finishes
    <3>2. CASE Pipe!CanMove("IDLE")
      <4>1. /\ Pipe!Ends(t, result)
            /\ pipeline' = [pipeline EXCEPT !.active = Pipe!Released(t), !.state = "IDLE"]
        BY <2>6, <3>2 DEF Pipe!Finishes, Pipe!TypeOK
      <4> QED
        BY <2>1, <2>2, <4>1, TurnEnds DEF Pipe!States
    <3> QED
      BY <3>1, <3>2
  <2> QED
    BY <1>2, <2>4, <2>5, <2>6 DEF Pipe!Proceeds, Pipe!Awaits, Pipe!States
<1>3. ASSUME NEW t \in Turns, Pipe!Overtaken(t) \/ Pipe!CancelledAgain(t)
      PROVE  PipelineInv'
  <2>1. pipeline' = [pipeline EXCEPT !.active = Pipe!Released(t), !.state = pipeline.state]
    BY <1>3 DEF Pipe!Overtaken, Pipe!CancelledAgain, Pipe!TypeOK
  <2>2. pipeline.state \in Pipe!States
    BY DEF Pipe!TypeOK
  <2> QED
    BY <1>3, <2>1, <2>2, TurnEnds DEF Pipe!Overtaken, Pipe!CancelledAgain, Pipe!Awaits, Pipe!Cleanup
<1>4. ASSUME NEW t \in Turns, Pipe!AwaitFails(t)
      PROVE  PipelineInv'
  BY <1>4, TurnFails DEF Pipe!AwaitFails
<1>5. ASSUME NEW t \in Turns, Pipe!FailureHandled(t)
      PROVE  PipelineInv'
  <2> DEFINE state == IF "ERROR" \in Pipe!Allowed[pipeline.state] THEN "ERROR" ELSE pipeline.state
  <2>1. state \in {"IDLE", "INTERRUPTED", "ERROR"}
    BY WaysOut DEF Pipe!TypeOK
  <2>2. pipeline' = [pipeline EXCEPT !.active = Pipe!Released(t), !.state = state]
    BY <1>5 DEF Pipe!FailureHandled, Pipe!TypeOK
  <2> QED
    BY <1>5, <2>1, <2>2, TurnEnds DEF Pipe!FailureHandled, Pipe!Cleanup, Pipe!States
<1>6. ASSUME NEW t \in Turns, Pipe!CancelArrives(t)
      PROVE  PipelineInv'
  BY <1>6 DEF Pipe!CancelArrives, Pipe!TypeOK, Pipe!Awaits, Pipe!Cleanup,
     Pipe!Others, Pipe!Alive, Pipe!Current, SomebodyInCharge, InCharge, EpochsPass
<1>7. ASSUME NEW t \in Turns, Pipe!Unwound(t)
      PROVE  PipelineInv'
  <2> DEFINE was == pipeline.state
  <2> DEFINE state == CASE was = "SPEAKING" -> "INTERRUPTED"
                        [] was \notin {"SPEAKING", "INTERRUPTED"} /\ "IDLE" \in Pipe!Allowed[was] -> "IDLE"
                        [] OTHER -> was
  <2>1. state \in {"IDLE", "INTERRUPTED", "ERROR"}
    BY WaysOut DEF Pipe!TypeOK
  <2>2. pipeline' = [pipeline EXCEPT !.active = Pipe!Released(t), !.state = state]
    BY <1>7 DEF Pipe!Unwound, Pipe!TypeOK
  <2> QED
    BY <1>7, <2>1, <2>2, TurnEnds DEF Pipe!Unwound, Pipe!Cleanup, Pipe!States
<1>8. ASSUME NEW t \in Turns, Pipe!CallerCancelled(t)
      PROVE  PipelineInv'
  <2>1. /\ Pipe!Alive(t) /\ disturbed' = disturbed \cup {t}
        /\ turns' = [turns EXCEPT ![t] = [turns[t] EXCEPT !.cancel = TRUE]]
        /\ cutOff' = (cutOff \/ turns[t].pc \in Pipe!Cleanup)
        /\ UNCHANGED <<pipeline, barger, resetter, announcer, bargeIns>>
    BY <1>8 DEF Pipe!CallerCancelled, Pipe!TypeOK
  <2>2. /\ turns' \in [Turns -> TurnRows]
        /\ turns'[t].cancel
        /\ \A u \in Turns :
              /\ turns'[u].pc = turns[u].pc /\ turns'[u].mine = turns[u].mine
              /\ turns'[u].result = turns[u].result
              /\ turns[u].cancel => turns'[u].cancel
              /\ u # t => turns'[u] = turns[u]
    BY <2>1 DEF Pipe!TypeOK, TurnRows
  <2>3. Pipe!TypeOK'
    BY <2>1, <2>2 DEF Pipe!TypeOK, TurnRows
  <2>4. SomebodyInCharge'
    BY <2>1, <2>2 DEF SomebodyInCharge, InCharge, Pipe!Current, Pipe!Awaits, Pipe!Cleanup
  <2>5. EpochsPass'
    BY <2>1, <2>2 DEF EpochsPass, Pipe!Alive, Pipe!Awaits
  <2> QED
    BY <2>3, <2>4, <2>5
<1>9. CASE Pipe!BargesIn \/ Pipe!AnnouncesOver
  <2>1. /\ UNCHANGED <<turns, resetter, cutOff>>
        /\ \/ barger' = "flush" /\ UNCHANGED announcer
           \/ announcer' = "flush" /\ UNCHANGED barger
        /\ Pipe!Invalidates(TRUE)
    BY <1>9 DEF Pipe!BargesIn, Pipe!AnnouncesOver
  <2>2. Pipe!TypeOK'
    BY <2>1, Invalidated DEF Pipe!TypeOK
  <2>3. SomebodyInCharge'
    BY <2>1 DEF SomebodyInCharge, InCharge
  <2>4. EpochsPass'
    <3>1. /\ pipeline'.active = pipeline.active /\ disturbed' \subseteq Turns
          /\ \A t \in disturbed' : t \in disturbed \/ Pipe!Alive(t)
          /\ \A t \in Turns : turns[t].mine <= pipeline'.epoch /\ turns[t].mine < pipeline'.epoch
          /\ \A t \in Turns : ~Pipe!Alive(t) => (t \in disturbed' <=> t \in disturbed)
      BY <2>1, Invalidated
    <3> QED
      BY <2>1, <3>1 DEF EpochsPass, Pipe!Alive
  <2> QED
    BY <2>2, <2>3, <2>4
<1>10. CASE Pipe!Resets
  <2>1. Pipe!Invalidates(FALSE) /\ resetter' = "cleanup" /\ UNCHANGED <<barger, announcer, cutOff>>
    BY <1>10 DEF Pipe!Resets
  <2>2. Pipe!CancelsActive
    BY <1>10 DEF Pipe!Resets
  <2>3. Pipe!TypeOK'
    BY <2>1, <2>2, CancelsOnlyTheActive, Invalidated DEF Pipe!TypeOK, TurnRows
  <2>4. SomebodyInCharge'
    BY <2>1 DEF SomebodyInCharge, InCharge
  <2>5. EpochsPass'
    <3>1. /\ pipeline'.active = pipeline.active /\ disturbed' \subseteq Turns
          /\ \A t \in disturbed' : t \in disturbed \/ Pipe!Alive(t)
          /\ \A t \in Turns : turns[t].mine <= pipeline'.epoch /\ turns[t].mine < pipeline'.epoch
          /\ \A t \in Turns : ~Pipe!Alive(t) => (t \in disturbed' <=> t \in disturbed)
      BY <2>1, Invalidated
    <3>2. \A t \in Turns : /\ turns'[t].pc = turns[t].pc /\ turns'[t].mine = turns[t].mine
                           /\ turns'[t].result = turns[t].result
      BY <2>2, CancelsOnlyTheActive
    <3>3. pipeline.active \in Turns \cup {NoOne}
      BY DEF Pipe!TypeOK
    <3> QED
      BY <3>1, <3>2, <3>3 DEF EpochsPass, Pipe!Alive
  <2> QED
    BY <2>3, <2>4, <2>5
<1>11. CASE Pipe!BargedIn \/ Pipe!InterruptedForAnnouncement
  <2>1. /\ disturbed' = disturbed \cup Pipe!WasActive /\ UNCHANGED <<resetter, bargeIns, cutOff>>
        /\ Pipe!CancelsActive
    BY <1>11 DEF Pipe!BargedIn, Pipe!InterruptedForAnnouncement
  <2>2. /\ pipeline'.epoch = pipeline.epoch /\ pipeline'.active = pipeline.active
        /\ pipeline' \in [state : Pipe!States, epoch : Nat, interrupted : BOOLEAN,
                           active : Turns \cup {NoOne}]
        /\ barger' \in {"idle", "flush"}
        /\ announcer' \in {"idle", "flush", "synthesize", "play", "done", "refused"}
        /\ \/ pipeline'.state \in {"IDLE", "INTERRUPTED", "ERROR"}
           \/ announcer' = "synthesize"
    <3>1. CASE Pipe!BargedIn
      BY <3>1 DEF Pipe!BargedIn, Pipe!Interrupted, Pipe!TypeOK, Pipe!States
    <3>2. CASE Pipe!InterruptedForAnnouncement
      <4>1. /\ announcer' = IF Pipe!Interrupted(pipeline.state) = "INTERRUPTED" THEN "refused" ELSE "synthesize"
            /\ pipeline' = [pipeline EXCEPT !.state = IF Pipe!Interrupted(pipeline.state) = "IDLE"
                                                     THEN "PROCESSING" ELSE Pipe!Interrupted(pipeline.state)]
            /\ UNCHANGED barger
        BY <3>2 DEF Pipe!InterruptedForAnnouncement
      <4> QED
        BY <4>1 DEF Pipe!Interrupted, Pipe!TypeOK, Pipe!States
    <3> QED
      BY <1>11, <3>1, <3>2
  <2>3. Pipe!TypeOK'
    BY <2>1, <2>2, CancelsOnlyTheActive DEF Pipe!TypeOK, TurnRows, Pipe!WasActive
  <2>4. SomebodyInCharge'
    BY <2>2 DEF SomebodyInCharge, InCharge
  <2>5. EpochsPass'
    BY <2>1, <2>2, CancelsOnlyTheActive DEF Pipe!TypeOK, Pipe!WasActive, Pipe!Alive, EpochsPass
  <2> QED
    BY <2>3, <2>4, <2>5
<1>12. CASE Pipe!WasReset
  BY <1>12 DEF Pipe!WasReset, Pipe!TypeOK, Pipe!States, Pipe!Alive, SomebodyInCharge, EpochsPass
<1>13. CASE Pipe!Announces \/ Pipe!AnnouncementSynthesized \/ Pipe!AnnouncementPlayed
  <2>1. /\ UNCHANGED <<turns, disturbed, barger, resetter, bargeIns, cutOff>>
        /\ \E state \in Pipe!States : /\ pipeline' = [pipeline EXCEPT !.state = state]
                                      /\ \/ state \in {"IDLE", "INTERRUPTED", "ERROR"}
                                         \/ announcer' \in {"synthesize", "play"}
        /\ announcer' \in {"synthesize", "play", "done", "refused"}
    <3>1. CASE Pipe!Announces
      <4>1. /\ UNCHANGED <<turns, disturbed, barger, resetter, bargeIns, cutOff>>
            /\ announcer' = IF Pipe!CanMove("PROCESSING") THEN "synthesize" ELSE "refused"
            /\ pipeline.state \in {"IDLE", "INTERRUPTED"}
            /\ pipeline' = [pipeline EXCEPT !.state = Pipe!Prepared(pipeline.state)]
        BY <3>1 DEF Pipe!Announces, Pipe!Prepares
      <4> QED
        BY <4>1 DEF Pipe!Prepared, Pipe!States
    <3>2. CASE Pipe!AnnouncementEnds /\ UNCHANGED <<turns, disturbed, barger, resetter, bargeIns, cutOff>>
      <4> DEFINE state == IF "IDLE" \in Pipe!Allowed[pipeline.state] THEN "IDLE" ELSE pipeline.state
      <4>1. state \in {"IDLE", "INTERRUPTED", "ERROR"}
        BY WaysOut DEF Pipe!TypeOK
      <4>2. pipeline' = [pipeline EXCEPT !.state = state] /\ announcer' = "done"
        BY <3>2 DEF Pipe!AnnouncementEnds
      <4> QED
        BY <3>2, <4>1, <4>2 DEF Pipe!States
    <3> QED
      BY <1>13, <3>1, <3>2 DEF Pipe!AnnouncementSynthesized, Pipe!AnnouncementPlayed, Pipe!States
  <2>2. Pipe!TypeOK'
    BY <2>1 DEF Pipe!TypeOK
  <2> QED
    BY <2>1, <2>2 DEF Pipe!TypeOK, Pipe!Alive, SomebodyInCharge, InCharge, EpochsPass
<1>15. CASE Pipe!InterrupterCancelled
  BY <1>15 DEF Pipe!InterrupterCancelled, Pipe!TypeOK, Pipe!Alive, SomebodyInCharge, EpochsPass
<1>14. CASE UNCHANGED pipeVars
  BY <1>14 DEF pipeVars, Pipe!TypeOK, Pipe!Alive, Pipe!Current, SomebodyInCharge, InCharge, EpochsPass
<1> QED
  BY <1>1, <1>2, <1>3, <1>4, <1>5, <1>6, <1>7, <1>8, <1>9, <1>10, <1>11, <1>12, <1>13, <1>14, <1>15
  DEF Pipe!Next, Pipe!vars, pipeVars

(***************************************************************************)
(* "A turn that reports its answer as spoken was left alone" and "when     *)
(* nobody is at work the pipeline can be used again" (run_turn,            *)
(* handle_barge_in, reset, announce), for any number of turns.             *)
(***************************************************************************)
LEMMA PipelineInvariant == Spec => []PipelineInv
<1>1. Init => PipelineInv
  BY PipelineStarts DEF Init
<1>2. PipelineInv /\ [Next]_vars => PipelineInv'
  BY EachPartByItself, PipelineMoves
<1> QED
  BY <1>1, <1>2, PTL DEF Spec

THEOREM UsableAgain == Spec => []NeverLeftBusy
<1>1. PipelineInv => NeverLeftBusy
  BY DEF PipelineInv, SomebodyInCharge, InCharge, NeverLeftBusy, Pipe!NeverLeftBusy,
     Pipe!Living, Pipe!Alive, Pipe!Awaits, Pipe!Cleanup
<1> QED
  BY <1>1, PipelineInvariant, PTL

THEOREM CompletedTurnsWereLeftAlone == Spec => []CompletedUndisturbed
<1>1. PipelineInv => CompletedUndisturbed
  BY DEF PipelineInv, EpochsPass, CompletedUndisturbed, Pipe!CompletedUndisturbed
<1> QED
  BY <1>1, PipelineInvariant, PTL

-----------------------------------------------------------------------------
(* The microphone *)

SpeechRows == [on : BOOLEAN, onset : Nat, preRoll : Nat, frames : Nat, silence : Nat]
ListenerRows == [open : BOOLEAN, frames : Nat, ordered : BOOLEAN, closed : BOOLEAN]

(***************************************************************************)
(* While an utterance is recorded its listener, unless it is closed, has   *)
(* heard the start of it and as many frames as were recorded.              *)
(***************************************************************************)
InStep == speech.on /\ ~listener.closed => listener.open /\ listener.frames = speech.frames

MicrophoneInv ==
    /\ speech \in SpeechRows /\ listener \in ListenerRows
    /\ InStep /\ listener.ordered

(* What a listener that is in step makes of what it is sent.               *)
LEMMA InOrder ==
    ASSUME NEW l \in ListenerRows, l.ordered, NEW n \in Nat, NEW m \in Nat,
           ~l.closed => l.open /\ l.frames = n
    PROVE  /\ Mic!Heard(l, Mic!Frames(n, m)) \in ListenerRows
           /\ Mic!Heard(l, Mic!Frames(n, m)).ordered
           /\ Mic!Heard(l, Mic!Frames(n, m)).closed = l.closed
           /\ ~l.closed => /\ Mic!Heard(l, Mic!Frames(n, m)).open
                           /\ Mic!Heard(l, Mic!Frames(n, m)).frames = n + m
           /\ Mic!Heard(l, Mic!Ended(n)) \in ListenerRows
           /\ Mic!Heard(l, Mic!Ended(n)).ordered
<1> DEFINE f == Mic!Frames(n, m)  e == Mic!Ended(n)
<1>1. f.is = "frames" /\ f.n = n /\ f.many = m /\ e.is = "end" /\ e.n = n
  BY DEF Mic!Frames, Mic!Ended, Mic!Event
<1> HIDE DEF f, e
<1>2. CASE l.closed
  BY <1>2 DEF Mic!Heard
<1>3. CASE ~l.closed
  <2>1. Mic!Heard(l, f) = [open |-> TRUE, frames |-> n + m, ordered |-> TRUE, closed |-> l.closed]
    BY <1>1, <1>3 DEF Mic!Heard, ListenerRows
  <2>2. Mic!Heard(l, e) = [open |-> FALSE, frames |-> n, ordered |-> TRUE, closed |-> l.closed]
    BY <1>1, <1>3 DEF Mic!Heard, ListenerRows
  <2> QED
    BY <1>3, <2>1, <2>2 DEF ListenerRows, f, e
<1> QED
  BY <1>2, <1>3 DEF f, e

LEMMA AnyTime ==
    ASSUME NEW l \in ListenerRows, l.ordered
    PROVE  /\ Mic!Heard(l, Mic!Closed) \in ListenerRows
           /\ Mic!Heard(l, Mic!Closed).ordered
           /\ Mic!Heard(l, Mic!Started) \in ListenerRows
           /\ Mic!Heard(l, Mic!Started).ordered
           /\ Mic!Heard(l, Mic!Started).closed = l.closed
           /\ ~l.closed => /\ Mic!Heard(l, Mic!Started).open
                           /\ Mic!Heard(l, Mic!Started).frames = 0
BY DEF ListenerRows, Mic!Heard, Mic!Closed, Mic!Started, Mic!Event

LEMMA FrameKeepsStep ==
    ASSUME MicrophoneInv, NEW counted, Mic!Processed(counted)
    PROVE  MicrophoneInv'
<1> USE DEF MicrophoneInv
<1>1. CASE ~speech.on /\ Mic!Quiet(counted)
  <2>1. Mic!Lowest(PreRoll, speech.preRoll + 1) \in Nat
    BY PreRollAssumption DEF Mic!Lowest, SpeechRows
  <2>2. speech' = [speech EXCEPT !.onset = 0, !.preRoll = Mic!Lowest(PreRoll, speech.preRoll + 1)]
    BY <1>1 DEF Mic!Quiet
  <2>3. speech' \in SpeechRows /\ speech'.on = speech.on
    BY <2>1, <2>2 DEF SpeechRows
  <2> QED
    BY <1>1, <2>3 DEF Mic!Quiet, InStep
<1>2. CASE ~speech.on /\ Mic!Voice(counted)
  <2> DEFINE begun == speech.onset + 1
             n == speech.preRoll + begun
             l == Mic!Heard(listener, Mic!Started)
  <2>1. begun \in Nat /\ n \in Nat /\ 0 + n = n
    BY DEF SpeechRows
  <2>2. CASE begun < Onset
    BY <1>2, <2>1, <2>2 DEF Mic!Voice, SpeechRows, InStep
  <2>3. CASE ~(begun < Onset)
    <3>1. /\ speech' = [speech EXCEPT !.on = TRUE, !.onset = begun, !.preRoll = 0,
                                      !.frames = n, !.silence = 0]
          /\ listener' = Mic!Heard(l, Mic!Frames(0, n))
      BY <1>2, <2>3 DEF Mic!Voice
    <3>2. speech' \in SpeechRows /\ speech'.frames = n
      BY <2>1, <3>1 DEF SpeechRows
    <3>3. l \in ListenerRows /\ l.ordered /\ (~l.closed => l.open /\ l.frames = 0)
      BY AnyTime
    <3> HIDE DEF l, n
    <3>4. /\ listener' \in ListenerRows /\ listener'.ordered
          /\ ~listener'.closed => listener'.open /\ listener'.frames = n
      <4>1. LET h == Mic!Heard(l, Mic!Frames(0, n))
            IN  /\ h \in ListenerRows /\ h.ordered /\ h.closed = l.closed
                /\ ~l.closed => h.open /\ h.frames = 0 + n
        BY <2>1, <3>3, InOrder
      <4> QED
        BY <2>1, <3>1, <4>1
    <3> QED
      BY <3>2, <3>4 DEF InStep
  <2> QED
    BY <2>2, <2>3
<1>3. ASSUME speech.on, NEW voiced \in BOOLEAN, Mic!Recorded(voiced, counted)
      PROVE  MicrophoneInv'
  <2> DEFINE silence == IF voiced THEN 0 ELSE speech.silence + 1
             n == speech.frames + 1
             sent == Mic!Heard(listener, Mic!Frames(speech.frames, 1))
  <2>1. silence \in Nat /\ n \in Nat /\ speech.frames \in Nat
    BY DEF SpeechRows
  <2>2. /\ sent \in ListenerRows /\ sent.ordered
        /\ ~sent.closed => sent.open /\ sent.frames = n
    <3>1. /\ listener \in ListenerRows /\ listener.ordered
          /\ ~listener.closed => listener.open /\ listener.frames = speech.frames
      BY <1>3 DEF InStep
    <3>2. /\ sent \in ListenerRows /\ sent.ordered /\ sent.closed = listener.closed
          /\ ~listener.closed => sent.open /\ sent.frames = speech.frames + 1
      BY <2>1, <3>1, InOrder
    <3> QED
      BY <3>2
  <2>3. CASE silence >= Silence \/ n >= Longest
    <3>1. /\ speech' = Mic!NoSpeech
          /\ listener' = IF n < Shortest THEN sent ELSE Mic!Heard(sent, Mic!Ended(n))
      BY <1>3, <2>3 DEF Mic!Recorded, Mic!ResetTurn
    <3> HIDE DEF sent, n
    <3>2. listener' \in ListenerRows /\ listener'.ordered
      BY <2>1, <2>2, <3>1, InOrder
    <3> QED
      BY <3>1, <3>2 DEF Mic!NoSpeech, SpeechRows, InStep
  <2>4. CASE ~(silence >= Silence \/ n >= Longest)
    <3>1. speech' = [speech EXCEPT !.frames = n, !.silence = silence] /\ listener' = sent
      BY <1>3, <2>4 DEF Mic!Recorded
    <3>2. speech' \in SpeechRows /\ speech'.frames = n
      BY <2>1, <3>1 DEF SpeechRows
    <3> QED
      BY <2>2, <3>1, <3>2 DEF InStep
  <2> QED
    BY <2>3, <2>4
<1> QED
  BY <1>1, <1>2, <1>3 DEF Mic!Processed

LEMMA MicrophoneMoves == MicrophoneInv /\ [Mic!Next]_micVars => MicrophoneInv'
<1> SUFFICES ASSUME MicrophoneInv, [Mic!Next]_micVars
             PROVE  MicrophoneInv'
  OBVIOUS
<1> USE DEF MicrophoneInv
<1>1. Mic!CutOff \in ListenerRows /\ Mic!CutOff.ordered
  BY InOrder DEF Mic!CutOff, InStep, SpeechRows
<1>2. CASE Mic!Stopped
  <2>1. listener' \in ListenerRows /\ listener'.ordered
    BY <1>1, <1>2, AnyTime DEF Mic!Stopped
  <2>2. speech' = Mic!NoSpeech
    BY <1>2 DEF Mic!Stopped, Mic!ResetTurn
  <2> QED
    BY <2>1, <2>2 DEF Mic!NoSpeech, SpeechRows, InStep
<1>3. CASE Mic!Mute
  <2>1. speech' = Mic!NoSpeech /\ listener' = Mic!CutOff
    BY <1>3 DEF Mic!Mute, Mic!ResetTurn
  <2> QED
    BY <1>1, <2>1 DEF Mic!NoSpeech, SpeechRows, InStep
<1>4. CASE Mic!Unmute
  BY <1>4 DEF Mic!Unmute, Mic!ResetTurn, Mic!NoSpeech, SpeechRows, InStep
<1>5. CASE Mic!Subscribe
  BY <1>5 DEF Mic!Subscribe, ListenerRows, InStep
<1>6. CASE UNCHANGED <<speech, listener>>
  BY <1>6 DEF InStep
<1>7. CASE Mic!ProcessFrame \/ Mic!LoudWhileGated
  BY <1>6, <1>7, FrameKeepsStep DEF Mic!ProcessFrame, Mic!LoudWhileGated
<1> QED
  BY <1>2, <1>3, <1>4, <1>5, <1>6, <1>7
  DEF Mic!Next, micVars, Mic!Start, Mic!Stop, Mic!Pauses, Mic!Gates, Mic!Gate,
      Mic!Poll, Mic!Resumed, Mic!IgnoredWhileGated

(***************************************************************************)
(* A listener hears whole utterances, frames in order and ends that count  *)
(* them (_dispatch_event, _process_frame), for any thresholds and limits.  *)
(***************************************************************************)
THEOREM ListenersHearWholeUtterances == Spec => []UtterancesAreWhole
<1>1. Init => MicrophoneInv
  BY DEF Init, Mic!Init, Mic!NoSpeech, MicrophoneInv, SpeechRows, ListenerRows, InStep
<1>2. MicrophoneInv /\ [Next]_vars => MicrophoneInv'
  BY EachPartByItself, MicrophoneMoves
<1>3. MicrophoneInv => UtterancesAreWhole
  BY DEF MicrophoneInv, UtterancesAreWhole, Mic!UtterancesAreWhole
<1> QED
  BY <1>1, <1>2, <1>3, PTL DEF Spec

-----------------------------------------------------------------------------
(* The speech providers *)

(***************************************************************************)
(* As long as nobody gives up a call a thread belongs to the caller that   *)
(* holds the lock, a half-made model to the thread that is making it, and  *)
(* what is left behind of a model is whole unless a failure was reported.  *)
(***************************************************************************)
Sound == model \in whole \/ reported

OneAtATime ==
    /\ \A c \in Callers : thread[c] # "none" => Speech!InCall(c) /\ Speech!Holds(c)
    /\ \A c \in Callers : thread[c] = "using" => Sound
    /\ \A c \in Callers : thread[c] \in {"warm up", "set up"} => model = c
    /\ \/ model = None \/ Sound
       \/ \E c \in Callers : thread[c] \in {"warm up", "set up", "cpu"}

StreamRows == [pc : Speech!Pcs, heard : Nat]

Stages == {"none", "load", "session", "cuda", "warm up", "cpu", "set up", "using"}

Types ==
    /\ kind \in {"stt", "stt cpu", "tts"}
    /\ queue \in Seq(Callers)
    /\ stream \in [Callers -> StreamRows]
    /\ thread \in [Callers -> Stages]

ProviderInv == Types /\ (~givenUp => OneAtATime)

(* What the head of the queue sees of the others.                          *)
LEMMA SomebodyWaits ==
    ASSUME NEW S, NEW q \in Seq(S), NEW e \in S
    PROVE  /\ Append(q, e) \in Seq(S)
           /\ q # <<>> => Append(q, e) # <<>> /\ Head(Append(q, e)) = Head(q)
<1>1. /\ Append(q, e) \in Seq(S) /\ Append(q, e) # <<>>
      /\ \A i \in 1 .. Len(q) : Append(q, e)[i] = q[i]
  BY AppendProperties
<1>2. q # <<>> => 1 \in 1 .. Len(q)
  BY EmptySeq
<1> QED
  BY <1>1, <1>2

LEMMA SomebodyLeaves ==
    ASSUME NEW S, NEW q \in Seq(S), NEW i \in DOMAIN q
    PROVE  /\ Speech!RemoveAt(q, i) \in Seq(S)
           /\ i # 1 => Speech!RemoveAt(q, i) # <<>> /\ Head(Speech!RemoveAt(q, i)) = Head(q)
<1> DEFINE before == SubSeq(q, 1, i - 1)  after == SubSeq(q, i + 1, Len(q))
<1>1. Len(q) \in Nat /\ i \in 1 .. Len(q) /\ \A j \in 1 .. Len(q) : q[j] \in S
  BY LenProperties, ElementOfSeq
<1>2. /\ before \in Seq(S) /\ Len(before) = i - 1
      /\ \A j \in 1 .. i - 1 : before[j] = q[j]
  BY <1>1, SubSeqProperties
<1>3. after \in Seq(S)
  <2>1. i + 1 \in Int /\ Len(q) \in Int /\ \A j \in i + 1 .. Len(q) : q[j] \in S
    BY <1>1
  <2> QED
    BY <2>1, SubSeqProperties
<1>4. Speech!RemoveAt(q, i) = before \o after
  BY DEF Speech!RemoveAt
<1> HIDE DEF before, after
<1> DEFINE rest == before \o after
<1>5. /\ rest \in Seq(S) /\ Len(rest) = Len(before) + Len(after) /\ Len(after) \in Nat
      /\ \A j \in 1 .. Len(before) + Len(after) :
            rest[j] = IF j <= Len(before) THEN before[j] ELSE after[j - Len(before)]
  BY <1>2, <1>3, ConcatProperties, LenProperties
<1> HIDE DEF rest
<1>6. ASSUME i # 1 PROVE rest # <<>> /\ rest[1] = q[1]
  BY <1>1, <1>2, <1>5, <1>6, EmptySeq
<1>7. i # 1 => Head(rest) = Head(q)
  BY <1>6
<1> QED
  BY <1>4, <1>5, <1>6, <1>7 DEF rest

LEMMA OnlyOneThread ==
    ASSUME OneAtATime, NEW c \in Callers, NEW d \in Callers,
           thread[c] # "none", thread[d] # "none"
    PROVE  c = d
BY DEF OneAtATime, Speech!Holds

LEMMA CallerGoes ==
    ASSUME Types, NEW c \in Callers, NEW pc \in Speech!Pcs, Speech!Goes(c, pc)
    PROVE  /\ stream' \in [Callers -> StreamRows]
           /\ \A d \in Callers : d # c => stream'[d] = stream[d]
<1>1. stream \in [Callers -> StreamRows] /\ stream[c] \in StreamRows
  BY DEF Types
<1>2. [stream[c] EXCEPT !.pc = pc] \in StreamRows
  BY <1>1 DEF StreamRows
<1>3. stream' = [stream EXCEPT ![c] = [stream[c] EXCEPT !.pc = pc]]
  BY DEF Speech!Goes
<1> QED
  BY <1>1, <1>2, <1>3

(* What c does in its thread without ending it.                            *)
LEMMA ThreadGoesOn ==
    ASSUME ProviderInv, NEW c \in Callers, thread[c] # "none", NEW pc \in Stages,
           Speech!GoesOn(c, pc), UNCHANGED <<kind, givenUp, reported>>,
           ~givenUp => /\ pc = "using" => Sound'
                       /\ pc \in {"warm up", "set up"} => model' = c
                       /\ \/ model' = None \/ Sound' \/ pc \in {"warm up", "set up", "cpu"}
                          \/ /\ thread[c] \notin {"warm up", "set up", "cpu"}
                             /\ UNCHANGED <<model, whole>>
    PROVE  ProviderInv'
<1>1. /\ thread' \in [Callers -> Stages] /\ thread'[c] = pc
      /\ \A d \in Callers : d # c => thread'[d] = thread[d]
      /\ UNCHANGED <<stream, queue>>
  BY DEF Speech!GoesOn, ProviderInv, Types
<1>2. Types'
  BY <1>1 DEF ProviderInv, Types
<1>3. ASSUME ~givenUp PROVE OneAtATime'
  <2>1. OneAtATime
    BY <1>3 DEF ProviderInv
  <2>2. \A d \in Callers : d # c => thread[d] = "none" /\ thread'[d] = "none"
    BY <1>1, <2>1, OnlyOneThread
  <2>3. Speech!InCall(c)' /\ Speech!Holds(c)'
    BY <1>1, <2>1 DEF OneAtATime, Speech!InCall, Speech!Holds
  <2>4. \A d \in Callers : thread'[d] # "none" => Speech!InCall(d)' /\ Speech!Holds(d)'
    BY <2>2, <2>3
  <2>5. \A d \in Callers : thread'[d] = "using" => Sound'
    BY <1>1, <1>3, <2>2
  <2>6. \A d \in Callers : thread'[d] \in {"warm up", "set up"} => model' = d
    BY <1>1, <1>3, <2>2
  <2>7. \/ model' = None \/ Sound'
        \/ \E d \in Callers : thread'[d] \in {"warm up", "set up", "cpu"}
    <3>1. CASE model' = None \/ Sound' \/ pc \in {"warm up", "set up", "cpu"}
      BY <1>1, <3>1
    <3>2. CASE thread[c] \notin {"warm up", "set up", "cpu"} /\ UNCHANGED <<model, whole>>
      <4>1. model = None \/ Sound
        BY <2>1, <2>2, <3>2 DEF OneAtATime
      <4> QED
        BY <3>2, <4>1 DEF Sound
    <3> QED
      BY <1>3, <3>1, <3>2
  <2> QED
    BY <2>4, <2>5, <2>6, <2>7 DEF OneAtATime
<1> QED
  BY <1>2, <1>3 DEF ProviderInv

(* What c does to end its thread.                                          *)
LEMMA ThreadOver ==
    ASSUME ProviderInv, NEW c \in Callers, thread[c] # "none", NEW failure \in BOOLEAN,
           Speech!ThreadEnds(c, failure), UNCHANGED <<kind, model, whole, givenUp>>,
           reported' \/ (thread[c] = "using" /\ UNCHANGED reported)
    PROVE  ProviderInv'
<1>1. thread' = [thread EXCEPT ![c] = "none"] /\ Types
  BY DEF Speech!ThreadEnds, ProviderInv
<1>2. /\ thread' \in [Callers -> Stages] /\ thread'[c] = "none"
      /\ \A d \in Callers : d # c => thread'[d] = thread[d]
  BY <1>1 DEF Types, Stages
<1>3. queue' \in Seq(Callers) /\ stream' \in [Callers -> StreamRows]
  <2>1. CASE Speech!Calling(c)
    <3>1. \E pc \in Speech!Pcs : Speech!Goes(c, pc)
      BY <2>1 DEF Speech!ThreadEnds, Speech!Pcs
    <3>2. queue' = Tail(queue) /\ queue # <<>>
      BY <2>1 DEF Speech!ThreadEnds, Speech!Calling, Speech!Holds
    <3>3. queue' \in Seq(Callers)
      BY <1>1, <3>2, HeadTailProperties DEF Types
    <3> QED
      BY <1>1, <3>1, <3>3, CallerGoes
  <2>2. CASE ~Speech!Calling(c)
    <3>1. UNCHANGED <<queue, stream>>
      BY <2>2 DEF Speech!ThreadEnds
    <3> QED
      BY <1>1, <3>1 DEF Types
  <2> QED
    BY <2>1, <2>2
<1>4. ASSUME ~givenUp PROVE OneAtATime'
  <2>1. OneAtATime
    BY <1>4 DEF ProviderInv
  <2>2. \A d \in Callers : thread'[d] = "none"
    BY <1>2, <2>1, OnlyOneThread
  <2>3. Sound'
    <3>1. CASE reported'
      BY <3>1 DEF Sound
    <3>2. CASE thread[c] = "using" /\ UNCHANGED reported
      <4>1. Sound /\ UNCHANGED <<model, whole, reported>>
        BY <2>1, <3>2 DEF OneAtATime
      <4> QED
        BY <4>1 DEF Sound
    <3> QED
      BY <3>1, <3>2
  <2> QED
    BY <2>2, <2>3 DEF OneAtATime
<1> QED
  BY <1>1, <1>2, <1>3, <1>4 DEF ProviderInv, Types

(* What somebody does who has no thread, and that gives up no call.         *)
LEMMA QueueMoves ==
    ASSUME OneAtATime, NEW c \in Callers, thread[c] = "none",
           \A d \in Callers : d # c => stream'[d] = stream[d],
           \A d \in Callers : d # c /\ Speech!Holds(d) => Speech!Holds(d)',
           UNCHANGED <<thread, model, whole, reported>>
    PROVE  OneAtATime'
<1>1. \A d \in Callers : thread'[d] # "none" => Speech!InCall(d)' /\ Speech!Holds(d)'
  BY DEF OneAtATime, Speech!InCall
<1> QED
  BY <1>1 DEF OneAtATime, Sound

LEMMA ProviderMoves == ProviderInv /\ [Speech!Next]_speechVars => ProviderInv'
<1> SUFFICES ASSUME ProviderInv, [Speech!Next]_speechVars
             PROVE  ProviderInv'
  OBVIOUS
<1>0. Types /\ (~givenUp => OneAtATime)
  BY DEF ProviderInv
<1>1. ASSUME NEW c \in Callers, Speech!Hear(c) \/ Speech!Over(c)
      PROVE  ProviderInv'
  <2>1. /\ stream[c].pc = "listening" /\ UNCHANGED <<kind, thread, model, whole, reported, givenUp>>
        /\ queue' = queue \/ queue' = Append(queue, c)
    BY <1>1 DEF Speech!Hear, Speech!Over, Speech!Goes, Speech!Waits
  <2>2. /\ stream' \in [Callers -> StreamRows]
        /\ \A d \in Callers : d # c => stream'[d] = stream[d]
    <3>1. CASE Speech!Hear(c)
      <4>1. stream \in [Callers -> StreamRows] /\ stream[c] \in StreamRows
        BY <1>0 DEF Types
      <4>2. /\ [pc |-> "window", heard |-> stream[c].heard + 1] \in StreamRows
            /\ [stream[c] EXCEPT !.heard = stream[c].heard + 1] \in StreamRows
        BY <4>1 DEF StreamRows, Speech!Pcs
      <4>3. \/ stream' = [stream EXCEPT ![c] = [pc |-> "window", heard |-> stream[c].heard + 1]]
            \/ stream' = [stream EXCEPT ![c] = [stream[c] EXCEPT !.heard = stream[c].heard + 1]]
        BY <3>1 DEF Speech!Hear
      <4> QED
        BY <4>1, <4>2, <4>3
    <3>2. CASE Speech!Over(c)
      <4>1. \E pc \in Speech!Pcs : Speech!Goes(c, pc)
        BY <3>2 DEF Speech!Over, Speech!Waits, Speech!Pcs
      <4> QED
        BY <1>0, <4>1, CallerGoes
    <3> QED
      BY <1>1, <3>1, <3>2
  <2>3. /\ queue' \in Seq(Callers)
        /\ \A d \in Callers : Speech!Holds(d) => Speech!Holds(d)'
    <3>1. /\ queue \in Seq(Callers) /\ Append(queue, c) \in Seq(Callers)
          /\ queue # <<>> => Append(queue, c) # <<>> /\ Head(Append(queue, c)) = Head(queue)
      BY <1>0, SomebodyWaits DEF Types
    <3> QED
      BY <2>1, <3>1 DEF Speech!Holds
  <2>4. ~givenUp => thread[c] = "none"
    BY <1>0, <2>1 DEF OneAtATime, Speech!InCall
  <2>5. ~givenUp => OneAtATime'
    BY <1>0, <2>1, <2>2, <2>3, <2>4, QueueMoves
  <2> QED
    BY <1>0, <2>1, <2>2, <2>3, <2>5 DEF ProviderInv, Types
<1>2. ASSUME NEW c \in Callers, Speech!Acquire(c)
      PROVE  ProviderInv'
  <2>1. /\ thread' = [thread EXCEPT ![c] = "load"] /\ thread[c] = "none"
        /\ UNCHANGED <<kind, stream, queue, model, whole, reported, givenUp>>
        /\ Speech!InCall(c) /\ Speech!Holds(c)
    BY <1>2 DEF Speech!Acquire
  <2>2. Types' /\ \A d \in Callers : thread'[d] = IF d = c THEN "load" ELSE thread[d]
    BY <1>0, <2>1 DEF Types, Stages
  <2>3. ASSUME ~givenUp PROVE OneAtATime'
    <3>1. \A d \in Callers : thread'[d] # "none" => Speech!InCall(d)' /\ Speech!Holds(d)'
      BY <1>0, <2>1, <2>2, <2>3 DEF OneAtATime, Speech!InCall, Speech!Holds
    <3>2. \A d \in Callers : thread'[d] \notin {"none", "load"} => thread'[d] = thread[d]
      BY <2>2
    <3>3. \A d \in Callers : thread[d] # "none" => thread'[d] = thread[d]
      BY <2>1, <2>2
    <3>4. (Sound <=> Sound') /\ model' = model
      BY <2>1 DEF Sound
    <3> QED
      BY <1>0, <2>3, <3>1, <3>2, <3>3, <3>4 DEF OneAtATime
  <2> QED
    BY <2>1, <2>2, <2>3 DEF ProviderInv
<1>3. ASSUME NEW c \in Callers, Speech!TimesOut(c)
      PROVE  ProviderInv'
  <2>1. /\ queue # <<>> /\ queue' = Tail(queue) /\ givenUp' /\ UNCHANGED <<kind, thread>>
        /\ Speech!Goes(c, "failed")
    BY <1>3 DEF Speech!TimesOut, Speech!Calling, Speech!Holds
  <2>2. stream' \in [Callers -> StreamRows] /\ queue' \in Seq(Callers)
    BY <1>0, <2>1, CallerGoes, HeadTailProperties DEF Speech!Pcs, Types
  <2> QED
    BY <1>0, <2>1, <2>2 DEF ProviderInv, Types
<1>4. ASSUME NEW c \in Callers, Speech!Leave(c)
      PROVE  ProviderInv'
  <2>1. /\ Speech!Goes(c, "left")
        /\ \/ \E i \in DOMAIN queue : queue[i] = c /\ queue' = Speech!RemoveAt(queue, i)
           \/ UNCHANGED queue
        /\ givenUp' = (givenUp \/ Speech!Calling(c))
        /\ UNCHANGED <<kind, thread, model, whole, reported>>
    BY <1>4 DEF Speech!Leave
  <2>2. /\ stream' \in [Callers -> StreamRows]
        /\ \A d \in Callers : d # c => stream'[d] = stream[d]
    BY <1>0, <2>1, CallerGoes DEF Speech!Pcs
  <2>3. /\ queue' \in Seq(Callers)
        /\ \A d \in Callers : d # c /\ Speech!Holds(d) => Speech!Holds(d)'
    <3>1. CASE UNCHANGED queue
      BY <1>0, <3>1 DEF Types, Speech!Holds
    <3>2. ASSUME NEW i \in DOMAIN queue, queue[i] = c, queue' = Speech!RemoveAt(queue, i)
          PROVE  /\ queue' \in Seq(Callers)
                 /\ \A d \in Callers : d # c /\ Speech!Holds(d) => Speech!Holds(d)'
      <4>1. /\ queue \in Seq(Callers) /\ queue' \in Seq(Callers)
            /\ i # 1 => queue' # <<>> /\ Head(queue') = Head(queue)
        BY <1>0, <3>2, SomebodyLeaves DEF Types
      <4>2. ASSUME NEW d \in Callers, d # c, queue # <<>>, Head(queue) = d
            PROVE  i # 1
        BY <3>2, <4>1, <4>2
      <4> QED
        BY <4>1, <4>2 DEF Speech!Holds
    <3> QED
      BY <2>1, <3>1, <3>2
  <2>4. ASSUME ~givenUp' PROVE OneAtATime'
    <3>1. OneAtATime /\ thread[c] = "none"
      BY <1>0, <2>1, <2>4 DEF OneAtATime, Speech!Calling
    <3> QED
      BY <2>1, <2>2, <2>3, <3>1, QueueMoves
  <2> QED
    BY <1>0, <2>1, <2>2, <2>3, <2>4 DEF ProviderInv, Types
<1>5. ASSUME NEW c \in Callers, Speech!Load(c)
      PROVE  ProviderInv'
  <2>1. PICK pc \in {"cuda", "cpu", "session"} : Speech!GoesOn(c, pc)
    BY <1>0, <1>5 DEF Speech!Load, Types
  <2>2. thread[c] = "load" /\ UNCHANGED <<kind, model, whole, reported, givenUp>>
    BY <1>5 DEF Speech!Load
  <2> QED
    BY <2>1, <2>2, ThreadGoesOn DEF Stages
<1>6. ASSUME NEW c \in Callers, Speech!AlreadyLoaded(c)
      PROVE  ProviderInv'
  <2>1. /\ thread[c] = "load" /\ model # None /\ Speech!GoesOn(c, "using")
        /\ UNCHANGED <<kind, model, whole, reported, givenUp>>
    BY <1>6 DEF Speech!AlreadyLoaded
  <2>2. ASSUME ~givenUp PROVE Sound
    <3>1. OneAtATime
      BY <1>0, <2>2
    <3>2. \A d \in Callers : thread[d] # "none" => d = c
      BY <2>1, <3>1, OnlyOneThread
    <3> QED
      BY <2>1, <3>1, <3>2 DEF OneAtATime
  <2>3. ~givenUp => Sound'
    BY <2>1, <2>2 DEF Sound
  <2> QED
    BY <2>1, <2>3, ThreadGoesOn DEF Stages
<1>7. ASSUME NEW c \in Callers, Speech!LoadFails(c)
      PROVE  ProviderInv'
  BY <1>7, ThreadOver DEF Speech!LoadFails
<1>8. ASSUME NEW c \in Callers, Speech!HalfMade(c)
      PROVE  ProviderInv'
  <2>1. PICK pc \in {"warm up", "set up"} : Speech!GoesOn(c, pc)
    BY <1>8 DEF Speech!HalfMade
  <2>2. thread[c] # "none" /\ model' = c /\ UNCHANGED <<kind, reported, givenUp>>
    BY <1>8 DEF Speech!HalfMade
  <2> QED
    BY <2>1, <2>2, ThreadGoesOn DEF Stages
<1>9. ASSUME NEW c \in Callers, Speech!WarmedUp(c) \/ Speech!SetUp(c)
      PROVE  ProviderInv'
  <2>1. /\ thread[c] \in {"warm up", "set up"} /\ Speech!GoesOn(c, "using")
        /\ whole' = whole \cup {c} /\ UNCHANGED <<kind, model, reported, givenUp>>
    BY <1>9 DEF Speech!WarmedUp, Speech!SetUp
  <2>2. ~givenUp => Sound'
    BY <1>0, <2>1 DEF OneAtATime, Sound
  <2> QED
    BY <2>1, <2>2, ThreadGoesOn DEF Stages
<1>10. ASSUME NEW c \in Callers, Speech!CudaFails(c)
      PROVE  ProviderInv'
  <2>1. thread[c] # "none" /\ Speech!GoesOn(c, "cpu") /\ UNCHANGED <<kind, reported, givenUp>>
    BY <1>10 DEF Speech!CudaFails
  <2> QED
    BY <2>1, ThreadGoesOn DEF Stages
<1>11. ASSUME NEW c \in Callers, Speech!MadeAtOnce(c)
      PROVE  ProviderInv'
  <2>1. /\ thread[c] # "none" /\ Speech!GoesOn(c, "using") /\ model' = c /\ c \in whole'
        /\ UNCHANGED <<kind, reported, givenUp>>
    BY <1>11 DEF Speech!MadeAtOnce
  <2>2. Sound'
    BY <2>1 DEF Sound
  <2> QED
    BY <2>1, <2>2, ThreadGoesOn DEF Stages
<1>12. ASSUME NEW c \in Callers, Speech!Used(c)
      PROVE  ProviderInv'
  BY <1>12, ThreadOver DEF Speech!Used
<1>13. CASE UNCHANGED speechVars
  BY <1>0, <1>13 DEF speechVars, ProviderInv, Types, OneAtATime, Sound, Speech!InCall, Speech!Holds
<1> QED
  BY <1>1, <1>2, <1>3, <1>4, <1>5, <1>6, <1>7, <1>8, <1>9, <1>10, <1>11, <1>12, <1>13
  DEF Speech!Next

(***************************************************************************)
(* The lock stands for the model while nobody gives up a call: one thread  *)
(* at a time uses it, and what it uses was made whole or reported          *)
(* (_ensure_loaded), for any number of callers.                            *)
(***************************************************************************)
THEOREM TheLockStandsForTheModel == Spec => []WholeModelsOneAtATime
<1>1. Init => ProviderInv
  <2> SUFFICES ASSUME Speech!Init PROVE ProviderInv
    BY DEF Init
  <2>1. Types
    BY EmptySeq DEF Speech!Init, Types, StreamRows, Speech!Pcs, Stages
  <2>2. OneAtATime
    BY DEF Speech!Init, OneAtATime
  <2> QED
    BY <2>1, <2>2 DEF ProviderInv
<1>2. ProviderInv /\ [Next]_vars => ProviderInv'
  BY EachPartByItself, ProviderMoves
<1>3. ProviderInv => WholeModelsOneAtATime
  <2>1. OneAtATime => /\ \A c, d \in Callers : thread[c] # "none" /\ thread[d] # "none" => c = d
                      /\ (\E c \in Callers : thread[c] = "using") => Sound
    BY OnlyOneThread DEF OneAtATime
  <2> QED
    BY <2>1 DEF ProviderInv, WholeModelsOneAtATime, Speech!WholeModelsOneAtATime, Sound
<1> QED
  BY <1>1, <1>2, <1>3, PTL DEF Spec

-----------------------------------------------------------------------------
(* The conversation *)

(***************************************************************************)
(* NothingFromLater is not inductive: what a turn begins with is a copy of *)
(* what the manager has, which must come from the turns there are.         *)
(***************************************************************************)
Fields == {"index", "referents", "history", "background", "action"}
Notes == [tool : Conversation!Tools \cup {"none", "named"}, turn : Nat]
Closings == [turn : Nat, status : {"completed", "interrupted"}]

IsContext(c) ==
    /\ c = [f \in Fields |-> c[f]]
    /\ c.referents \in [Conversation!Slots -> Notes] /\ c.history \in Seq(Closings)

FromBefore(n, notes, closings) ==
    /\ \A s \in Conversation!Slots : notes[s].turn <= n
    /\ \A i \in DOMAIN closings : closings[i].turn < n

ContextsInv ==
    /\ \E S : contexts \in Seq(S)
    /\ \A c \in DOMAIN contexts : /\ IsContext(contexts[c])
                                  /\ FromBefore(c, contexts[c].referents, contexts[c].history)

ManagerInv ==
    /\ current \in 0 .. Len(contexts)
    /\ referents \in [Conversation!Slots -> Notes] /\ history \in Seq(Closings)
    /\ FromBefore(Len(contexts) + 1, referents, history)

ConversationInv == ContextsInv /\ ManagerInv

LEMMA UpdatedNotes ==
    ASSUME NEW old \in [Conversation!Slots -> Notes], NEW named, NEW r \in Notes
    PROVE  /\ Conversation!Updated(old, named, r) \in [Conversation!Slots -> Notes]
           /\ \A s \in Conversation!Slots :
                 Conversation!Updated(old, named, r)[s] \in {old[s], r}
BY DEF Conversation!Updated

(* A note goes to the context of its own turn.                             *)
LEMMA NoteIsKept ==
    ASSUME ContextsInv, NEW c \in 0 .. Len(contexts), NEW named,
           NEW r \in Notes, r.turn = c,
           contexts' = Conversation!Noted(c, named, r)
    PROVE  ContextsInv' /\ Len(contexts') = Len(contexts) /\ Conversation!OwnNotesOnly
<1>1. CASE c = 0
  <2>1. contexts' = contexts
    BY <1>1 DEF Conversation!Noted
  <2>2. Conversation!OwnNotesOnly
    BY <2>1 DEF Conversation!OwnNotesOnly, ContextsInv, IsContext, Fields
  <2> QED
    BY <2>1, <2>2 DEF ContextsInv
<1>2. CASE c # 0
  <2>1. PICK S : contexts \in Seq(S)
    BY DEF ContextsInv
  <2> DEFINE notes == Conversation!Updated(contexts[c].referents, named, r)
             new == [contexts[c] EXCEPT !.referents = notes]
  <2>2. c \in 1 .. Len(contexts) /\ DOMAIN contexts = 1 .. Len(contexts)
    BY <1>2, <2>1, LenProperties
  <2>3. contexts' = [contexts EXCEPT ![c] = new]
    BY <1>2 DEF Conversation!Noted
  <2>4. IsContext(contexts[c])
    BY <2>2 DEF ContextsInv
  <2>5. /\ notes \in [Conversation!Slots -> Notes]
        /\ \A s \in Conversation!Slots : notes[s] \in {contexts[c].referents[s], r}
    BY <2>4, UpdatedNotes DEF IsContext
  <2>6. /\ new.referents = notes /\ new.history = contexts[c].history
        /\ IsContext(new)
    BY <2>4, <2>5 DEF IsContext, Fields
  <2> HIDE DEF notes, new
  <2>7. contexts \in Seq(S \cup {new}) /\ new \in S \cup {new}
    BY <2>1, SeqMonotonic
  <2>8. contexts' \in Seq(S \cup {new}) /\ Len(contexts') = Len(contexts)
    BY <2>2, <2>3, <2>7, ExceptSeq
  <2>9. /\ DOMAIN contexts' = DOMAIN contexts
        /\ \A d \in DOMAIN contexts : contexts'[d] = IF d = c THEN new ELSE contexts[d]
    BY <2>2, <2>3
  <2>10. FromBefore(c, notes, new.history)
    <3>1. FromBefore(c, contexts[c].referents, contexts[c].history)
      BY <2>2 DEF ContextsInv
    <3>2. \A s \in Conversation!Slots : notes[s].turn <= c
      <4> SUFFICES ASSUME NEW s \in Conversation!Slots PROVE notes[s].turn <= c
        OBVIOUS
      <4>1. notes[s] = contexts[c].referents[s] \/ notes[s] = r
        BY <2>5
      <4>2. contexts[c].referents[s].turn <= c /\ r.turn <= c
        BY <2>2, <3>1 DEF FromBefore
      <4> QED
        BY <4>1, <4>2
    <3> QED
      BY <2>6, <3>1, <3>2 DEF FromBefore
  <2>11. ContextsInv'
    <3>1. \E T : contexts' \in Seq(T)
      BY <2>8
    <3>2. \A d \in DOMAIN contexts' :
             IsContext(contexts'[d]) /\ FromBefore(d, contexts'[d].referents, contexts'[d].history)
      <4> SUFFICES ASSUME NEW d \in DOMAIN contexts
                   PROVE  /\ IsContext(contexts'[d])
                          /\ FromBefore(d, contexts'[d].referents, contexts'[d].history)
        BY <2>9
      <4>1. CASE d = c
        BY <2>6, <2>9, <2>10, <4>1
      <4>2. CASE d # c
        BY <2>9, <4>2 DEF ContextsInv
      <4> QED
        BY <4>1, <4>2
    <3> QED
      BY <3>1, <3>2 DEF ContextsInv
  <2>12. Conversation!OwnNotesOnly
    <3> SUFFICES ASSUME NEW d \in DOMAIN contexts
                 PROVE  /\ [contexts[d] EXCEPT !.referents = contexts'[d].referents] = contexts'[d]
                        /\ \A s \in Conversation!Slots :
                              contexts[d].referents[s] # contexts'[d].referents[s]
                              => contexts'[d].referents[s].turn = d
      BY DEF Conversation!OwnNotesOnly
    <3>1. CASE d = c
      <4>1. contexts'[d] = new /\ new.referents = notes
        BY <2>6, <2>9, <3>1
      <4>2. [contexts[d] EXCEPT !.referents = notes] = new
        BY <3>1 DEF new
      <4>3. ASSUME NEW s \in Conversation!Slots, contexts[d].referents[s] # notes[s]
            PROVE  notes[s].turn = d
        BY <2>5, <3>1, <4>3
      <4> QED
        BY <4>1, <4>2, <4>3
    <3>2. CASE d # c
      <4>1. contexts'[d] = contexts[d] /\ IsContext(contexts[d])
        BY <2>9, <3>2 DEF ContextsInv
      <4> QED
        BY <4>1 DEF IsContext, Fields
    <3> QED
      BY <3>1, <3>2
  <2> QED
    BY <2>8, <2>11, <2>12
<1> QED
  BY <1>1, <1>2

LEMMA ContextsStay ==
    ASSUME ContextsInv, contexts' = contexts
    PROVE  ContextsInv' /\ Len(contexts') = Len(contexts) /\ Conversation!OwnNotesOnly
BY DEF ContextsInv, Conversation!OwnNotesOnly, IsContext, Fields

LEMMA TurnStarts ==
    ASSUME ConversationInv, NEW said, NEW planned, Conversation!StartTurn(said, planned)
    PROVE  ConversationInv' /\ Conversation!OwnNotesOnly
<1>1. PICK S : contexts \in Seq(S)
  BY DEF ConversationInv, ContextsInv
<1> DEFINE n == Len(contexts) + 1
           fresh == [index |-> counter + 1, referents |-> referents, history |-> history,
                     background |-> background', action |-> "none"]
           new == [fresh EXCEPT !.action = Conversation!Decide(said, planned, fresh)]
<1>2. /\ contexts' = Append(contexts, new) /\ current' = n
      /\ UNCHANGED <<referents, history>>
  BY DEF Conversation!StartTurn
<1> HIDE DEF new
<1>3. new.referents = referents /\ new.history = history /\ IsContext(new)
  BY DEF ConversationInv, ManagerInv, IsContext, Fields, new
<1>4. contexts \in Seq(S \cup {new}) /\ new \in S \cup {new}
  BY <1>1, SeqMonotonic
<1>5. /\ contexts' \in Seq(S \cup {new}) /\ Len(contexts') = n
      /\ DOMAIN contexts = 1 .. Len(contexts) /\ DOMAIN contexts' = 1 .. n
      /\ Len(contexts) \in Nat
      /\ \A d \in 1 .. Len(contexts) : contexts'[d] = contexts[d]
      /\ contexts'[n] = new
  BY <1>2, <1>4, AppendProperties, LenProperties
<1>6. \A s \in Conversation!Slots : referents[s].turn \in Nat
  BY DEF ConversationInv, ManagerInv, Notes
<1>7. \A i \in DOMAIN history : history[i].turn \in Nat
  <2>1. history \in Seq(Closings)
    BY DEF ConversationInv, ManagerInv
  <2>2. \A i \in DOMAIN history : history[i] \in Closings
    BY <2>1, ElementOfSeq, LenProperties
  <2> QED
    BY <2>2 DEF Closings
<1>8. ContextsInv'
  <2> SUFFICES ASSUME NEW d \in 1 .. n
               PROVE  /\ IsContext(contexts'[d])
                      /\ FromBefore(d, contexts'[d].referents, contexts'[d].history)
    BY <1>5 DEF ContextsInv
  <2>1. CASE d = n
    BY <1>3, <1>5, <2>1 DEF ConversationInv, ManagerInv, FromBefore
  <2>2. CASE d # n
    BY <1>5, <2>2 DEF ConversationInv, ContextsInv
  <2> QED
    BY <2>1, <2>2
<1>9. ManagerInv'
  BY <1>2, <1>5, <1>6, <1>7 DEF ConversationInv, ManagerInv, FromBefore
<1>10. Conversation!OwnNotesOnly
  BY <1>5 DEF Conversation!OwnNotesOnly, ConversationInv, ContextsInv, IsContext, Fields
<1> QED
  BY <1>8, <1>9, <1>10 DEF ConversationInv

(* Any number of notes: what a tool or a caller recorded for its turn.     *)
LEMMA NoteMoves ==
    ASSUME ConversationInv, NEW c \in 0 .. Len(contexts), NEW named, NEW r \in Notes,
           r.turn = c, referents' = Conversation!Updated(referents, named, r),
           UNCHANGED <<current, history>>,
           ContextsInv', Len(contexts') = Len(contexts)
    PROVE  ConversationInv'
<1>1. /\ referents' \in [Conversation!Slots -> Notes]
      /\ \A s \in Conversation!Slots : referents'[s] \in {referents[s], r}
  BY UpdatedNotes DEF ConversationInv, ManagerInv
<1>2. PICK S : contexts \in Seq(S)
  BY DEF ConversationInv, ContextsInv
<1>3. Len(contexts) \in Nat
  BY <1>2, LenProperties
<1>4. FromBefore(Len(contexts) + 1, referents', history)
  <2>1. FromBefore(Len(contexts) + 1, referents, history)
    BY DEF ConversationInv, ManagerInv
  <2>2. \A s \in Conversation!Slots : referents'[s].turn <= Len(contexts) + 1
    <3> SUFFICES ASSUME NEW s \in Conversation!Slots
                 PROVE  referents'[s].turn <= Len(contexts) + 1
      OBVIOUS
    <3>1. referents'[s] = referents[s] \/ referents'[s] = r
      BY <1>1
    <3>2. referents[s].turn <= Len(contexts) + 1 /\ r.turn <= Len(contexts) + 1
      BY <1>3, <2>1 DEF FromBefore
    <3> QED
      BY <3>1, <3>2
  <2> QED
    BY <2>1, <2>2 DEF FromBefore
<1> QED
  BY <1>1, <1>4 DEF ConversationInv, ManagerInv

LEMMA TurnCloses ==
    ASSUME ConversationInv, NEW c \in 0 .. Len(contexts),
           NEW status \in {"completed", "interrupted"}, Conversation!Close(c, status)
    PROVE  ConversationInv' /\ Conversation!OwnNotesOnly
<1> DEFINE turn == IF c # 0 THEN c ELSE current
           record == [turn |-> turn, status |-> status]
           all == Append(history, record)
<1>1. PICK S : contexts \in Seq(S)
  BY DEF ConversationInv, ContextsInv
<1>2. Len(contexts) \in Nat /\ history \in Seq(Closings) /\ current \in 0 .. Len(contexts)
  BY <1>1, LenProperties DEF ConversationInv, ManagerInv
<1>3. /\ history' = IF Len(all) > MaxHistory THEN Tail(all) ELSE all
      /\ current' = 0 /\ contexts' = contexts /\ referents' = referents
  BY DEF Conversation!Close
<1>4. record \in Closings /\ record.turn <= Len(contexts)
  BY <1>2 DEF Closings
<1> HIDE DEF record
<1>5. /\ all \in Seq(Closings) /\ Len(all) = Len(history) + 1 /\ Len(history) \in Nat
      /\ all[Len(history) + 1] = record
      /\ \A i \in 1 .. Len(history) : all[i] = history[i]
      /\ DOMAIN history = 1 .. Len(history) /\ DOMAIN all = 1 .. Len(history) + 1
  BY <1>2, <1>4, AppendProperties, LenProperties
<1> HIDE DEF all
<1>6. \A i \in DOMAIN all : all[i].turn < Len(contexts) + 1
  <2> SUFFICES ASSUME NEW i \in DOMAIN all PROVE all[i].turn < Len(contexts) + 1
    OBVIOUS
  <2>1. CASE i = Len(history) + 1
    BY <1>2, <1>4, <1>5, <2>1 DEF Closings
  <2>2. CASE i # Len(history) + 1
    <3>1. i \in DOMAIN history /\ all[i] = history[i]
      BY <1>5, <2>2
    <3> QED
      BY <3>1 DEF ConversationInv, ManagerInv, FromBefore
  <2> QED
    BY <2>1, <2>2
<1>7. all # <<>>
  BY <1>5
<1>8. /\ Tail(all) \in Seq(Closings)
      /\ DOMAIN Tail(all) = 1 .. Len(history)
      /\ \A i \in 1 .. Len(history) : Tail(all)[i] = all[i + 1]
  BY <1>5, <1>7, HeadTailProperties, LenProperties
<1>9. \A i \in DOMAIN Tail(all) : Tail(all)[i].turn < Len(contexts) + 1
  BY <1>5, <1>6, <1>8
<1>10. history' \in Seq(Closings) /\ \A i \in DOMAIN history' : history'[i].turn < Len(contexts) + 1
  BY <1>3, <1>5, <1>6, <1>8, <1>9
<1>11. ContextsInv' /\ Len(contexts') = Len(contexts) /\ Conversation!OwnNotesOnly
  BY <1>3, ContextsStay DEF ConversationInv
<1>12. ManagerInv'
  <2>1. /\ referents \in [Conversation!Slots -> Notes]
        /\ \A s \in Conversation!Slots : referents[s].turn <= Len(contexts) + 1
    BY DEF ConversationInv, ManagerInv, FromBefore
  <2>2. FromBefore(Len(contexts) + 1, referents, history')
    BY <1>10, <2>1 DEF FromBefore
  <2>3. current' \in 0 .. Len(contexts)
    BY <1>2, <1>3
  <2> QED
    BY <1>3, <1>10, <1>11, <2>1, <2>2, <2>3 DEF ManagerInv
<1> QED
  BY <1>11, <1>12 DEF ConversationInv

LEMMA ConversationMoves ==
    ASSUME ConversationInv, [Conversation!Next]_conversationVars
    PROVE  ConversationInv' /\ Conversation!OwnNotesOnly
<1>0. contexts' = contexts => ContextsInv' /\ Len(contexts') = Len(contexts) /\ Conversation!OwnNotesOnly
  BY ContextsStay DEF ConversationInv
<1>a. UNCHANGED <<contexts, current, referents, history>>
      => ConversationInv' /\ Conversation!OwnNotesOnly
  BY <1>0 DEF ConversationInv, ManagerInv
<1>1. ASSUME NEW said, NEW planned, Conversation!StartTurn(said, planned)
      PROVE  ConversationInv' /\ Conversation!OwnNotesOnly
  BY <1>1, TurnStarts
<1>2. ASSUME NEW c \in 0 .. Len(contexts), NEW tool \in Conversation!Tools, NEW named \in BOOLEAN,
             Conversation!RecordToolCall(c, tool, named)
      PROVE  ConversationInv' /\ Conversation!OwnNotesOnly
  <2> DEFINE r == [tool |-> tool, turn |-> c]
  <2>1. PICK S : contexts \in Seq(S)
    BY DEF ConversationInv, ContextsInv
  <2>2. r \in Notes /\ r.turn = c
    BY <2>1, LenProperties DEF Notes
  <2>3. CASE tool \in DOMAIN Conversation!Rule /\ named
    <3>1. /\ referents' = Conversation!Updated(referents, {"last_tool", Conversation!Rule[tool]}, r)
          /\ contexts' = Conversation!Noted(c, {"last_tool", Conversation!Rule[tool]}, r)
          /\ UNCHANGED <<current, history>>
      BY <1>2, <2>3 DEF Conversation!RecordToolCall
    <3> HIDE DEF r
    <3>2. ContextsInv' /\ Len(contexts') = Len(contexts) /\ Conversation!OwnNotesOnly
      BY <2>2, <3>1, NoteIsKept DEF ConversationInv
    <3> QED
      BY <2>2, <3>1, <3>2, NoteMoves
  <2>4. CASE ~(tool \in DOMAIN Conversation!Rule /\ named)
    <3>1. /\ referents' = Conversation!Updated(referents, {"last_tool"}, r)
          /\ UNCHANGED <<contexts, current, history>>
      BY <1>2, <2>4 DEF Conversation!RecordToolCall
    <3> HIDE DEF r
    <3> QED
      BY <1>0, <2>2, <3>1, NoteMoves
  <2> QED
    BY <2>3, <2>4
<1>3. ASSUME NEW c \in 0 .. Len(contexts), Conversation!RegisterReferent(c)
      PROVE  ConversationInv' /\ Conversation!OwnNotesOnly
  <2> DEFINE r == [tool |-> "named", turn |-> c]
  <2>1. PICK S : contexts \in Seq(S)
    BY DEF ConversationInv, ContextsInv
  <2>2. r \in Notes /\ r.turn = c
    BY <2>1, LenProperties DEF Notes
  <2>3. /\ referents' = Conversation!Updated(referents, {"named"}, r)
        /\ contexts' = Conversation!Noted(c, {"named"}, r)
        /\ UNCHANGED <<current, history>>
    BY <1>3 DEF Conversation!RegisterReferent
  <2> HIDE DEF r
  <2>4. ContextsInv' /\ Len(contexts') = Len(contexts) /\ Conversation!OwnNotesOnly
    BY <2>2, <2>3, NoteIsKept DEF ConversationInv
  <2> QED
    BY <2>2, <2>3, <2>4, NoteMoves
<1>4. ASSUME NEW c \in 0 .. Len(contexts), NEW status \in {"completed", "interrupted"},
             Conversation!Close(c, status)
      PROVE  ConversationInv' /\ Conversation!OwnNotesOnly
  BY <1>4, TurnCloses
<1>5. ASSUME NEW ms, Conversation!RecordToolTiming("shell.run", ms)
      PROVE  ConversationInv' /\ Conversation!OwnNotesOnly
  BY <1>a, <1>5 DEF Conversation!RecordToolTiming
<1>6. ASSUME NEW t, Conversation!TaskBegins(t) \/ Conversation!TaskEnds(t)
      PROVE  ConversationInv' /\ Conversation!OwnNotesOnly
  BY <1>a, <1>6 DEF Conversation!TaskBegins, Conversation!TaskEnds
<1>7. CASE Conversation!SyncBackgroundTasks
  BY <1>a, <1>7 DEF Conversation!SyncBackgroundTasks
<1>8. CASE Conversation!Reset
  <2>1. /\ history' = <<>> /\ referents' = [s \in Conversation!Slots |-> Conversation!Nothing]
        /\ current' = 0 /\ contexts' = contexts
    BY <1>8 DEF Conversation!Reset
  <2>2. PICK S : contexts \in Seq(S)
    BY DEF ConversationInv, ContextsInv
  <2>3. Len(contexts) \in Nat /\ <<>> \in Seq(Closings) /\ DOMAIN <<>> = {}
    BY <2>2, LenProperties, EmptySeq
  <2>4. ManagerInv'
    BY <1>0, <2>1, <2>3 DEF ManagerInv, FromBefore, Notes, Conversation!Nothing, Conversation!NoTool
  <2> QED
    BY <1>0, <2>1, <2>4 DEF ConversationInv
<1>9. CASE UNCHANGED conversationVars
  BY <1>a, <1>9 DEF conversationVars
<1> QED
  BY <1>1, <1>2, <1>3, <1>4, <1>5, <1>6, <1>7, <1>8, <1>9 DEF Conversation!Next

(***************************************************************************)
(* The context of a turn is its own (start_turn, record_tool_call,         *)
(* register_referent, _close, reset): it changes only by what is recorded  *)
(* for that turn and holds nothing of a later one, for any number of turns *)
(* that outlive each other and any bound on the history.                   *)
(***************************************************************************)
THEOREM ContextsAreTheirOwn == Spec => TurnsKeepTheirContext
<1>1. Init => ConversationInv
  <2> SUFFICES ASSUME Conversation!Init PROVE ConversationInv
    BY DEF Init
  <2>1. /\ contexts = <<>> /\ current = 0 /\ history = <<>>
        /\ referents = [s \in Conversation!Slots |-> Conversation!Nothing]
    BY DEF Conversation!Init
  <2>2. contexts \in Seq({}) /\ history \in Seq(Closings) /\ Len(contexts) = 0 /\ DOMAIN <<>> = {}
    BY <2>1, EmptySeq
  <2>3. ContextsInv
    BY <2>1, <2>2 DEF ContextsInv
  <2>4. ManagerInv
    BY <2>1, <2>2 DEF ManagerInv, FromBefore, Notes, Conversation!Nothing, Conversation!NoTool
  <2> QED
    BY <2>3, <2>4 DEF ConversationInv
<1>2. ConversationInv /\ [Next]_vars => ConversationInv' /\ [Conversation!OwnNotesOnly]_(Conversation!vars)
  BY EachPartByItself, ConversationMoves
<1>3. ConversationInv => Conversation!NothingFromLater
  <2> SUFFICES ASSUME ConversationInv, NEW c \in DOMAIN contexts
               PROVE  /\ \A s \in Conversation!Slots : contexts[c].referents[s].turn <= c
                      /\ \A r \in Conversation!ToSet(contexts[c].history) : r.turn < c
    BY DEF Conversation!NothingFromLater
  <2>1. FromBefore(c, contexts[c].referents, contexts[c].history)
    BY DEF ConversationInv, ContextsInv
  <2> QED
    BY <2>1 DEF FromBefore, Conversation!ToSet
<1> QED
  BY <1>1, <1>2, <1>3, PTL
  DEF Spec, TurnsKeepTheirContext, Conversation!TurnsKeepTheirContext

-----------------------------------------------------------------------------
(* The cutting into pieces *)

(* Induction, for sets: what holds of some number holds of a least one.     *)
LEMMA Least ==
    ASSUME NEW T, T \subseteq Nat, T # {}
    PROVE  \E n \in T : \A m \in T : n <= m
<1>1. PICK n \in T : \A m \in T : <<m, n>> \notin OpToRel(<, Nat)
  BY WFMin, NatLessThanWellFounded, Zenon
<1>2. \A m \in T : ~(m < n)
  BY <1>1, Zenon DEF OpToRel
<1> QED
  BY <1>2

(* What holds of 0, and with a number of the next, holds of all up to n.    *)
LEMMA UpTo ==
    ASSUME NEW n \in Nat, NEW T, 0 \in T, \A i \in 1 .. n : i - 1 \in T => i \in T
    PROVE  \A i \in 0 .. n : i \in T
<1> DEFINE F == {i \in 0 .. n : i \notin T}
<1> SUFFICES ASSUME F # {} PROVE FALSE
  OBVIOUS
<1>1. PICK k \in F : \A i \in F : k <= i
  <2>1. F \subseteq Nat
    OBVIOUS
  <2> HIDE DEF F
  <2> QED
    BY <2>1, Least
<1>2. k \in 1 .. n /\ k \notin T /\ k - 1 \in 0 .. n /\ ~(k <= k - 1)
  BY <1>1
<1>3. k - 1 \in T
  BY <1>1, <1>2
<1> QED
  BY <1>2, <1>3

(* A function on 0 .. n is there when each value follows from the last.     *)
Runs(g, n, S, x, step) ==
    g \in [0 .. n -> S] /\ g[0] = x /\ \A i \in 1 .. n : g[i] = step[i][g[i - 1]]
Steps(n, S) == [1 .. n -> [S -> S]]

LEMMA Recursion ==
    \A S : \A n \in Nat : \A x \in S : \A step \in Steps(n, S) : \E g : Runs(g, n, S, x, step)
<1> SUFFICES ASSUME NEW S, NEW n \in Nat, NEW x \in S, NEW step \in Steps(n, S)
             PROVE  \E g : Runs(g, n, S, x, step)
  OBVIOUS
<1> USE DEF Steps
<1> DEFINE Can(k) == \E g \in [0 .. k -> S] :
                        g[0] = x /\ \A i \in 1 .. k : g[i] = step[i][g[i - 1]]
           T == {k \in 0 .. n : Can(k)}
<1>1. Can(0)
  <2> DEFINE g == [k \in 0 .. 0 |-> x]
  <2>1. g \in [0 .. 0 -> S] /\ g[0] = x
    OBVIOUS
  <2> HIDE DEF g
  <2> QED
    BY <2>1
<1>2. ASSUME NEW k \in 1 .. n, Can(k - 1) PROVE Can(k)
  <2>1. PICK g \in [0 .. k - 1 -> S] :
          g[0] = x /\ \A i \in 1 .. k - 1 : g[i] = step[i][g[i - 1]]
    BY <1>2
  <2> DEFINE h == [i \in 0 .. k |-> IF i = k THEN step[k][g[k - 1]] ELSE g[i]]
  <2>2. k \in Nat /\ k - 1 \in 0 .. k - 1 /\ \A i \in 0 .. k : i # k => i \in 0 .. k - 1
    OBVIOUS
  <2>3. h \in [0 .. k -> S]
    BY <2>2
  <2>4. h[0] = x /\ \A i \in 1 .. k : h[i] = step[i][h[i - 1]]
    <3>1. /\ h[k] = step[k][g[k - 1]]
          /\ \A i \in 0 .. k - 1 : h[i] = g[i]
      BY <2>2
    <3> HIDE DEF h
    <3>2. h[0] = x
      BY <2>1, <3>1
    <3>3. ASSUME NEW i \in 1 .. k PROVE h[i] = step[i][h[i - 1]]
      <4>1. CASE i = k
        BY <2>2, <3>1, <4>1
      <4>2. CASE i # k
        <5>1. i \in 1 .. k - 1 /\ i \in 0 .. k - 1 /\ i - 1 \in 0 .. k - 1
          BY <2>2, <4>2
        <5> QED
          BY <2>1, <3>1, <5>1
      <4> QED
        BY <4>1, <4>2
    <3> QED
      BY <3>2, <3>3
  <2> HIDE DEF h
  <2> QED
    BY <2>3, <2>4
<1> HIDE DEF Can
<1>3. 0 \in T /\ \A i \in 1 .. n : i - 1 \in T => i \in T
  BY <1>1, <1>2
<1>4. n \in T
  <2>1. n \in 0 .. n
    OBVIOUS
  <2> HIDE DEF T
  <2> QED
    BY <1>3, <2>1, UpTo
<1> QED
  BY <1>4 DEF Can, Runs

LEMMA MinMax ==
    ASSUME NEW T, T \subseteq Nat, T # {}, NEW n \in Nat, \A k \in T : k <= n
    PROVE  /\ Sentences!Min(T) \in T /\ \A k \in T : Sentences!Min(T) <= k
           /\ Sentences!Max(T) \in T /\ \A k \in T : k <= Sentences!Max(T)
<1>1. \E k \in T : \A m \in T : k <= m
  BY Least
<1>2. \E k \in T : \A m \in T : m <= k
  <2> DEFINE U == {n - k : k \in T}
  <2>1. U \subseteq Nat /\ U # {}
    <3>1. \A k \in T : k \in Nat /\ k <= n
      OBVIOUS
    <3>2. \A k \in T : n - k \in Nat
      BY <3>1
    <3> QED
      BY <3>2
  <2>2. PICK u \in U : \A v \in U : u <= v
    <3> HIDE DEF U
    <3> QED
      BY <2>1, Least
  <2>3. PICK k \in T : u = n - k
    OBVIOUS
  <2>4. \A m \in T : n - k <= n - m
    BY <2>2, <2>3
  <2>5. \A m \in T : m <= k
    BY <2>4
  <2> QED
    BY <2>5
<1> QED
  BY <1>1, <1>2 DEF Sentences!Min, Sentences!Max

Written == Seq(Sentences!Kinds)

LEMMA Inks ==
    ASSUME NEW t \in Written, NEW i \in Nat \ {0}, NEW j \in 0 .. Len(t), Sentences!Inked(t, i, j) # {}
    PROVE  LET ink == Sentences!Inked(t, i, j)
           IN  /\ Sentences!Min(ink) \in ink /\ \A k \in ink : Sentences!Min(ink) <= k
               /\ Sentences!Max(ink) \in ink /\ \A k \in ink : k <= Sentences!Max(ink)
               /\ ink \subseteq i .. j /\ Len(t) \in Nat /\ DOMAIN t = 1 .. Len(t)
<1> DEFINE ink == Sentences!Inked(t, i, j)
<1>1. Len(t) \in Nat /\ DOMAIN t = 1 .. Len(t)
  BY LenProperties DEF Written
<1>2. ink \subseteq i .. j /\ ink # {}
  BY DEF Sentences!Inked
<1>3. ink \subseteq Nat /\ j \in Nat /\ \A k \in ink : k <= j
  BY <1>1, <1>2
<1> HIDE DEF ink
<1> QED
  BY <1>1, <1>2, <1>3, MinMax DEF ink

(* str.strip *)
LEMMA Stripped ==
    ASSUME NEW t \in Written, NEW i \in Nat \ {0}, NEW j \in 0 .. Len(t)
    PROVE  /\ Sentences!Strip(t, i, j) \in Written
           /\ Sentences!Strip(t, i, j) = <<>> <=> Sentences!Inked(t, i, j) = {}
           /\ Sentences!Inked(t, i, j) # {} =>
                \E b, e \in Sentences!Inked(t, i, j) :
                   /\ b \in i .. j /\ e \in b .. j
                   /\ \A k \in Sentences!Inked(t, i, j) : b <= k /\ k <= e
                   /\ Sentences!Strip(t, i, j) = SubSeq(t, b, e)
                   /\ Len(Sentences!Strip(t, i, j)) = e - b + 1
                   /\ \A k \in 1 .. e - b + 1 : Sentences!Strip(t, i, j)[k] = t[b + k - 1]
<1>1. CASE Sentences!Inked(t, i, j) = {}
  BY <1>1, EmptySeq DEF Sentences!Strip, Written
<1>2. CASE Sentences!Inked(t, i, j) # {}
  <2> DEFINE ink == Sentences!Inked(t, i, j)
             b == Sentences!Min(ink)
             e == Sentences!Max(ink)
             piece == SubSeq(t, b, e)
  <2>1. /\ b \in ink /\ e \in ink /\ \A k \in ink : b <= k /\ k <= e
        /\ ink \subseteq i .. j /\ Len(t) \in Nat /\ DOMAIN t = 1 .. Len(t)
    BY <1>2, Inks
  <2>2. Sentences!Strip(t, i, j) = piece
    BY <1>2 DEF Sentences!Strip
  <2> HIDE DEF ink, b, e
  <2>3. b \in i .. j /\ e \in b .. j /\ b \in Int /\ e \in Int /\ b \in Nat /\ e \in Nat
    BY <2>1
  <2>4. \A k \in b .. e : t[k] \in Sentences!Kinds
    <3>1. \A k \in b .. e : k \in 1 .. Len(t)
      BY <2>1, <2>3
    <3> QED
      BY <3>1, ElementOfSeq DEF Written
  <2>5. /\ piece \in Written /\ Len(piece) = IF b <= e THEN e - b + 1 ELSE 0
        /\ \A k \in 1 .. e - b + 1 : piece[k] = t[b + k - 1]
    BY <2>3, <2>4, SubSeqProperties DEF Written
  <2>6. Len(piece) = e - b + 1 /\ Len(piece) # 0
    BY <2>3, <2>5
  <2>7. piece # <<>>
    BY <2>6, EmptySeq
  <2> HIDE DEF piece
  <2> QED
    BY <1>2, <2>1, <2>2, <2>3, <2>5, <2>6, <2>7 DEF ink, piece
<1> QED
  BY <1>1, <1>2

(* Seen from off on, a text has the same pieces. *)
LEMMA Tails ==
    ASSUME NEW t \in Written, NEW off \in 0 .. Len(t)
    PROVE  LET s == SubSeq(t, off + 1, Len(t))
           IN  /\ s \in Written /\ Len(s) = Len(t) - off /\ Len(t) \in Nat
               /\ \A k \in 1 .. Len(t) - off : s[k] = t[off + k]
<1>1. Len(t) \in Nat /\ DOMAIN t = 1 .. Len(t)
  BY LenProperties DEF Written
<1>2. off + 1 \in Int /\ Len(t) \in Int /\ \A k \in off + 1 .. Len(t) : k \in 1 .. Len(t)
  BY <1>1
<1>3. \A k \in off + 1 .. Len(t) : t[k] \in Sentences!Kinds
  BY <1>2, ElementOfSeq DEF Written
<1>4. /\ SubSeq(t, off + 1, Len(t)) \in Written
      /\ Len(SubSeq(t, off + 1, Len(t)))
           = IF off + 1 <= Len(t) THEN Len(t) - (off + 1) + 1 ELSE 0
      /\ \A k \in 1 .. Len(t) - (off + 1) + 1 :
            SubSeq(t, off + 1, Len(t))[k] = t[(off + 1) + k - 1]
  BY <1>2, <1>3, SubSeqProperties DEF Written
<1>5. Len(t) - (off + 1) + 1 = Len(t) - off
  BY <1>1
<1>6. \A k \in 1 .. Len(t) - off : (off + 1) + k - 1 = off + k
  BY <1>1
<1>7. (IF off + 1 <= Len(t) THEN Len(t) - (off + 1) + 1 ELSE 0) = Len(t) - off
  <2>1. \A n \in Nat : \A o \in 0 .. n : (IF o + 1 <= n THEN n - (o + 1) + 1 ELSE 0) = n - o
    OBVIOUS
  <2> QED
    BY <1>1, <2>1
<1> QED
  BY <1>1, <1>4, <1>5, <1>6, <1>7

LEMMA Shifted ==
    ASSUME NEW t \in Written, NEW off \in 0 .. Len(t), NEW i \in Nat \ {0},
           NEW j \in 0 .. Len(t) - off
    PROVE  LET s == SubSeq(t, off + 1, Len(t))
           IN  /\ Sentences!Strip(s, i, j) = Sentences!Strip(t, off + i, off + j)
               /\ \A k : k \in Sentences!Inked(s, i, j) <=>
                           k \in i .. j /\ off + k \in Sentences!Inked(t, off + i, off + j)
<1> DEFINE s == SubSeq(t, off + 1, Len(t))
           here == Sentences!Inked(s, i, j)
           there == Sentences!Inked(t, off + i, off + j)
<1>1. /\ s \in Written /\ Len(s) = Len(t) - off /\ Len(t) \in Nat
      /\ \A k \in 1 .. Len(t) - off : s[k] = t[off + k]
  BY Tails
<1> HIDE DEF s
<1>2. /\ off + i \in Nat \ {0} /\ off + j \in 0 .. Len(t) /\ j \in 0 .. Len(s)
      /\ off \in Nat /\ j \in Nat /\ i \in Nat
  BY <1>1
<1>3. \A k \in i .. j : k \in 1 .. Len(t) - off /\ off + k \in off + i .. off + j
  BY <1>1, <1>2
<1>4. \A k \in i .. j : k \in here <=> off + k \in there
  BY <1>1, <1>3 DEF Sentences!Inked
<1>5. \A m \in off + i .. off + j : m - off \in i .. j /\ off + (m - off) = m
  BY <1>2
<1>6. here \subseteq i .. j /\ there \subseteq off + i .. off + j
  BY DEF Sentences!Inked
<1> HIDE DEF here, there
<1>7. CASE here = {}
  <2>1. there = {}
    BY <1>4, <1>5, <1>6, <1>7
  <2>2. Sentences!Strip(s, i, j) = <<>>
    BY <1>1, <1>2, <1>7, Stripped DEF here
  <2>3. Sentences!Strip(t, off + i, off + j) = <<>>
    BY <1>2, <2>1, Stripped DEF there
  <2> QED
    BY <1>4, <1>6, <2>2, <2>3 DEF here, there, s
<1>8. CASE here # {}
  <2>1. PICK b, e \in here :
           /\ b \in i .. j /\ e \in b .. j
           /\ \A k \in here : b <= k /\ k <= e
           /\ Sentences!Strip(s, i, j) \in Written
           /\ Len(Sentences!Strip(s, i, j)) = e - b + 1
           /\ \A k \in 1 .. e - b + 1 : Sentences!Strip(s, i, j)[k] = s[b + k - 1]
    BY <1>1, <1>2, <1>8, Stripped DEF here
  <2>2. there # {}
    BY <1>4, <2>1
  <2>3. PICK c, f \in there :
           /\ c \in off + i .. off + j /\ f \in c .. off + j
           /\ \A k \in there : c <= k /\ k <= f
           /\ Sentences!Strip(t, off + i, off + j) \in Written
           /\ Len(Sentences!Strip(t, off + i, off + j)) = f - c + 1
           /\ \A k \in 1 .. f - c + 1 : Sentences!Strip(t, off + i, off + j)[k] = t[c + k - 1]
    BY <1>2, <2>2, Stripped DEF there
  <2>4. c = off + b /\ f = off + e
    <3>1. c <= off + b /\ off + e <= f
      BY <1>4, <1>6, <2>1, <2>3
    <3>2. c - off \in here /\ f - off \in here
      BY <1>4, <1>5, <1>6, <2>3
    <3>3. b <= c - off /\ f - off <= e
      BY <2>1, <3>2
    <3> QED
      BY <1>2, <2>1, <2>3, <3>1, <3>3
  <2>5. f - c + 1 = e - b + 1
    BY <1>2, <2>1, <2>4
  <2>6. ASSUME NEW k \in 1 .. e - b + 1
        PROVE  Sentences!Strip(s, i, j)[k] = Sentences!Strip(t, off + i, off + j)[k]
    <3>1. b + k - 1 \in 1 .. Len(t) - off /\ off + (b + k - 1) = c + k - 1
      BY <1>1, <1>2, <2>1, <2>4
    <3> QED
      BY <1>1, <2>1, <2>3, <2>5, <3>1
  <2>7. Sentences!Strip(s, i, j) = Sentences!Strip(t, off + i, off + j)
    <3> DEFINE one == Sentences!Strip(s, i, j)
               two == Sentences!Strip(t, off + i, off + j)
    <3>1. /\ one \in Seq(Sentences!Kinds) /\ two \in Seq(Sentences!Kinds)
          /\ Len(one) = Len(two) /\ Len(one) = e - b + 1
      BY <2>1, <2>3, <2>5 DEF Written
    <3>2. \A k \in 1 .. Len(one) : one[k] = two[k]
      BY <2>6, <3>1
    <3> HIDE DEF one, two
    <3>3. one = two
      BY <3>1, <3>2, SeqEqual
    <3> QED
      BY <3>3 DEF one, two
  <2> QED
    BY <1>4, <1>6, <2>7 DEF here, there, s
<1> QED
  BY <1>7, <1>8

-----------------------------------------------------------------------------
(***************************************************************************)
(* The pieces of list are what is written in t up to m: ends[n] is where   *)
(* the n-th ends, and what is between them is blank.                       *)
(***************************************************************************)
Laid(list, t, ends) ==
    /\ ends \in [0 .. Len(list) -> 0 .. Len(t)] /\ ends[0] = 0
    /\ \A n \in 1 .. Len(list) : \E b \in ends[n - 1] + 1 .. ends[n] :
          /\ list[n] = SubSeq(t, b, ends[n]) /\ t[b] \notin Sentences!Blank
          /\ Sentences!Inked(t, ends[n - 1] + 1, b - 1) = {}

Covers(list, t, m) ==
    \E ends : /\ Laid(list, t, ends) /\ ends[Len(list)] <= m
              /\ Sentences!Inked(t, ends[Len(list)] + 1, m) = {}

Pieces == Seq(Written)

LEMMA NothingYet == \A t \in Written : Covers(<<>>, t, 0)
<1> SUFFICES ASSUME NEW t \in Written PROVE Covers(<<>>, t, 0)
  OBVIOUS
<1> DEFINE ends == [n \in 0 .. 0 |-> 0]
<1>1. Len(t) \in Nat /\ Len(<<>>) = 0
  BY LenProperties DEF Written
<1>2. ends \in [0 .. 0 -> 0 .. Len(t)] /\ ends[0] = 0
  BY <1>1
<1> HIDE DEF ends
<1>3. Laid(<<>>, t, ends)
  BY <1>1, <1>2 DEF Laid
<1>4. Sentences!Inked(t, 0 + 1, 0) = {}
  BY DEF Sentences!Inked
<1> QED
  BY <1>1, <1>2, <1>3, <1>4 DEF Covers

LEMMA OnePieceMore ==
    ASSUME NEW t \in Written, NEW list \in Pieces, NEW m \in 0 .. Len(t), NEW j \in m .. Len(t),
           Covers(list, t, m)
    PROVE  LET piece == Sentences!Strip(t, m + 1, j)
           IN  IF piece = <<>> THEN Covers(list, t, j) ELSE Covers(Append(list, piece), t, j)
<1> DEFINE piece == Sentences!Strip(t, m + 1, j)
           new == Sentences!Inked(t, m + 1, j)
<1>1. PICK ends : /\ Laid(list, t, ends) /\ ends[Len(list)] <= m
                  /\ Sentences!Inked(t, ends[Len(list)] + 1, m) = {}
  BY DEF Covers
<1> DEFINE behind == ends[Len(list)]
<1>2. /\ Len(t) \in Nat /\ DOMAIN t = 1 .. Len(t) /\ Len(list) \in Nat
      /\ m \in Nat /\ j \in Nat /\ j \in 0 .. Len(t) /\ m + 1 \in Nat \ {0} /\ m <= j
  BY LenProperties DEF Written, Pieces
<1>3. behind \in Nat /\ behind <= m /\ behind \in 0 .. Len(t)
  <2>1. Len(list) \in 0 .. Len(list)
    BY <1>2
  <2> QED
    BY <1>1, <1>2, <2>1 DEF Laid
<1>4. \A k \in behind + 1 .. m : t[k] \in Sentences!Blank
  BY <1>1 DEF Sentences!Inked
<1> HIDE DEF behind
<1>5. CASE piece = <<>>
  <2>1. \A k \in m + 1 .. j : t[k] \in Sentences!Blank
    <3>1. new = {}
      BY <1>2, <1>5, Stripped
    <3> QED
      BY <3>1 DEF Sentences!Inked
  <2>2. Sentences!Inked(t, behind + 1, j) = {}
    <3>1. \A k \in behind + 1 .. j : k \in behind + 1 .. m \/ k \in m + 1 .. j
      BY <1>2, <1>3
    <3> QED
      BY <1>4, <2>1, <3>1 DEF Sentences!Inked
  <2>3. behind <= j
    BY <1>2, <1>3
  <2> QED
    BY <1>1, <1>5, <2>2, <2>3 DEF Covers, behind
<1>6. CASE piece # <<>>
  <2>1. piece \in Written /\ new # {}
    BY <1>2, <1>6, Stripped
  <2>2. PICK b, e \in new :
           /\ b \in m + 1 .. j /\ e \in b .. j
           /\ \A k \in new : b <= k /\ k <= e
           /\ piece = SubSeq(t, b, e)
    BY <1>2, <2>1, Stripped
  <2> DEFINE more == Append(list, piece)
             far == [n \in 0 .. Len(list) + 1 |-> IF n = Len(list) + 1 THEN e ELSE ends[n]]
  <2>3. /\ Len(more) = Len(list) + 1 /\ more[Len(list) + 1] = piece
        /\ \A n \in 1 .. Len(list) : more[n] = list[n]
    BY <2>1, AppendProperties DEF Pieces
  <2>4. /\ far[Len(list) + 1] = e /\ far[Len(list)] = behind
        /\ \A n \in 0 .. Len(list) : far[n] = ends[n]
        /\ far \in [0 .. Len(list) + 1 -> 0 .. Len(t)]
    <3>1. \A n \in 0 .. Len(list) + 1 : n # Len(list) + 1 => n \in 0 .. Len(list)
      BY <1>2
    <3>2. /\ \A n \in 0 .. Len(list) : n \in 0 .. Len(list) + 1 /\ n # Len(list) + 1
          /\ Len(list) \in 0 .. Len(list) /\ Len(list) + 1 \in 0 .. Len(list) + 1
      BY <1>2
    <3>3. e \in 0 .. Len(t)
      BY <1>2, <2>2
    <3>4. ends \in [0 .. Len(list) -> 0 .. Len(t)]
      BY <1>1 DEF Laid
    <3> QED
      BY <3>1, <3>2, <3>3, <3>4 DEF behind
  <2> HIDE DEF more, far, piece
  <2>5. \A k \in m + 1 .. j : t[k] \notin Sentences!Blank => b <= k /\ k <= e
    BY <2>2 DEF Sentences!Inked
  <2>6. t[b] \notin Sentences!Blank
    BY <2>2 DEF Sentences!Inked
  <2> HIDE DEF new
  <2>7. ASSUME NEW n \in 1 .. Len(list) + 1
        PROVE  \E c \in far[n - 1] + 1 .. far[n] :
                  /\ more[n] = SubSeq(t, c, far[n]) /\ t[c] \notin Sentences!Blank
                  /\ Sentences!Inked(t, far[n - 1] + 1, c - 1) = {}
    <3>1. CASE n \in 1 .. Len(list)
      <4>1. n \in 0 .. Len(list) /\ n - 1 \in 0 .. Len(list)
        BY <1>2, <3>1
      <4>2. far[n - 1] = ends[n - 1] /\ far[n] = ends[n] /\ more[n] = list[n]
        BY <2>3, <2>4, <3>1, <4>1
      <4>3. \E c \in ends[n - 1] + 1 .. ends[n] :
               /\ list[n] = SubSeq(t, c, ends[n]) /\ t[c] \notin Sentences!Blank
               /\ Sentences!Inked(t, ends[n - 1] + 1, c - 1) = {}
        BY <1>1, <3>1 DEF Laid
      <4> QED
        BY <4>2, <4>3
    <3>2. CASE n = Len(list) + 1
      <4>1. far[n - 1] = behind /\ far[n] = e /\ more[n] = SubSeq(t, b, e)
        BY <1>2, <2>2, <2>3, <2>4, <3>2
      <4>2. b \in behind + 1 .. e
        BY <1>2, <1>3, <2>2
      <4>3. \A k \in behind + 1 .. b - 1 : t[k] \in Sentences!Blank
        <5> SUFFICES ASSUME NEW k \in behind + 1 .. b - 1 PROVE t[k] \in Sentences!Blank
          OBVIOUS
        <5>1. ~(b <= k) /\ (k \in behind + 1 .. m \/ k \in m + 1 .. j)
          BY <1>2, <1>3, <2>2
        <5> QED
          BY <1>4, <2>5, <5>1
      <4>4. Sentences!Inked(t, behind + 1, b - 1) = {}
        BY <4>3 DEF Sentences!Inked
      <4> QED
        BY <2>6, <4>1, <4>2, <4>4
    <3> QED
      BY <1>2, <3>1, <3>2
  <2>8. far[0] = 0
    <3>1. 0 \in 0 .. Len(list)
      BY <1>2
    <3> QED
      BY <1>1, <2>4, <3>1 DEF Laid
  <2>9. Laid(more, t, far)
    BY <2>3, <2>4, <2>7, <2>8 DEF Laid
  <2>10. Sentences!Inked(t, e + 1, j) = {}
    <3>1. \A k \in e + 1 .. j : k \in m + 1 .. j /\ ~(k <= e)
      BY <1>2, <2>2
    <3> QED
      BY <2>5, <3>1 DEF Sentences!Inked
  <2>11. e <= j
    BY <1>2, <2>2
  <2>12. Covers(more, t, j)
    BY <2>3, <2>4, <2>9, <2>10, <2>11 DEF Covers
  <2> QED
    BY <1>6, <2>12 DEF more, piece
<1> QED
  BY <1>5, <1>6

LEMMA MoreText ==
    ASSUME NEW t \in Written, NEW d \in Written, NEW list, NEW m \in 0 .. Len(t), Covers(list, t, m),
           Len(list) \in Nat
    PROVE  /\ t \o d \in Written /\ Len(t \o d) = Len(t) + Len(d)
           /\ Covers(list, t \o d, m)
<1> DEFINE u == t \o d
<1>1. /\ u \in Written /\ Len(u) = Len(t) + Len(d) /\ Len(t) \in Nat /\ Len(d) \in Nat
      /\ \A k \in 1 .. Len(t) : u[k] = t[k]
  BY ConcatProperties, LenProperties DEF Written
<1>2. PICK ends : /\ Laid(list, t, ends) /\ ends[Len(list)] <= m
                  /\ Sentences!Inked(t, ends[Len(list)] + 1, m) = {}
  BY DEF Covers
<1>3. \A b \in 1 .. Len(t), e \in 1 .. Len(t) : SubSeq(u, b, e) = SubSeq(t, b, e)
  BY SubSeqOfConcat1 DEF Written
<1> HIDE DEF u
<1>4. \A n \in 0 .. Len(list) : ends[n] \in 0 .. Len(t) /\ ends[n] \in Nat /\ ends[n] \in 0 .. Len(u)
  <2>1. ends \in [0 .. Len(list) -> 0 .. Len(t)]
    BY <1>2 DEF Laid
  <2>2. \A k \in 0 .. Len(t) : k \in Nat /\ k \in 0 .. Len(u)
    BY <1>1
  <2> QED
    BY <2>1, <2>2
<1>5. ASSUME NEW i \in Nat \ {0}, NEW j \in Int, j <= Len(t)
      PROVE  Sentences!Inked(u, i, j) = Sentences!Inked(t, i, j)
  <2>1. \A k \in i .. j : k \in 1 .. Len(t)
    BY <1>1, <1>5
  <2> QED
    BY <1>1, <2>1 DEF Sentences!Inked
<1>6. ASSUME NEW n \in 1 .. Len(list)
      PROVE  \E b \in ends[n - 1] + 1 .. ends[n] :
                /\ list[n] = SubSeq(u, b, ends[n]) /\ u[b] \notin Sentences!Blank
                /\ Sentences!Inked(u, ends[n - 1] + 1, b - 1) = {}
  <2>1. PICK b \in ends[n - 1] + 1 .. ends[n] :
           /\ list[n] = SubSeq(t, b, ends[n]) /\ t[b] \notin Sentences!Blank
           /\ Sentences!Inked(t, ends[n - 1] + 1, b - 1) = {}
    BY <1>2 DEF Laid
  <2>2. n - 1 \in 0 .. Len(list) /\ n \in 0 .. Len(list)
    OBVIOUS
  <2>3. /\ ends[n - 1] \in Nat /\ ends[n] \in Nat /\ ends[n] <= Len(t)
    BY <1>1, <1>4, <2>2
  <2>4. /\ b \in 1 .. Len(t) /\ ends[n] \in 1 .. Len(t) /\ ends[n - 1] + 1 \in Nat \ {0}
        /\ b - 1 \in Int /\ b - 1 <= Len(t)
    <3>1. \A from, to, c \in Int : from >= 0 /\ to <= Len(t) /\ c \in from + 1 .. to =>
            /\ c \in 1 .. Len(t) /\ to \in 1 .. Len(t) /\ from + 1 \in Nat \ {0}
            /\ c - 1 \in Int /\ c - 1 <= Len(t)
      BY <1>1
    <3>2. ends[n - 1] \in Int /\ ends[n] \in Int /\ b \in Int /\ ends[n - 1] >= 0
      BY <2>1, <2>3
    <3> QED
      BY <2>1, <2>3, <3>1, <3>2
  <2> QED
    BY <1>1, <1>3, <1>5, <2>1, <2>4
<1>7. Laid(list, u, ends)
  <2>1. ends \in [0 .. Len(list) -> 0 .. Len(u)] /\ ends[0] = 0
    BY <1>2, <1>4 DEF Laid
  <2> QED
    BY <1>6, <2>1 DEF Laid
<1>8. Sentences!Inked(u, ends[Len(list)] + 1, m) = {}
  <2>1. ends[Len(list)] + 1 \in Nat \ {0} /\ m \in Int /\ m <= Len(t)
    <3>1. Len(list) \in 0 .. Len(list)
      OBVIOUS
    <3> QED
      BY <1>1, <1>4, <3>1
  <2> QED
    BY <1>2, <1>5, <2>1
<1>9. Covers(list, u, m)
  BY <1>2, <1>7, <1>8 DEF Covers
<1> QED
  BY <1>1, <1>9 DEF u

-----------------------------------------------------------------------------
(* The loop over the sentences: where it is after character i, from m. *)
After(s, flush, m, i) ==
    IF i \notin Sentences!Boundaries(s, flush) THEN m
    ELSE LET piece == Sentences!Strip(s, m + 1, Sentences!PastSpaces(s, i))
         IN  IF piece = <<>> \/ flush \/ Len(piece) >= (IF first THEN MinSentence ELSE MinClause)
             THEN Sentences!PastSpaces(s, i) ELSE m

LEMMA SpacesPassed ==
    ASSUME NEW s \in Written, NEW i \in 1 .. Len(s)
    PROVE  /\ Sentences!PastSpaces(s, i) \in i .. Len(s)
           /\ \A k \in i + 1 .. Sentences!PastSpaces(s, i) : s[k] = "space"
<1> DEFINE T == {j \in i .. Len(s) : \A k \in i + 1 .. j : s[k] = "space"}
<1>1. Len(s) \in Nat
  BY LenProperties DEF Written
<1>2. T \subseteq Nat /\ i \in T /\ \A j \in T : j <= Len(s)
  BY <1>1
<1>3. Sentences!PastSpaces(s, i) = Sentences!Max(T)
  BY DEF Sentences!PastSpaces
<1>4. Sentences!Max(T) \in T
  <2> HIDE DEF T
  <2> QED
    BY <1>1, <1>2, MinMax
<1> QED
  BY <1>3, <1>4

LEMMA LoopExists ==
    ASSUME NEW s \in Written, NEW flush \in BOOLEAN
    PROVE  /\ Sentences!Emitted(s, flush) \in [0 .. Len(s) -> 0 .. Len(s)]
           /\ Sentences!Emitted(s, flush)[0] = 0
           /\ \A i \in 1 .. Len(s) :
                 Sentences!Emitted(s, flush)[i] = After(s, flush, Sentences!Emitted(s, flush)[i - 1], i)
<1> DEFINE F(g) == [i \in 0 .. Len(s) |->
                      IF i = 0 THEN 0
                      ELSE IF i \notin Sentences!Boundaries(s, flush) THEN g[i - 1]
                      ELSE LET piece == Sentences!Strip(s, g[i - 1] + 1, Sentences!PastSpaces(s, i))
                           IN  IF piece = <<>> \/ flush
                                  \/ Len(piece) >= (IF first THEN MinSentence ELSE MinClause)
                               THEN Sentences!PastSpaces(s, i) ELSE g[i - 1]]
           from == CHOOSE g : g = F(g)
           Places == 0 .. Len(s)
           step == [i \in 1 .. Len(s) |-> [m \in Places |-> After(s, flush, m, i)]]
<1>1. Len(s) \in Nat
  BY LenProperties DEF Written
<1>2. Sentences!Emitted(s, flush) = from
  BY DEF Sentences!Emitted
<1>3. ASSUME NEW i \in 1 .. Len(s), NEW m \in Places PROVE After(s, flush, m, i) \in Places
  <2>1. Sentences!PastSpaces(s, i) \in i .. Len(s)
    BY SpacesPassed
  <2>2. \A k \in i .. Len(s) : k \in Places
    OBVIOUS
  <2> HIDE DEF Places
  <2> QED
    BY <2>1, <2>2 DEF After
<1>4. step \in [1 .. Len(s) -> [Places -> Places]]
  <2> HIDE DEF Places
  <2> QED
    BY <1>3
<1>5. PICK g \in [0 .. Len(s) -> Places] :
         g[0] = 0 /\ \A i \in 1 .. Len(s) : g[i] = step[i][g[i - 1]]
  <2>1. 0 \in Places
    BY <1>1
  <2> HIDE DEF Places, step
  <2>2. step \in Steps(Len(s), Places)
    BY <1>4 DEF Steps
  <2>3. PICK g : Runs(g, Len(s), Places, 0, step)
    BY <1>1, <2>1, <2>2, Recursion
  <2> QED
    BY <2>3 DEF Runs
<1>6. \A i \in 1 .. Len(s) : g[i] = After(s, flush, g[i - 1], i)
  <2> SUFFICES ASSUME NEW i \in 1 .. Len(s) PROVE g[i] = After(s, flush, g[i - 1], i)
    OBVIOUS
  <2>1. i - 1 \in 0 .. Len(s)
    OBVIOUS
  <2>2. g[i - 1] \in Places
    BY <1>5, <2>1
  <2> HIDE DEF Places
  <2> QED
    BY <1>5, <2>2
<1>7. g = F(g)
  <2>1. ASSUME NEW i \in 0 .. Len(s)
        PROVE  g[i] = IF i = 0 THEN 0 ELSE After(s, flush, g[i - 1], i)
    BY <1>1, <1>5, <1>6
  <2>2. F(g) = [i \in 0 .. Len(s) |-> IF i = 0 THEN 0 ELSE After(s, flush, g[i - 1], i)]
    BY DEF After
  <2> HIDE DEF F
  <2> QED
    BY <1>5, <2>1, <2>2
<1>8. from = F(from)
  <2> HIDE DEF F
  <2> QED
    BY <1>7, Zenon
<1>9. from = g
  <2> HIDE DEF from
  <2>1. /\ from = [i \in 0 .. Len(s) |-> from[i]]
        /\ \A i \in 0 .. Len(s) : from[i] = IF i = 0 THEN 0 ELSE After(s, flush, from[i - 1], i)
    BY <1>8 DEF After
  <2> DEFINE U == {i \in 0 .. Len(s) : from[i] = g[i]}
  <2> HIDE DEF F
  <2>2. 0 \in U
    BY <1>1, <1>5, <2>1
  <2>3. \A i \in 1 .. Len(s) : i - 1 \in U => i \in U
    BY <1>6, <2>1
  <2>4. \A i \in 0 .. Len(s) : i \in U
    <3> HIDE DEF U
    <3> QED
      BY <1>1, <2>2, <2>3, UpTo
  <2> QED
    BY <1>5, <2>1, <2>4
<1> HIDE DEF from, F
<1> QED
  BY <1>2, <1>5, <1>6, <1>9

LEMMA LoopGoesOn ==
    ASSUME NEW s \in Written, NEW flush \in BOOLEAN, NEW i \in 1 .. Len(s)
    PROVE  LET from == Sentences!Emitted(s, flush)
               piece == Sentences!Strip(s, from[i - 1] + 1, from[i])
           IN  /\ from[i - 1] \in 0 .. Len(s) /\ from[i] \in from[i - 1] .. Len(s)
               /\ \/ piece = <<>> \/ flush
                  \/ Len(piece) >= (IF first THEN MinSentence ELSE MinClause)
<1> DEFINE from == Sentences!Emitted(s, flush)
           U == {k \in 0 .. Len(s) : \A j \in k + 1 .. from[k] : s[j] = "space"}
<1>1. /\ Len(s) \in Nat /\ from \in [0 .. Len(s) -> 0 .. Len(s)] /\ from[0] = 0
      /\ \A k \in 1 .. Len(s) : from[k] = After(s, flush, from[k - 1], k)
  <2>1. Len(s) \in Nat
    BY LenProperties DEF Written
  <2> QED
    BY <2>1, LoopExists
<1> HIDE DEF from
<1>2. ASSUME NEW k \in 1 .. Len(s), k - 1 \in U
      PROVE  /\ k \in U
             /\ k \in Sentences!Boundaries(s, flush) => from[k - 1] < k
  <2>1. \A j \in k .. from[k - 1] : s[j] = "space"
    BY <1>2
  <2>2. from[k - 1] \in Nat /\ from[k - 1] \in Int /\ k \in Nat
    <3>1. k - 1 \in 0 .. Len(s)
      OBVIOUS
    <3> QED
      BY <1>1, <3>1
  <2>3. k \in Sentences!Boundaries(s, flush) => from[k - 1] < k
    <3> SUFFICES ASSUME k \in Sentences!Boundaries(s, flush), k <= from[k - 1] PROVE FALSE
      BY <2>2
    <3>1. k \in k .. from[k - 1]
      BY <2>2
    <3>2. s[k] = "space"
      BY <2>1, <3>1
    <3> QED
      BY <3>2 DEF Sentences!Boundaries, Sentences!IsBoundary
  <2>4. from[k] = from[k - 1] \/ from[k] = Sentences!PastSpaces(s, k)
    BY <1>1 DEF After
  <2>5. \A j \in k + 1 .. from[k] : s[j] = "space"
    <3>1. CASE from[k] = from[k - 1]
      <4>1. \A j \in k + 1 .. from[k - 1] : j \in k .. from[k - 1]
        BY <2>2
      <4> QED
        BY <2>1, <3>1, <4>1
    <3>2. CASE from[k] = Sentences!PastSpaces(s, k)
      BY <3>2, SpacesPassed
    <3> QED
      BY <2>4, <3>1, <3>2
  <2> QED
    BY <2>3, <2>5
<1>3. \A k \in 0 .. Len(s) : k \in U
  <2>1. 0 \in U
    BY <1>1
  <2>2. \A k \in 1 .. Len(s) : k - 1 \in U => k \in U
    BY <1>2
  <2> HIDE DEF U
  <2> QED
    BY <1>1, <2>1, <2>2, UpTo
<1>4. i - 1 \in 0 .. Len(s) /\ i \in 0 .. Len(s) /\ i - 1 \in U
  BY <1>3
<1>5. from[i - 1] \in 0 .. Len(s) /\ from[i] \in 0 .. Len(s)
  BY <1>1, <1>4
<1> DEFINE m == from[i - 1]
           piece == Sentences!Strip(s, m + 1, from[i])
<1>6. CASE from[i] = m
  <2>1. Sentences!Inked(s, m + 1, m) = {}
    BY <1>5 DEF Sentences!Inked
  <2>2. Sentences!Strip(s, m + 1, m) = <<>>
    BY <2>1 DEF Sentences!Strip
  <2>3. from[i] \in m .. Len(s)
    BY <1>5, <1>6
  <2> QED
    BY <1>5, <1>6, <2>2, <2>3 DEF from
<1>7. CASE from[i] # m
  <2>1. from[i] = After(s, flush, m, i)
    BY <1>1
  <2>2. /\ i \in Sentences!Boundaries(s, flush)
        /\ from[i] = Sentences!PastSpaces(s, i)
        /\ \/ piece = <<>> \/ flush
           \/ Len(piece) >= (IF first THEN MinSentence ELSE MinClause)
    BY <1>7, <2>1 DEF After
  <2>3. m < i /\ from[i] \in i .. Len(s)
    BY <1>2, <1>4, <2>2, SpacesPassed
  <2>4. from[i] \in m .. Len(s)
    BY <1>5, <2>3
  <2> QED
    BY <1>5, <2>2, <2>4 DEF from
<1> QED
  BY <1>6, <1>7

(* What the loop says, up to character i. *)
SaidBy(said, s, from) ==
    /\ said[0] = <<>>
    /\ \A i \in 1 .. Len(s) :
          LET piece == Sentences!Strip(s, from[i - 1] + 1, from[i])
          IN  said[i] = IF piece = <<>> THEN said[i - 1] ELSE Append(said[i - 1], piece)

LEMMA SpokenIs ==
    ASSUME NEW s \in Written, NEW from \in [0 .. Len(s) -> 0 .. Len(s)]
    PROVE  \E said : SaidBy(said, s, from) /\ Sentences!Spoken(s, from) = said[Len(s)]
<1> DEFINE piece(i) == Sentences!Strip(s, from[i - 1] + 1, from[i])
           F(g) == [i \in 0 .. Len(s) |->
                      IF i = 0 THEN <<>>
                      ELSE IF piece(i) = <<>> THEN g[i - 1] ELSE Append(g[i - 1], piece(i))]
           said == CHOOSE g : g = F(g)
           step == [i \in 1 .. Len(s) |->
                      [list \in Pieces |-> IF piece(i) = <<>> THEN list ELSE Append(list, piece(i))]]
<1>1. Len(s) \in Nat
  BY LenProperties DEF Written
<1>2. Sentences!Spoken(s, from) = said[Len(s)]
  BY DEF Sentences!Spoken
<1>3. ASSUME NEW i \in 1 .. Len(s) PROVE piece(i) \in Written
  <2>1. i - 1 \in 0 .. Len(s) /\ i \in 0 .. Len(s)
    OBVIOUS
  <2>2. from[i - 1] + 1 \in Nat \ {0} /\ from[i] \in 0 .. Len(s)
    BY <1>1, <2>1
  <2> QED
    BY <2>2, Stripped
<1> HIDE DEF piece
<1>4. step \in Steps(Len(s), Pieces)
  <2>1. ASSUME NEW i \in 1 .. Len(s), NEW list \in Pieces
        PROVE  (IF piece(i) = <<>> THEN list ELSE Append(list, piece(i))) \in Pieces
    BY <1>3, AppendProperties DEF Pieces
  <2> HIDE DEF Pieces
  <2> QED
    BY <2>1 DEF Steps
<1>5. PICK g : Runs(g, Len(s), Pieces, <<>>, step)
  <2>1. <<>> \in Pieces
    BY EmptySeq DEF Pieces
  <2> HIDE DEF step
  <2> QED
    BY <1>1, <1>4, <2>1, Recursion
<1>6. g \in [0 .. Len(s) -> Pieces] /\ g[0] = <<>>
  BY <1>5 DEF Runs
<1>7. ASSUME NEW i \in 1 .. Len(s)
      PROVE  g[i] = IF piece(i) = <<>> THEN g[i - 1] ELSE Append(g[i - 1], piece(i))
  <2>1. g[i - 1] \in Pieces
    <3>1. i - 1 \in 0 .. Len(s)
      OBVIOUS
    <3> QED
      BY <1>6, <3>1
  <2>2. g[i] = step[i][g[i - 1]]
    BY <1>5 DEF Runs
  <2> QED
    BY <2>1, <2>2
<1>8. g = F(g)
  <2>1. \A i \in 0 .. Len(s) : i # 0 => i \in 1 .. Len(s)
    BY <1>1
  <2> QED
    BY <1>6, <1>7, <2>1
<1>9. said = F(said)
  <2> HIDE DEF F
  <2> QED
    BY <1>8, Zenon
<1> HIDE DEF said
<1>10. SaidBy(said, s, from)
  <2>1. 0 \in 0 .. Len(s) /\ \A i \in 1 .. Len(s) : i \in 0 .. Len(s) /\ i # 0
    BY <1>1
  <2>2. said[0] = <<>>
    BY <1>9, <2>1
  <2>3. \A i \in 1 .. Len(s) :
           said[i] = IF piece(i) = <<>> THEN said[i - 1] ELSE Append(said[i - 1], piece(i))
    BY <1>9, <2>1
  <2> QED
    BY <2>2, <2>3 DEF SaidBy, piece
<1> QED
  BY <1>2, <1>10

LEMMA OneMoreBehind ==
    ASSUME NEW list \in Pieces, NEW said \in Pieces, NEW piece \in Written
    PROVE  list \o Append(said, piece) = Append(list \o said, piece)
<1>1. /\ Len(list) \in Nat /\ Len(said) \in Nat
      /\ Append(said, piece) \in Pieces /\ Len(Append(said, piece)) = Len(said) + 1
      /\ Append(said, piece)[Len(said) + 1] = piece
      /\ \A n \in 1 .. Len(said) : Append(said, piece)[n] = said[n]
  BY AppendProperties, LenProperties DEF Pieces
<1>2. /\ list \o said \in Pieces /\ Len(list \o said) = Len(list) + Len(said)
      /\ \A n \in 1 .. Len(list) + Len(said) :
            (list \o said)[n] = IF n <= Len(list) THEN list[n] ELSE said[n - Len(list)]
  BY ConcatProperties DEF Pieces
<1> DEFINE one == list \o Append(said, piece)
           two == Append(list \o said, piece)
           all == Len(list) + Len(said) + 1
<1>3. /\ one \in Pieces /\ Len(one) = all
      /\ \A n \in 1 .. all :
            one[n] = IF n <= Len(list) THEN list[n] ELSE Append(said, piece)[n - Len(list)]
  <2>1. Len(list) + (Len(said) + 1) = all
    BY <1>1
  <2>2. /\ one \in Pieces /\ Len(one) = Len(list) + (Len(said) + 1)
        /\ \A n \in 1 .. Len(list) + (Len(said) + 1) :
              one[n] = IF n <= Len(list) THEN list[n] ELSE Append(said, piece)[n - Len(list)]
    BY <1>1, ConcatProperties DEF Pieces
  <2> HIDE DEF one, all
  <2> QED
    BY <2>1, <2>2
<1>4. /\ two \in Pieces /\ Len(two) = all /\ two[all] = piece
      /\ \A n \in 1 .. Len(list) + Len(said) : two[n] = (list \o said)[n]
  BY <1>2, AppendProperties DEF Pieces
<1> HIDE DEF one, two
<1>5. ASSUME NEW n \in 1 .. all PROVE one[n] = two[n]
  <2>1. CASE n <= Len(list)
    <3>1. n \in 1 .. Len(list) + Len(said)
      BY <1>1, <2>1
    <3> QED
      BY <1>2, <1>3, <1>4, <2>1, <3>1
  <2>2. CASE n > Len(list) /\ n < all
    <3>1. /\ n \in 1 .. Len(list) + Len(said) /\ ~(n <= Len(list))
          /\ n - Len(list) \in 1 .. Len(said)
      BY <1>1, <2>2
    <3>2. one[n] = Append(said, piece)[n - Len(list)]
      BY <1>3, <3>1
    <3>3. two[n] = said[n - Len(list)]
      BY <1>2, <1>4, <3>1
    <3> QED
      BY <1>1, <3>1, <3>2, <3>3
  <2>3. CASE n = all
    <3>1. ~(n <= Len(list)) /\ n - Len(list) = Len(said) + 1
      BY <1>1, <2>3
    <3> QED
      BY <1>1, <1>3, <1>4, <2>3, <3>1
  <2> QED
    BY <1>1, <2>1, <2>2, <2>3
<1>6. one = two
  BY <1>3, <1>4, <1>5, SeqEqual DEF Pieces
<1> QED
  BY <1>6 DEF one, two

(* What the loop says is what is written, up to where it ends. *)
LEMMA SpokenCovers ==
    ASSUME NEW t \in Written, NEW off \in 0 .. Len(t), NEW list \in Pieces, Covers(list, t, off),
           NEW flush \in BOOLEAN
    PROVE  LET s == SubSeq(t, off + 1, Len(t))
               from == Sentences!Emitted(s, flush)
               said == Sentences!Spoken(s, from)
           IN  /\ from[Len(s)] \in 0 .. Len(s) /\ said \in Pieces
               /\ Covers(list \o said, t, off + from[Len(s)])
               /\ \A n \in 1 .. Len(said) :
                     flush \/ Len(said[n]) >= (IF first THEN MinSentence ELSE MinClause)
<1> DEFINE s == SubSeq(t, off + 1, Len(t))
           from == Sentences!Emitted(s, flush)
           least == IF first THEN MinSentence ELSE MinClause
<1>1. /\ s \in Written /\ Len(s) = Len(t) - off /\ Len(t) \in Nat /\ off \in Nat
      /\ Len(s) \in Nat
  <2>1. s \in Written /\ Len(s) = Len(t) - off /\ Len(t) \in Nat
    BY Tails
  <2> QED
    BY <2>1
<1>2. from \in [0 .. Len(s) -> 0 .. Len(s)] /\ from[0] = 0
  <2> HIDE DEF s
  <2> QED
    BY <1>1, LoopExists
<1>3. \A i \in 1 .. Len(s) :
         /\ from[i - 1] \in 0 .. Len(s) /\ from[i] \in from[i - 1] .. Len(s)
         /\ \/ Sentences!Strip(s, from[i - 1] + 1, from[i]) = <<>> \/ flush
            \/ Len(Sentences!Strip(s, from[i - 1] + 1, from[i])) >= least
  <2> HIDE DEF s
  <2> QED
    BY <1>1, LoopGoesOn
<1>4. PICK said : SaidBy(said, s, from) /\ Sentences!Spoken(s, from) = said[Len(s)]
  <2> HIDE DEF s, from
  <2> QED
    BY <1>1, <1>2, SpokenIs
<1>5. \A i \in Nat \ {0}, j \in 0 .. Len(t) - off :
         Sentences!Strip(s, i, j) = Sentences!Strip(t, off + i, off + j)
  BY Shifted
<1> HIDE DEF s, from, least
<1> DEFINE Fine(i) == /\ said[i] \in Pieces /\ Covers(list \o said[i], t, off + from[i])
                      /\ \A n \in 1 .. Len(said[i]) : flush \/ Len(said[i][n]) >= least
           U == {i \in 0 .. Len(s) : Fine(i)}
<1>6. Fine(0)
  <2>1. said[0] = <<>>
    BY <1>4 DEF SaidBy
  <2>2. <<>> \in Pieces /\ Len(<<>>) = 0 /\ list \o <<>> = list
    BY EmptySeq, ConcatEmptySeq DEF Pieces
  <2>3. off + from[0] = off
    BY <1>1, <1>2
  <2> QED
    BY <2>1, <2>2, <2>3
<1>7. ASSUME NEW i \in 1 .. Len(s), Fine(i - 1) PROVE Fine(i)
  <2> DEFINE m == off + from[i - 1]
             j == off + from[i]
             piece == Sentences!Strip(s, from[i - 1] + 1, from[i])
  <2>1. /\ m \in 0 .. Len(t) /\ j \in m .. Len(t)
        /\ from[i - 1] + 1 \in Nat \ {0} /\ from[i] \in 0 .. Len(t) - off
        /\ from[i] \in 0 .. Len(s) /\ off + (from[i - 1] + 1) = m + 1
    <3>1. \A a \in 0 .. Len(s) : \A b \in a .. Len(s) :
             /\ off + a \in 0 .. Len(t) /\ off + b \in off + a .. Len(t)
             /\ a + 1 \in Nat \ {0} /\ b \in 0 .. Len(t) - off
             /\ b \in 0 .. Len(s) /\ off + (a + 1) = (off + a) + 1
      BY <1>1
    <3> QED
      BY <1>3, <3>1
  <2>2. piece = Sentences!Strip(t, m + 1, j)
    BY <1>5, <2>1
  <2>3. piece \in Written
    BY <1>1, <2>1, Stripped
  <2>4. said[i] = IF piece = <<>> THEN said[i - 1] ELSE Append(said[i - 1], piece)
    BY <1>4 DEF SaidBy
  <2>5. piece = <<>> \/ flush \/ Len(piece) >= least
    BY <1>3
  <2>6. said[i - 1] \in Pieces /\ Covers(list \o said[i - 1], t, m)
    BY <1>7
  <2>7. list \o said[i - 1] \in Pieces
    BY <2>6, ConcatProperties DEF Pieces
  <2> HIDE DEF m, j, piece
  <2>8. IF piece = <<>> THEN Covers(list \o said[i - 1], t, j)
        ELSE Covers(Append(list \o said[i - 1], piece), t, j)
    BY <2>1, <2>2, <2>6, <2>7, OnePieceMore
  <2>9. CASE piece = <<>>
    BY <1>7, <2>4, <2>8, <2>9 DEF j
  <2>10. CASE piece # <<>>
    <3>1. said[i] = Append(said[i - 1], piece)
      BY <2>4, <2>10
    <3>2. Covers(list \o said[i], t, j)
      BY <2>3, <2>6, <2>8, <2>10, <3>1, OneMoreBehind
    <3>3. /\ said[i] \in Pieces /\ Len(said[i]) = Len(said[i - 1]) + 1
          /\ said[i][Len(said[i - 1]) + 1] = piece /\ Len(said[i - 1]) \in Nat
          /\ \A n \in 1 .. Len(said[i - 1]) : said[i][n] = said[i - 1][n]
      BY <2>3, <2>6, <3>1, AppendProperties, LenProperties DEF Pieces
    <3>4. ASSUME NEW n \in 1 .. Len(said[i]) PROVE flush \/ Len(said[i][n]) >= least
      <4>1. n \in 1 .. Len(said[i - 1]) \/ n = Len(said[i - 1]) + 1
        BY <3>3
      <4> QED
        BY <1>7, <2>5, <2>10, <3>3, <4>1
    <3> QED
      BY <3>2, <3>3, <3>4 DEF j
  <2> QED
    BY <2>9, <2>10
<1>8. Fine(Len(s))
  <2> HIDE DEF Fine
  <2>1. 0 \in U /\ \A i \in 1 .. Len(s) : i - 1 \in U => i \in U
    BY <1>1, <1>6, <1>7
  <2>2. Len(s) \in 0 .. Len(s)
    BY <1>1
  <2>3. \A i \in 0 .. Len(s) : i \in U
    <3> HIDE DEF U
    <3> QED
      BY <1>1, <2>1, UpTo
  <2> QED
    BY <2>2, <2>3
<1>9. from[Len(s)] \in 0 .. Len(s)
  <2>1. Len(s) \in 0 .. Len(s)
    BY <1>1
  <2> QED
    BY <1>2, <2>1
<1> QED
  BY <1>4, <1>8, <1>9 DEF s, from, least

-----------------------------------------------------------------------------
(* The tail of a tail, and of a text that grows, is a tail. *)
LEMMA TailOfTail ==
    ASSUME NEW t \in Written, NEW off \in 0 .. Len(t), NEW i \in 0 .. Len(t) - off
    PROVE  LET s == SubSeq(t, off + 1, Len(t))
           IN  /\ off + i \in 0 .. Len(t)
               /\ SubSeq(s, i + 1, Len(s)) = SubSeq(t, (off + i) + 1, Len(t))
<1> DEFINE s == SubSeq(t, off + 1, Len(t))
           one == SubSeq(s, i + 1, Len(s))
           two == SubSeq(t, (off + i) + 1, Len(t))
<1>1. /\ s \in Written /\ Len(s) = Len(t) - off /\ Len(t) \in Nat
      /\ \A k \in 1 .. Len(t) - off : s[k] = t[off + k]
  BY Tails
<1> HIDE DEF s
<1>2. i \in 0 .. Len(s) /\ off + i \in 0 .. Len(t)
  BY <1>1
<1>3. /\ one \in Written /\ Len(one) = Len(s) - i
      /\ \A k \in 1 .. Len(s) - i : one[k] = s[i + k]
  BY <1>1, <1>2, Tails
<1>4. /\ two \in Written /\ Len(two) = Len(t) - (off + i)
      /\ \A k \in 1 .. Len(t) - (off + i) : two[k] = t[(off + i) + k]
  BY <1>1, <1>2, Tails
<1>5. Len(s) - i = Len(t) - (off + i)
  BY <1>1
<1>6. \A k \in 1 .. Len(s) - i : i + k \in 1 .. Len(t) - off /\ off + (i + k) = (off + i) + k
  BY <1>1
<1> HIDE DEF one, two
<1>7. \A k \in 1 .. Len(one) : one[k] = two[k]
  BY <1>1, <1>3, <1>4, <1>5, <1>6
<1>8. one = two
  BY <1>3, <1>4, <1>5, <1>7, SeqEqual DEF Written
<1> QED
  BY <1>2, <1>8 DEF s, one, two

LEMMA TailGrows ==
    ASSUME NEW t \in Written, NEW d \in Written, NEW off \in 0 .. Len(t)
    PROVE  /\ off \in 0 .. Len(t \o d)
           /\ SubSeq(t \o d, off + 1, Len(t \o d)) = SubSeq(t, off + 1, Len(t)) \o d
<1> DEFINE u == t \o d
           s == SubSeq(t, off + 1, Len(t))
           one == SubSeq(u, off + 1, Len(u))
           two == s \o d
<1>1. /\ u \in Written /\ Len(u) = Len(t) + Len(d) /\ Len(t) \in Nat /\ Len(d) \in Nat
      /\ \A k \in 1 .. Len(t) + Len(d) : u[k] = IF k <= Len(t) THEN t[k] ELSE d[k - Len(t)]
  BY ConcatProperties, LenProperties DEF Written
<1>2. /\ s \in Written /\ Len(s) = Len(t) - off
      /\ \A k \in 1 .. Len(t) - off : s[k] = t[off + k]
  BY Tails
<1> HIDE DEF u, s
<1>3. off \in 0 .. Len(u)
  BY <1>1
<1>4. /\ one \in Written /\ Len(one) = Len(u) - off
      /\ \A k \in 1 .. Len(u) - off : one[k] = u[off + k]
  BY <1>1, <1>3, Tails
<1>5. /\ two \in Written /\ Len(two) = Len(s) + Len(d)
      /\ \A k \in 1 .. Len(s) + Len(d) : two[k] = IF k <= Len(s) THEN s[k] ELSE d[k - Len(s)]
  BY <1>2, ConcatProperties DEF Written
<1>6. Len(u) - off = Len(s) + Len(d)
  BY <1>1, <1>2
<1> HIDE DEF one, two
<1>7. ASSUME NEW k \in 1 .. Len(u) - off PROVE one[k] = two[k]
  <2>1. off + k \in 1 .. Len(t) + Len(d) /\ k \in 1 .. Len(s) + Len(d)
    BY <1>1, <1>6
  <2>2. CASE k <= Len(s)
    <3>1. k \in 1 .. Len(t) - off /\ off + k <= Len(t)
      BY <1>1, <1>2, <2>2
    <3> QED
      BY <1>1, <1>2, <1>4, <1>5, <2>1, <2>2, <3>1
  <2>3. CASE ~(k <= Len(s))
    <3>1. ~(off + k <= Len(t)) /\ (off + k) - Len(t) = k - Len(s)
      BY <1>1, <1>2, <2>3
    <3> QED
      BY <1>1, <1>4, <1>5, <2>1, <2>3, <3>1
  <2> QED
    BY <2>2, <2>3
<1>8. one = two
  BY <1>4, <1>5, <1>6, <1>7, SeqEqual DEF Written
<1> QED
  BY <1>3, <1>8 DEF u, s, one, two

(* str.lstrip goes on to a later tail, past blanks. *)
LEMMA LStripped ==
    ASSUME NEW t \in Written, NEW off \in 0 .. Len(t)
    PROVE  \E m \in off .. Len(t) :
              /\ Sentences!LStrip(SubSeq(t, off + 1, Len(t))) = SubSeq(t, m + 1, Len(t))
              /\ Sentences!Inked(t, off + 1, m) = {}
<1> DEFINE s == SubSeq(t, off + 1, Len(t))
           ink == Sentences!Inked(s, 1, Len(s))
<1>1. /\ s \in Written /\ Len(s) = Len(t) - off /\ Len(t) \in Nat /\ off \in Nat
      /\ \A k \in 1 .. Len(t) - off : s[k] = t[off + k]
  <2>1. /\ s \in Written /\ Len(s) = Len(t) - off /\ Len(t) \in Nat
        /\ \A k \in 1 .. Len(t) - off : s[k] = t[off + k]
    BY Tails
  <2> QED
    BY <2>1
<1>2. \A i \in 0 .. Len(t) - off : SubSeq(s, i + 1, Len(s)) = SubSeq(t, (off + i) + 1, Len(t))
  BY TailOfTail
<1> HIDE DEF s
<1>3. ASSUME NEW i \in 0 .. Len(t) - off, \A k \in 1 .. i : s[k] \in Sentences!Blank,
             Sentences!LStrip(s) = SubSeq(s, i + 1, Len(s))
      PROVE  \E m \in off .. Len(t) :
                /\ Sentences!LStrip(s) = SubSeq(t, m + 1, Len(t))
                /\ Sentences!Inked(t, off + 1, m) = {}
  <2>1. off + i \in off .. Len(t)
    BY <1>1
  <2>2. \A k \in off + 1 .. off + i :
           k - off \in 1 .. i /\ k - off \in 1 .. Len(t) - off /\ off + (k - off) = k
    BY <1>1
  <2>3. \A k \in off + 1 .. off + i : t[k] \in Sentences!Blank
    BY <1>1, <1>3, <2>2
  <2>4. Sentences!Inked(t, off + 1, off + i) = {}
    BY <2>3 DEF Sentences!Inked
  <2> QED
    BY <1>2, <1>3, <2>1, <2>4
<1>4. CASE ink = {}
  <2>1. Sentences!LStrip(s) = <<>>
    BY <1>4 DEF Sentences!LStrip
  <2>2. SubSeq(s, Len(s) + 1, Len(s)) = <<>>
    BY <1>1, SubSeqEmpty
  <2>3. Len(s) \in 0 .. Len(t) - off
    BY <1>1
  <2>4. \A k \in 1 .. Len(s) : s[k] \in Sentences!Blank
    BY <1>4 DEF Sentences!Inked
  <2> QED
    BY <1>3, <2>1, <2>2, <2>3, <2>4 DEF s
<1>5. CASE ink # {}
  <2>1. /\ Sentences!Min(ink) \in ink /\ \A k \in ink : Sentences!Min(ink) <= k
        /\ ink \subseteq 1 .. Len(s)
    BY <1>1, <1>5, Inks
  <2>2. Sentences!LStrip(s) = SubSeq(s, Sentences!Min(ink), Len(s))
    BY <1>5 DEF Sentences!LStrip
  <2> DEFINE b == Sentences!Min(ink)
  <2>3. \A k \in 1 .. Len(s) : s[k] \notin Sentences!Blank => b <= k
    BY <2>1 DEF Sentences!Inked
  <2> HIDE DEF b, ink
  <2>4. b \in 1 .. Len(s)
    BY <2>1 DEF b
  <2>5. b - 1 \in 0 .. Len(t) - off /\ (b - 1) + 1 = b
    BY <1>1, <2>4
  <2>6. \A k \in 1 .. b - 1 : k \in 1 .. Len(s) /\ ~(b <= k)
    BY <1>1, <2>4
  <2>7. Sentences!LStrip(s) = SubSeq(s, (b - 1) + 1, Len(s))
    BY <2>2, <2>5 DEF b
  <2> QED
    BY <1>3, <2>3, <2>5, <2>6, <2>7 DEF s
<1> QED
  BY <1>4, <1>5

LEMMA CoversBlanks ==
    ASSUME NEW t \in Written, NEW list \in Pieces, NEW m \in 0 .. Len(t), NEW j \in m .. Len(t),
           Covers(list, t, m), Sentences!Inked(t, m + 1, j) = {}
    PROVE  Covers(list, t, j)
<1>1. Sentences!Strip(t, m + 1, j) = <<>>
  BY DEF Sentences!Strip
<1> QED
  BY <1>1, OnePieceMore

(***************************************************************************)
(* What was emitted is what is written up to where the buffer begins.      *)
(***************************************************************************)
SentencesInv ==
    /\ text \in Written /\ pieces \in Pieces /\ first \in BOOLEAN
    /\ \E off \in 0 .. Len(text) :
          buf = SubSeq(text, off + 1, Len(text)) /\ Covers(pieces, text, off)

LEMMA DeltasAreWritten == Deltas \subseteq Written
<1>1. \A a \in Sentences!Kinds : <<a>> \in Seq(Sentences!Kinds)
  OBVIOUS
<1>2. \A a, b \in Sentences!Kinds : <<a, b>> \in Seq(Sentences!Kinds)
  OBVIOUS
<1>3. \A a, b, c \in Sentences!Kinds : <<a, b, c>> \in Seq(Sentences!Kinds)
  OBVIOUS
<1>4. \A a, b, c, d \in Sentences!Kinds : <<a, b, c, d>> \in Seq(Sentences!Kinds)
  OBVIOUS
<1>5. {"letter", "space", "stop", "clause", "digit", "mark", "newline", "abbreviation"}
        \subseteq Sentences!Kinds
  BY DEF Sentences!Kinds, Sentences!Blank
<1> QED
  BY <1>1, <1>2, <1>3, <1>4, <1>5 DEF Deltas, Written

(* A first piece is not empty. *)
LEMMA EarlyPiece ==
    ASSUME NEW s \in Written, NEW i \in Sentences!EarlyEnds(s)
    PROVE  i \in 1 .. Len(s) /\ Sentences!Strip(s, 1, i) # <<>>
<1> DEFINE e == Sentences!SentenceEnd(s)
           before == {k \in 1 .. Len(s) : e = 0 \/ k < e}
<1>1. Len(s) \in Nat /\ DOMAIN s = 1 .. Len(s)
  BY LenProperties DEF Written
<1>2. \/ Sentences!ClauseEnds(s) # {} /\ i = Sentences!Min(Sentences!ClauseEnds(s)) /\ i \in before
      \/ i \in before /\ Sentences!Strip(s, 1, i) # <<>>
  BY DEF Sentences!EarlyEnds
<1>3. i \in 1 .. Len(s)
  BY <1>2
<1>4. CASE Sentences!ClauseEnds(s) # {} /\ i = Sentences!Min(Sentences!ClauseEnds(s))
  <2>1. Sentences!ClauseEnds(s) \subseteq 1 .. Len(s)
    BY <1>1 DEF Sentences!ClauseEnds
  <2>2. /\ Sentences!ClauseEnds(s) \subseteq Nat
        /\ \A k \in Sentences!ClauseEnds(s) : k <= Len(s)
    BY <1>1, <2>1
  <2>3. i \in Sentences!ClauseEnds(s)
    BY <1>1, <1>4, <2>2, MinMax
  <2>4. s[i] = "clause"
    BY <2>3 DEF Sentences!ClauseEnds
  <2>5. i \in 1 .. i
    BY <1>1, <1>3
  <2>6. i \in Sentences!Inked(s, 1, i)
    BY <2>4, <2>5 DEF Sentences!Inked, Sentences!Blank
  <2>7. i \in 0 .. Len(s) /\ 1 \in Nat \ {0}
    BY <1>1, <1>3
  <2> QED
    BY <1>3, <2>6, <2>7, Stripped
<1> QED
  BY <1>2, <1>3, <1>4

LEMMA TextIsPushed ==
    ASSUME SentencesInv, NEW delta \in Deltas, Sentences!PushChunk(delta)
    PROVE  SentencesInv'
<1> DEFINE s == buf \o delta
           t == text \o delta
<1>1. PICK off \in 0 .. Len(text) : buf = SubSeq(text, off + 1, Len(text)) /\ Covers(pieces, text, off)
  BY DEF SentencesInv
<1>2. /\ text \in Written /\ pieces \in Pieces /\ first \in BOOLEAN /\ delta \in Written
      /\ Len(pieces) \in Nat
  BY DeltasAreWritten, LenProperties DEF SentencesInv, Pieces
<1>3. /\ t \in Written /\ off \in 0 .. Len(t) /\ Covers(pieces, t, off)
      /\ s = SubSeq(t, off + 1, Len(t))
  BY <1>1, <1>2, MoreText, TailGrows
<1>4. s \in Written /\ Len(s) = Len(t) - off /\ Len(t) \in Nat /\ off \in Nat
  <2>1. s \in Written /\ Len(s) = Len(t) - off /\ Len(t) \in Nat
    BY <1>3, Tails
  <2> QED
    BY <2>1, <1>3
<1>5. text' = t
  BY DEF Sentences!PushChunk
<1>6. CASE ~first /\ Sentences!EarlyEnds(s) # {}
  <2>1. PICK i \in Sentences!EarlyEnds(s) :
           /\ pieces' = Append(pieces, Sentences!Strip(s, 1, i))
           /\ buf' = Sentences!LStrip(SubSeq(s, i + 1, Len(s)))
           /\ first' = TRUE
    BY <1>6 DEF Sentences!PushChunk
  <2> HIDE DEF s, t
  <2>2. i \in 1 .. Len(s) /\ Sentences!Strip(s, 1, i) # <<>>
    BY <1>4, <2>1, EarlyPiece
  <2>3. i \in 0 .. Len(t) - off /\ off + i \in off .. Len(t) /\ off + i \in 0 .. Len(t)
    BY <1>4, <2>2
  <2>4. Sentences!Strip(s, 1, i) = Sentences!Strip(t, off + 1, off + i)
    <3>1. 1 \in Nat \ {0}
      OBVIOUS
    <3> QED
      BY <1>3, <2>3, <3>1, Shifted
  <2>5. Covers(pieces', t, off + i)
    BY <1>2, <1>3, <2>1, <2>2, <2>3, <2>4, OnePieceMore
  <2>6. pieces' \in Pieces
    <3>1. i \in 0 .. Len(s) /\ 1 \in Nat \ {0}
      BY <1>4, <2>3
    <3>2. Sentences!Strip(s, 1, i) \in Written
      BY <1>4, <3>1, Stripped
    <3> QED
      BY <1>2, <2>1, <3>2, AppendProperties DEF Pieces
  <2>7. SubSeq(s, i + 1, Len(s)) = SubSeq(t, (off + i) + 1, Len(t))
    BY <1>3, <2>3, TailOfTail
  <2>8. PICK m \in off + i .. Len(t) :
           buf' = SubSeq(t, m + 1, Len(t)) /\ Sentences!Inked(t, (off + i) + 1, m) = {}
    BY <1>3, <2>1, <2>3, <2>7, LStripped
  <2>9. Covers(pieces', t, m)
    BY <1>3, <2>3, <2>5, <2>6, <2>8, CoversBlanks
  <2>10. m \in 0 .. Len(t)
    BY <1>4, <2>3
  <2> QED
    BY <1>3, <1>5, <2>1, <2>6, <2>8, <2>9, <2>10 DEF SentencesInv
<1>7. CASE ~(~first /\ Sentences!EarlyEnds(s) # {})
  <2> DEFINE from == Sentences!Emitted(s, FALSE)
             said == Sentences!Spoken(s, from)
  <2>1. /\ pieces' = pieces \o said
        /\ buf' = Sentences!Rest(s, from)
        /\ first' = (first \/ said # <<>>)
    BY <1>7 DEF Sentences!PushChunk
  <2>2. /\ from[Len(s)] \in 0 .. Len(s) /\ said \in Pieces
        /\ Covers(pieces \o said, t, off + from[Len(s)])
    <3> HIDE DEF t
    <3>1. FALSE \in BOOLEAN
      OBVIOUS
    <3> QED
      BY <1>2, <1>3, <3>1, SpokenCovers
  <2> HIDE DEF s, t, from, said
  <2>3. buf' = SubSeq(s, from[Len(s)] + 1, Len(s))
    BY <2>1 DEF Sentences!Rest
  <2>4. from[Len(s)] \in 0 .. Len(t) - off
    BY <1>4, <2>2
  <2>5. /\ off + from[Len(s)] \in 0 .. Len(t)
        /\ buf' = SubSeq(t, (off + from[Len(s)]) + 1, Len(t))
    BY <1>3, <2>3, <2>4, TailOfTail
  <2>6. pieces' \in Pieces /\ first' \in BOOLEAN
    BY <1>2, <2>1, <2>2, ConcatProperties DEF Pieces
  <2> QED
    BY <1>3, <1>5, <2>1, <2>2, <2>5, <2>6 DEF SentencesInv
<1> QED
  BY <1>6, <1>7

LEMMA RestIsFlushed ==
    ASSUME SentencesInv, Sentences!Flush
    PROVE  SentencesInv'
<1>1. PICK off \in 0 .. Len(text) : buf = SubSeq(text, off + 1, Len(text)) /\ Covers(pieces, text, off)
  BY DEF SentencesInv
<1>2. text \in Written /\ pieces \in Pieces
  BY DEF SentencesInv
<1>3. buf \in Written /\ Len(buf) = Len(text) - off /\ Len(text) \in Nat /\ off \in Nat
  <2>1. buf \in Written /\ Len(buf) = Len(text) - off /\ Len(text) \in Nat
    BY <1>1, <1>2, Tails
  <2> QED
    BY <2>1
<1> DEFINE from == Sentences!Emitted(buf, TRUE)
           said == Sentences!Spoken(buf, from)
           rest == Sentences!Strip(buf, from[Len(buf)] + 1, Len(buf))
           list == pieces \o said
<1>4. /\ pieces' = list \o (IF rest = <<>> THEN <<>> ELSE <<rest>>)
      /\ buf' = <<>> /\ first' = FALSE /\ text' = text
  BY DEF Sentences!Flush
<1>5. /\ from[Len(buf)] \in 0 .. Len(buf) /\ said \in Pieces
      /\ Covers(list, text, off + from[Len(buf)])
  <2>1. TRUE \in BOOLEAN
    OBVIOUS
  <2> QED
    BY <1>1, <1>2, <2>1, SpokenCovers
<1> HIDE DEF from, said
<1>6. list \in Pieces
  BY <1>2, <1>5, ConcatProperties DEF Pieces
<1> DEFINE m == off + from[Len(buf)]
<1>7. /\ m \in 0 .. Len(text) /\ Len(text) \in m .. Len(text)
      /\ from[Len(buf)] + 1 \in Nat \ {0} /\ Len(buf) \in 0 .. Len(text) - off
      /\ off + (from[Len(buf)] + 1) = m + 1 /\ off + Len(buf) = Len(text)
      /\ Len(buf) \in 0 .. Len(buf)
  BY <1>3, <1>5
<1>8. rest = Sentences!Strip(text, m + 1, Len(text)) /\ rest \in Written
  <2>1. \A i \in Nat \ {0}, j \in 0 .. Len(text) - off :
           Sentences!Strip(buf, i, j) = Sentences!Strip(text, off + i, off + j)
    BY <1>1, <1>2, Shifted
  <2>2. rest \in Written
    BY <1>3, <1>7, Stripped
  <2> QED
    BY <1>7, <2>1, <2>2
<1> HIDE DEF list, rest, m
<1>9. IF rest = <<>> THEN Covers(list, text, Len(text)) ELSE Covers(Append(list, rest), text, Len(text))
  BY <1>2, <1>5, <1>6, <1>7, <1>8, OnePieceMore DEF m
<1>10. pieces' = IF rest = <<>> THEN list ELSE Append(list, rest)
  <2>1. list \o <<>> = list
    BY <1>6, ConcatEmptySeq DEF Pieces
  <2>2. Append(list, rest) = list \o <<rest>>
    BY <1>6, <1>8, AppendIsConcat DEF Pieces
  <2> QED
    BY <1>4, <2>1, <2>2
<1>11. pieces' \in Pieces
  BY <1>6, <1>8, <1>10, AppendProperties DEF Pieces
<1>12. SubSeq(text, Len(text) + 1, Len(text)) = <<>>
  BY <1>3, SubSeqEmpty
<1>13. Len(text) \in 0 .. Len(text)
  BY <1>3
<1> QED
  BY <1>2, <1>4, <1>9, <1>10, <1>11, <1>12, <1>13 DEF SentencesInv

LEMMA NothingSaid ==
    /\ <<>> \in Written /\ <<>> \in Pieces /\ 0 \in 0 .. Len(<<>>)
    /\ <<>> = SubSeq(<<>>, 0 + 1, Len(<<>>)) /\ Covers(<<>>, <<>>, 0)
<1>1. <<>> \in Written /\ <<>> \in Pieces /\ Len(<<>>) = 0
  BY EmptySeq DEF Written, Pieces
<1>2. SubSeq(<<>>, 0 + 1, 0) = <<>>
  BY SubSeqEmpty
<1>3. Covers(<<>>, <<>>, 0)
  BY <1>1, NothingYet
<1> QED
  BY <1>1, <1>2, <1>3

LEMMA SentencesMove == SentencesInv /\ [Sentences!Next]_sentenceVars => SentencesInv'
<1> SUFFICES ASSUME SentencesInv, [Sentences!Next]_sentenceVars PROVE SentencesInv'
  OBVIOUS
<1>1. ASSUME NEW delta \in Deltas, Sentences!PushChunk(delta) PROVE SentencesInv'
  BY <1>1, TextIsPushed
<1>2. CASE Sentences!Flush
  BY <1>2, RestIsFlushed
<1>3. CASE Sentences!Reset
  <2>1. text' = <<>> /\ buf' = <<>> /\ pieces' = <<>> /\ first' = FALSE
    BY <1>3 DEF Sentences!Reset
  <2> QED
    BY <2>1, NothingSaid DEF SentencesInv
<1>4. CASE UNCHANGED sentenceVars
  BY <1>4 DEF SentencesInv, sentenceVars
<1> QED
  BY <1>1, <1>2, <1>3, <1>4 DEF Sentences!Next

(* Where the pieces end follows from the text and from how long they are. *)
LEMMA CoveredIsWritten == SentencesInv => Sentences!SaidAsWritten
<1> SUFFICES ASSUME SentencesInv PROVE Sentences!SaidAsWritten
  OBVIOUS
<1>1. PICK off \in 0 .. Len(text) : buf = SubSeq(text, off + 1, Len(text)) /\ Covers(pieces, text, off)
  BY DEF SentencesInv
<1>2. text \in Written /\ pieces \in Pieces
  BY DEF SentencesInv
<1>3. /\ Len(buf) = Len(text) - off /\ Len(text) \in Nat /\ off \in Nat /\ Len(pieces) \in Nat
      /\ DOMAIN text = 1 .. Len(text) /\ DOMAIN pieces = 1 .. Len(pieces)
  <2>1. Len(buf) = Len(text) - off /\ Len(text) \in Nat
    BY <1>1, <1>2, Tails
  <2>2. /\ Len(pieces) \in Nat
        /\ DOMAIN text = 1 .. Len(text) /\ DOMAIN pieces = 1 .. Len(pieces)
    BY <1>2, LenProperties DEF Pieces, Written
  <2> QED
    BY <2>1, <2>2
<1>4. PICK ends : /\ Laid(pieces, text, ends) /\ ends[Len(pieces)] <= off
                  /\ Sentences!Inked(text, ends[Len(pieces)] + 1, off) = {}
  BY <1>1 DEF Covers
<1>5. ends \in [0 .. Len(pieces) -> 0 .. Len(text)] /\ ends[0] = 0
  BY <1>4 DEF Laid
<1> DEFINE F(g) == [n \in 0 .. Len(pieces) |->
                      IF n = 0 THEN 0
                      ELSE Sentences!NextInk(g[n - 1] + 1) + Len(pieces[n]) - 1]
           chosen == CHOOSE g : g = F(g)
<1>6. ASSUME NEW n \in 1 .. Len(pieces)
      PROVE  /\ ends[n] = Sentences!NextInk(ends[n - 1] + 1) + Len(pieces[n]) - 1
             /\ pieces[n] # <<>> /\ ends[n] <= Len(text)
             /\ pieces[n] = SubSeq(text, ends[n] - Len(pieces[n]) + 1, ends[n])
  <2>1. n - 1 \in 0 .. Len(pieces) /\ n \in 0 .. Len(pieces)
    BY <1>3
  <2>2. ends[n - 1] \in 0 .. Len(text) /\ ends[n] \in 0 .. Len(text)
    BY <1>5, <2>1
  <2> DEFINE a == ends[n - 1]
             z == ends[n]
  <2>3. PICK b \in a + 1 .. z :
           /\ pieces[n] = SubSeq(text, b, z) /\ text[b] \notin Sentences!Blank
           /\ Sentences!Inked(text, a + 1, b - 1) = {}
    BY <1>4 DEF Laid
  <2> HIDE DEF a, z
  <2>4. a \in 0 .. Len(text) /\ z \in 0 .. Len(text)
    BY <2>2 DEF a, z
  <2>5. b \in 1 .. Len(text) /\ b \in Nat /\ z \in b .. Len(text) /\ a + 1 <= b /\ a + 1 \in Nat \ {0}
    BY <1>3, <2>3, <2>4
  <2>6. Len(pieces[n]) = z - b + 1
    <3>1. \A k \in b .. z : k \in 1 .. Len(text)
      BY <1>3, <2>5
    <3>2. \A k \in b .. z : text[k] \in Sentences!Kinds
      BY <1>2, <3>1, ElementOfSeq DEF Written
    <3>3. b \in Int /\ z \in Int /\ b <= z
      BY <1>3, <2>5
    <3> QED
      BY <2>3, <3>2, <3>3, SubSeqProperties
  <2>7. Sentences!NextInk(a + 1) = b
    <3> DEFINE Found(k) == /\ k <= Len(text) => text[k] \notin Sentences!Blank
                           /\ \A j \in a + 1 .. k - 1 : text[j] \in Sentences!Blank
    <3>1. b \in a + 1 .. Len(text) + 1 /\ Found(b)
      BY <1>3, <2>3, <2>5 DEF Sentences!Inked
    <3>2. ASSUME NEW k \in a + 1 .. Len(text) + 1, Found(k) PROVE k = b
      <4>1. k \in Nat
        BY <1>3, <2>5
      <4>2. CASE k < b
        <5>1. k \in a + 1 .. b - 1 /\ k <= Len(text)
          BY <1>3, <2>5, <4>1, <4>2
        <5> QED
          BY <3>1, <3>2, <5>1
      <4>3. CASE b < k
        <5>1. b \in a + 1 .. k - 1
          BY <2>5, <4>1, <4>3
        <5> QED
          BY <2>3, <3>2, <5>1
      <4> QED
        BY <2>5, <4>1, <4>2, <4>3
    <3>3. Sentences!NextInk(a + 1) = CHOOSE k \in a + 1 .. Len(text) + 1 : Found(k)
      BY DEF Sentences!NextInk
    <3> HIDE DEF Found
    <3> QED
      BY <3>1, <3>2, <3>3
  <2>8. Len(pieces[n]) # 0 /\ z = b + Len(pieces[n]) - 1 /\ z - Len(pieces[n]) + 1 = b /\ z <= Len(text)
    <3>1. \A y \in Nat, c \in Nat : c <= y =>
             /\ y - c + 1 # 0 /\ y = c + (y - c + 1) - 1 /\ y - (y - c + 1) + 1 = c
      OBVIOUS
    <3>2. z \in Nat /\ b <= z /\ z <= Len(text)
      BY <1>3, <2>5
    <3> QED
      BY <2>5, <2>6, <3>1, <3>2
  <2>9. pieces[n] # <<>>
    BY <2>8, EmptySeq
  <2> QED
    BY <2>3, <2>7, <2>8, <2>9 DEF a, z
<1>7. ends = F(ends)
  <2>1. \A n \in 0 .. Len(pieces) : n # 0 => n \in 1 .. Len(pieces)
    BY <1>3
  <2> QED
    BY <1>5, <1>6, <2>1
<1>8. chosen = F(chosen)
  <2> HIDE DEF F
  <2> QED
    BY <1>7, Zenon
<1> HIDE DEF chosen
<1>9. \A n \in 0 .. Len(pieces) : chosen[n] = ends[n]
  <2> DEFINE U == {n \in 0 .. Len(pieces) : chosen[n] = ends[n]}
  <2>1. 0 \in 0 .. Len(pieces) /\ \A n \in 1 .. Len(pieces) : n \in 0 .. Len(pieces) /\ n # 0
    BY <1>3
  <2>2. chosen[0] = 0
    BY <1>8, <2>1
  <2>3. \A n \in 1 .. Len(pieces) :
           chosen[n] = Sentences!NextInk(chosen[n - 1] + 1) + Len(pieces[n]) - 1
    BY <1>8, <2>1
  <2>4. 0 \in U /\ \A n \in 1 .. Len(pieces) : n - 1 \in U => n \in U
    BY <1>5, <1>6, <2>1, <2>2, <2>3
  <2>5. \A n \in 0 .. Len(pieces) : n \in U
    <3> HIDE DEF U
    <3> QED
      BY <1>3, <2>4, UpTo
  <2> QED
    BY <2>5
<1>10. Len(pieces) \in 0 .. Len(pieces) /\ \A n \in 1 .. Len(pieces) : n \in 0 .. Len(pieces)
  BY <1>3
<1>11. Len(text) - Len(buf) = off
  BY <1>3
<1>12. /\ \A n \in DOMAIN pieces :
             /\ pieces[n] # <<>> /\ chosen[n] <= Len(text)
             /\ pieces[n] = SubSeq(text, chosen[n] - Len(pieces[n]) + 1, chosen[n])
       /\ chosen[Len(pieces)] <= off /\ Sentences!Inked(text, chosen[Len(pieces)] + 1, off) = {}
       /\ buf = SubSeq(text, off + 1, Len(text))
  <2> HIDE DEF F
  <2> QED
    BY <1>1, <1>3, <1>4, <1>6, <1>9, <1>10
<1> QED
  BY <1>11, <1>12 DEF Sentences!SaidAsWritten, chosen

(***************************************************************************)
(* The words that are complete up to k begin words of the first piece too. *)
(***************************************************************************)
LEMMA WordsAreInThePiece ==
    ASSUME NEW s \in Written, NEW i \in 1 .. Len(s), NEW J,
           \A j \in J : /\ j \in 1 .. i /\ s[j] \notin Sentences!Blank
                        /\ j = 1 \/ s[j - 1] \in Sentences!Blank
    PROVE  LET piece == Sentences!Strip(s, 1, i)
           IN  Cardinality(Sentences!WordStarts(piece, Len(piece))) >= Cardinality(J)
<1> DEFINE piece == Sentences!Strip(s, 1, i)
           W == Sentences!WordStarts(piece, Len(piece))
<1>1. Len(s) \in Nat /\ i \in 0 .. Len(s) /\ 1 \in Nat \ {0} /\ i \in Nat
  <2>1. Len(s) \in Nat
    BY LenProperties DEF Written
  <2> QED
    BY <2>1
<1>2. piece \in Written
  BY <1>1, Stripped
<1>3. IsFiniteSet(W) /\ Cardinality(W) \in Nat
  <2>1. Len(piece) \in Int
    BY <1>2, LenProperties DEF Written
  <2>2. IsFiniteSet(1 .. Len(piece))
    BY <2>1, FS_Interval
  <2>3. W \in SUBSET (1 .. Len(piece))
    BY DEF Sentences!WordStarts
  <2> HIDE DEF W
  <2>4. IsFiniteSet(W)
    BY <2>2, <2>3, FS_Subset
  <2> QED
    BY <2>4, FS_CardinalityType
<1>4. CASE J = {}
  <2>1. Cardinality(J) = 0
    BY <1>4, FS_EmptySet
  <2> HIDE DEF W
  <2> QED
    BY <1>3, <2>1 DEF W
<1>5. CASE J # {}
  <2>1. \A j \in J : j \in Sentences!Inked(s, 1, i)
    BY DEF Sentences!Inked
  <2>2. Sentences!Inked(s, 1, i) # {}
    BY <1>5, <2>1
  <2>3. PICK b, e \in Sentences!Inked(s, 1, i) :
           /\ b \in 1 .. i /\ e \in b .. i
           /\ \A k \in Sentences!Inked(s, 1, i) : b <= k /\ k <= e
           /\ Len(piece) = e - b + 1
           /\ \A k \in 1 .. e - b + 1 : piece[k] = s[b + k - 1]
    BY <1>1, <2>2, Stripped
  <2> DEFINE f == [j \in J |-> j - b + 1]
  <2> HIDE DEF piece
  <2>4. \A j \in J : j \in Nat /\ b <= j /\ j <= e
    BY <2>1, <2>3
  <2>5. ASSUME NEW j \in J PROVE j - b + 1 \in W
    <3>1. /\ j - b + 1 \in 1 .. Len(piece) /\ j - b + 1 \in 1 .. e - b + 1
          /\ b + (j - b + 1) - 1 = j
      BY <2>3, <2>4
    <3>2. piece[j - b + 1] = s[j]
      BY <2>3, <3>1
    <3>3. ASSUME j - b + 1 # 1 PROVE piece[(j - b + 1) - 1] \in Sentences!Blank
      <4>1. /\ (j - b + 1) - 1 \in 1 .. e - b + 1 /\ b + ((j - b + 1) - 1) - 1 = j - 1 /\ j # 1
        BY <2>3, <2>4, <3>3
      <4>2. piece[(j - b + 1) - 1] = s[j - 1]
        BY <2>3, <4>1
      <4> QED
        BY <4>1, <4>2
    <3> QED
      BY <3>1, <3>2, <3>3 DEF Sentences!WordStarts
  <2>6. \A j, k \in J : j - b + 1 = k - b + 1 => j = k
    BY <2>3, <2>4
  <2> HIDE DEF W
  <2>7. f \in [J -> W] /\ \A j, k \in J : f[j] = f[k] => j = k
    BY <2>5, <2>6
  <2> HIDE DEF f
  <2>8. f \in Injection(J, W)
    BY <2>7 DEF Injection, IsInjective
  <2>9. IsFiniteSet(J) /\ Cardinality(J) <= Cardinality(W)
    BY <1>3, <2>8, FS_Injection
  <2>10. Cardinality(J) \in Nat
    BY <2>9, FS_CardinalityType
  <2> QED
    BY <1>3, <2>9, <2>10 DEF W, piece
<1> QED
  BY <1>4, <1>5

LEMMA EarlyPieceIsWhole ==
    ASSUME NEW s \in Written, NEW i \in Sentences!EarlyEnds(s)
    PROVE  LET piece == Sentences!Strip(s, 1, i)
           IN  \/ Len(piece) >= MinClause
               \/ Sentences!Cardinality(Sentences!WordStarts(piece, Len(piece))) >= FirstWords
<1>1. Len(s) \in Nat /\ DOMAIN s = 1 .. Len(s)
  BY LenProperties DEF Written
<1>2. i \in 1 .. Len(s)
  BY EarlyPiece
<1>3. \/ Sentences!ClauseEnds(s) # {} /\ i = Sentences!Min(Sentences!ClauseEnds(s))
      \/ i \in Sentences!WordEnds(s)
  BY DEF Sentences!EarlyEnds
<1>4. CASE Sentences!ClauseEnds(s) # {} /\ i = Sentences!Min(Sentences!ClauseEnds(s))
  <2>1. Sentences!ClauseEnds(s) \subseteq 1 .. Len(s)
    BY <1>1 DEF Sentences!ClauseEnds
  <2>2. /\ Sentences!ClauseEnds(s) \subseteq Nat
        /\ \A k \in Sentences!ClauseEnds(s) : k <= Len(s)
    BY <1>1, <2>1
  <2>3. i \in Sentences!ClauseEnds(s)
    BY <1>1, <1>4, <2>2, MinMax
  <2> QED
    BY <2>3 DEF Sentences!ClauseEnds
<1>5. CASE i \in Sentences!WordEnds(s)
  <2>1. PICK k \in Sentences!Complete(s) :
           /\ Sentences!Cardinality({j \in Sentences!Complete(s) : j <= k}) = FirstWords
           /\ i = Sentences!PastSpaces(s, Sentences!WordEnd(s, k))
    BY <1>5 DEF Sentences!WordEnds
  <2>2. \A j \in Sentences!Complete(s) :
           /\ j \in 1 .. Len(s) /\ s[j] \notin Sentences!Blank
           /\ j = 1 \/ s[j - 1] \in Sentences!Blank
    BY DEF Sentences!Complete, Sentences!WordStarts
  <2>3. Sentences!WordEnd(s, k) \in k .. Len(s)
    <3> DEFINE T == {j \in k .. Len(s) : \A m \in k .. j : s[m] \notin Sentences!Blank}
    <3>1. T \subseteq Nat /\ T \subseteq k .. Len(s) /\ \A j \in T : j <= Len(s)
      BY <1>1, <2>2
    <3>2. k \in T
      BY <1>1, <2>2
    <3>3. Sentences!WordEnd(s, k) = Sentences!Max(T)
      BY DEF Sentences!WordEnd
    <3> HIDE DEF T
    <3>4. T # {}
      BY <3>2
    <3>5. Sentences!Max(T) \in T
      BY <1>1, <3>1, <3>4, MinMax
    <3> QED
      BY <3>1, <3>3, <3>5
  <2>4. Sentences!WordEnd(s, k) \in 1 .. Len(s) /\ k \in Nat
    BY <1>1, <2>2, <2>3
  <2>5. i \in Sentences!WordEnd(s, k) .. Len(s)
    BY <2>1, <2>4, SpacesPassed
  <2>6. k <= i
    BY <1>1, <2>3, <2>4, <2>5
  <2> DEFINE J == {j \in Sentences!Complete(s) : j <= k}
  <2>7. \A j \in J : /\ j \in 1 .. i /\ s[j] \notin Sentences!Blank
                     /\ j = 1 \/ s[j - 1] \in Sentences!Blank
    BY <1>2, <2>2, <2>4, <2>6
  <2>8. Cardinality(J) = FirstWords
    <3>1. Sentences!Cardinality(J) = Cardinality(J)
      BY DEF Sentences!Cardinality, Cardinality
    <3> QED
      BY <2>1, <3>1
  <2> DEFINE W == Sentences!WordStarts(Sentences!Strip(s, 1, i), Len(Sentences!Strip(s, 1, i)))
  <2> HIDE DEF J
  <2>9. Cardinality(W) >= Cardinality(J)
    BY <1>2, <2>7, WordsAreInThePiece
  <2> HIDE DEF W
  <2>10. Sentences!Cardinality(W) = Cardinality(W)
    BY DEF Sentences!Cardinality, Cardinality
  <2>11. Sentences!Cardinality(W) >= FirstWords
    BY <2>8, <2>9, <2>10
  <2> QED
    BY <2>11 DEF W
<1> QED
  BY <1>3, <1>4, <1>5

LEMMA PiecesAreWhole ==
    SentencesInv /\ [Sentences!Next]_sentenceVars => [Sentences!NoFragments]_sentenceVars
<1> SUFFICES ASSUME SentencesInv, Sentences!Next PROVE Sentences!NoFragments
  OBVIOUS
<1>1. ASSUME NEW delta \in Deltas, Sentences!PushChunk(delta) PROVE Sentences!NoFragments
  <2> DEFINE s == buf \o delta
             t == text \o delta
  <2>1. PICK off \in 0 .. Len(text) :
           buf = SubSeq(text, off + 1, Len(text)) /\ Covers(pieces, text, off)
    BY DEF SentencesInv
  <2>2. /\ text \in Written /\ pieces \in Pieces /\ first \in BOOLEAN /\ delta \in Written
        /\ Len(pieces) \in Nat /\ DOMAIN pieces = 1 .. Len(pieces)
    BY DeltasAreWritten, LenProperties DEF SentencesInv, Pieces
  <2>3. /\ t \in Written /\ off \in 0 .. Len(t) /\ Covers(pieces, t, off)
        /\ s = SubSeq(t, off + 1, Len(t))
    BY <2>1, <2>2, MoreText, TailGrows
  <2>4. s \in Written /\ Len(s) \in Nat
    <3>1. s \in Written
      BY <2>3, Tails
    <3> QED
      BY <3>1, LenProperties DEF Written
  <2>5. CASE ~first /\ Sentences!EarlyEnds(s) # {}
    <3>1. PICK i \in Sentences!EarlyEnds(s) : pieces' = Append(pieces, Sentences!Strip(s, 1, i))
      BY <1>1, <2>5 DEF Sentences!PushChunk
    <3> HIDE DEF s, t
    <3> DEFINE piece == Sentences!Strip(s, 1, i)
    <3>2. \/ Len(piece) >= MinClause
          \/ Sentences!Cardinality(Sentences!WordStarts(piece, Len(piece))) >= FirstWords
      BY <2>4, <3>1, EarlyPieceIsWhole
    <3>3. piece \in Written
      <4>1. i \in 0 .. Len(s) /\ 1 \in Nat \ {0}
        BY <2>4, <3>1, EarlyPiece
      <4> QED
        BY <2>4, <4>1, Stripped
    <3> HIDE DEF piece
    <3>4. /\ pieces' \in Pieces /\ Len(pieces') = Len(pieces) + 1
          /\ pieces'[Len(pieces) + 1] = piece
      BY <2>2, <3>1, <3>3, AppendProperties DEF Pieces, piece
    <3>5. DOMAIN pieces' = 1 .. Len(pieces) + 1
      BY <3>4, LenProperties DEF Pieces
    <3>6. \A n \in DOMAIN pieces' \ DOMAIN pieces : n = Len(pieces) + 1
      BY <2>2, <3>5
    <3> QED
      BY <3>2, <3>4, <3>6 DEF Sentences!NoFragments
  <2>6. CASE ~(~first /\ Sentences!EarlyEnds(s) # {})
    <3> DEFINE from == Sentences!Emitted(s, FALSE)
               said == Sentences!Spoken(s, from)
    <3>1. pieces' = pieces \o said
      BY <1>1, <2>6 DEF Sentences!PushChunk
    <3>2. /\ said \in Pieces
          /\ \A n \in 1 .. Len(said) :
                Len(said[n]) >= (IF first THEN MinSentence ELSE MinClause)
      <4> HIDE DEF t
      <4>1. FALSE \in BOOLEAN
        OBVIOUS
      <4> QED
        BY <2>2, <2>3, <4>1, SpokenCovers
    <3> HIDE DEF s, t, from, said
    <3>3. Len(said) \in Nat /\ \A n \in 1 .. Len(said) : Len(said[n]) >= MinClause
      <4>1. ASSUME NEW n \in 1 .. Len(said) PROVE Len(said[n]) >= MinClause
        <5>1. said[n] \in Written
          BY <3>2, ElementOfSeq DEF Pieces
        <5>2. Len(said[n]) \in Nat
          BY <5>1, LenProperties DEF Written
        <5>3. Len(said[n]) >= MinSentence \/ Len(said[n]) >= MinClause
          BY <3>2
        <5> QED
          BY <5>2, <5>3, SentenceAssumption
      <4> QED
        BY <3>2, <4>1, LenProperties DEF Pieces
    <3>4. /\ pieces' \in Pieces /\ Len(pieces') = Len(pieces) + Len(said)
          /\ \A n \in 1 .. Len(pieces) + Len(said) :
                pieces'[n] = IF n <= Len(pieces) THEN pieces[n] ELSE said[n - Len(pieces)]
      BY <2>2, <3>1, <3>2, ConcatProperties DEF Pieces
    <3>5. DOMAIN pieces' = 1 .. Len(pieces) + Len(said)
      BY <3>4, LenProperties DEF Pieces
    <3>6. ASSUME NEW n \in DOMAIN pieces' \ DOMAIN pieces PROVE Len(pieces'[n]) >= MinClause
      <4>1. /\ n \in 1 .. Len(pieces) + Len(said) /\ ~(n <= Len(pieces))
            /\ n - Len(pieces) \in 1 .. Len(said)
        BY <2>2, <3>3, <3>5
      <4>2. pieces'[n] = said[n - Len(pieces)]
        BY <3>4, <4>1
      <4> QED
        BY <3>3, <4>1, <4>2
    <3> QED
      BY <3>6 DEF Sentences!NoFragments
  <2> QED
    BY <2>5, <2>6
<1>2. CASE Sentences!Flush
  BY <1>2 DEF Sentences!Flush, Sentences!NoFragments
<1>3. CASE Sentences!Reset
  <2>1. pieces' = <<>> /\ DOMAIN <<>> = {}
    BY <1>3 DEF Sentences!Reset
  <2> QED
    BY <2>1 DEF Sentences!NoFragments
<1> QED
  BY <1>1, <1>2, <1>3 DEF Sentences!Next

(***************************************************************************)
(* The answer is spoken as it is written (push_chunk, flush, reset): what  *)
(* was emitted and what waits are the text but for blanks between, and     *)
(* push_chunk emits no fragment, however long the text and however short   *)
(* or long a clause, a first piece and a sentence may be, as long as a     *)
(* sentence need not be shorter than a clause.                             *)
(***************************************************************************)
THEOREM AnswersAreSpokenWhole == Spec => SpokenWhole
<1>1. Init => SentencesInv
  BY NothingSaid DEF Init, Sentences!Init, SentencesInv
<1>2. SentencesInv /\ [Next]_vars => SentencesInv' /\ [Sentences!NoFragments]_sentenceVars
  BY EachPartByItself, SentencesMove, PiecesAreWhole
<1>3. SentencesInv => Sentences!SaidAsWritten
  BY CoveredIsWritten
<1>4. SentencesInv' => Sentences!SaidAsWritten'
  BY <1>3, PTL
<1>5. SentencesInv /\ [Next]_vars
        => SentencesInv' /\ [Sentences!SaidAsWritten' /\ Sentences!NoFragments]_(Sentences!vars)
  BY <1>2, <1>4 DEF Sentences!vars, sentenceVars
<1> QED
  BY <1>1, <1>5, PTL DEF Spec, SpokenWhole, Sentences!SpokenWhole
=============================================================================
