----------------------------- MODULE HttpStream -----------------------------
(***************************************************************************)
(* One request to a model server (models/providers/http.py): generate()    *)
(* takes the whole answer, stream() hands over texts as they come, puts    *)
(* the fragments of the tool calls together by their index and hands those *)
(* over when the server is done.  A text or a fragment is the position of  *)
(* its event on the wire.                                                  *)
(***************************************************************************)
EXTENDS Naturals, Sequences, SequencesExt, FiniteSetsExt

CONSTANTS Indices,      \* of tool calls
          MaxEvents     \* bound: events of one answer

VARIABLES
    phase,      \* asked, streaming, yielded, the tools or the final chunk to hand over, over
    sent,       \* the events of the server so far
    acc,        \* accumulated_tools: index -> id, name and arguments, as fragments
    got,        \* what the consumer has been handed
    outcome     \* how the call ended

httpVars == <<phase, sent, acc, got, outcome>>

Fragment == {"head", "part", "whole"}

(* A keep-alive or a comment is an event with nothing in it.                *)
Events == [what : {"nothing", "text", "finish", "usage"}, index : {0}]
          \cup [what : Fragment, index : Indices]
Failures == {"ModelAPIError", "ModelConnectionError", "ModelTimeoutError", "ModelResponseError"}
Fragments == Seq(1 .. MaxEvents)

TypeOK ==
    /\ phase \in {"asked", "streaming", "yielded", "tools", "final", "over"}
    /\ sent \in Seq(Events) /\ Len(sent) <= MaxEvents
    /\ DOMAIN acc \subseteq Indices
    /\ \A i \in DOMAIN acc : acc[i].name \in Fragments /\ acc[i].args \in Fragments
    /\ outcome \in {"none", "answered", "closed", "no call"} \cup Failures

Init ==
    /\ phase = "asked" /\ sent = <<>> /\ acc = <<>> /\ got = <<>> /\ outcome = "none"

Over(how) == phase' = "over" /\ outcome' = how
Yields(item) == got' = Append(got, item)

-----------------------------------------------------------------------------
(* generate: one answer, whose tool calls with unreadable arguments are     *)
(* dropped; _wrap_http_error names the failure.                            *)

Generated ==
    /\ phase = "asked"
    /\ \E readable \in SUBSET Indices :
          got' = [k \in 1 .. Cardinality(readable) |->
                    <<"call", SetToSortSeq(readable, <)[k]>>]
    /\ Over("answered")
    /\ UNCHANGED <<sent, acc>>

(* The request, the status, the answer as JSON or its shape is at fault.    *)
RequestFails ==
    /\ phase = "asked"
    /\ \E e \in Failures : Over(e)
    /\ UNCHANGED <<sent, acc, got>>

-----------------------------------------------------------------------------
(* stream: _stream_generator *)

Connected ==
    /\ phase = "asked"
    /\ phase' = "streaming"
    /\ UNCHANGED <<sent, acc, got, outcome>>

Nothing == [id |-> 0, name |-> <<>>, args |-> <<>>]

(* One fragment of a tool call: its head carries id and name, arguments     *)
(* come in parts, or whole when the server sends an object.                *)
Extended(made, what, at) ==
    CASE what = "head"  -> [made EXCEPT !.id = at, !.name = Append(@, at)]
      [] what = "part"  -> [made EXCEPT !.args = Append(@, at)]
      [] what = "whole" -> [made EXCEPT !.args = <<at>>]

Accumulated(what, i, at) ==
    LET before == IF i \in DOMAIN acc THEN acc[i] ELSE Nothing
    IN  [j \in DOMAIN acc \cup {i} |-> IF j = i THEN Extended(before, what, at) ELSE acc[j]]

Receive ==
    /\ phase = "streaming" /\ Len(sent) < MaxEvents
    /\ \E e \in Events :
          /\ sent' = Append(sent, e)
          /\ IF e.what = "text" THEN Yields(<<"text", Len(sent')>>) /\ phase' = "yielded"
             ELSE UNCHANGED <<got, phase>>
          /\ acc' = IF e.what \in Fragment
                    THEN Accumulated(e.what, e.index, Len(sent')) ELSE acc
    /\ UNCHANGED outcome

Resumed ==
    /\ phase = "yielded"
    /\ phase' = IF Len(got) > 0 /\ Last(got)[1] = "call" THEN "tools" ELSE "streaming"
    /\ UNCHANGED <<sent, acc, got, outcome>>

(* The consumer closes the stream, or its task is cancelled. *)
Closed ==
    /\ phase \in {"streaming", "yielded"}
    /\ Over("closed")
    /\ UNCHANGED <<sent, acc, got>>

(* A malformed event, a broken connection or a timeout: nothing that was    *)
(* put together so far is handed over.                                     *)
StreamFails ==
    /\ phase = "streaming"
    /\ \E e \in Failures \ {"ModelAPIError"} : Over(e)
    /\ UNCHANGED <<sent, acc, got>>

(* [DONE], or a server that just closes. *)
ServerDone ==
    /\ phase = "streaming"
    /\ phase' = "tools"
    /\ UNCHANGED <<sent, acc, got, outcome>>

HandedOver == {i \in Indices : \E k \in DOMAIN got : got[k][1] = "call" /\ got[k][2] = i}

HandOver_AsTheyCame ==
    /\ phase = "tools"
    /\ \E i \in DOMAIN acc \ HandedOver :
          /\ \A j \in DOMAIN acc \ HandedOver : acc[i].id <= acc[j].id
          /\ Yields(<<"call", i, acc[i]>>)
    /\ phase' = "yielded"
    /\ UNCHANGED <<sent, acc, outcome>>

HandOver ==
    /\ phase = "tools" /\ DOMAIN acc # HandedOver
    /\ LET i == Min(DOMAIN acc \ HandedOver) IN Yields(<<"call", i, acc[i]>>)
    /\ phase' = "yielded"
    /\ UNCHANGED <<sent, acc, outcome>>

(* A call whose id or name is no string cannot be made: the rest is lost.   *)
CallRefused ==
    /\ phase = "tools" /\ DOMAIN acc # HandedOver
    /\ Over("no call")
    /\ UNCHANGED <<sent, acc, got>>

LastOf(what) == Max({0} \cup {k \in DOMAIN sent : sent[k].what = what})

Final ==
    /\ phase = "tools" /\ DOMAIN acc = HandedOver
    /\ Yields(<<"final", LastOf("finish"), LastOf("usage")>>)
    /\ Over("answered")
    /\ UNCHANGED <<sent, acc>>

Next ==
    \/ Generated \/ RequestFails \/ Connected \/ Receive \/ Resumed \/ Closed
    \/ StreamFails \/ ServerDone \/ HandOver \/ CallRefused \/ Final

-----------------------------------------------------------------------------
(* What the server meant by a call: its last id, its names joined and its   *)
(* arguments since the last whole object.                                  *)
Ascending(list, S) ==
    /\ ToSet(list) = S
    /\ \A m, n \in DOMAIN list : m < n => list[m] < list[n]

Texts(stream) == {k \in DOMAIN stream : stream[k].what = "text"}
Of(i, kinds, stream) == {k \in DOMAIN stream : stream[k].index = i /\ stream[k].what \in kinds}
Called(stream) == {i \in Indices : Of(i, Fragment, stream) # {}}
SinceWhole(i, stream) ==
    {k \in Of(i, {"part", "whole"}, stream) : \A w \in Of(i, {"whole"}, stream) : w <= k}

Meant(i, made, stream) ==
    /\ Ascending(made.name, Of(i, {"head"}, stream))
    /\ Ascending(made.args, SinceWhole(i, stream))
    /\ made.id = IF made.name = <<>> THEN 0 ELSE Last(made.name)

Given(list, from, to) == {list[n][2] : n \in from .. to}
InOrder(kind, list, from, to) ==
    \A n \in from .. to : list[n][1] = kind /\ \A m \in from .. n - 1 : list[m][2] < list[n][2]

(* However the server cuts and interleaves its answer, the consumer is      *)
(* handed what it meant: its texts in their order, then its calls by index, *)
(* none before the server is done or after its error, and one last chunk   *)
(* when all was handed over (_stream_generator).                           *)
AnswerIsWhatWasMeant ==
    sent # <<>> =>
      \E t \in 0 .. Len(got) : \E c \in t .. Len(got) :
         /\ InOrder("text", got, 1, t) /\ Given(got, 1, t) = Texts(sent)
         /\ InOrder("call", got, t + 1, c) /\ Given(got, t + 1, c) \subseteq Called(sent)
         /\ \A n \in t + 1 .. c :
               /\ Meant(got[n][2], got[n][3], sent)
               /\ \A i \in Called(sent) : i < got[n][2] => i \in Given(got, t + 1, c)
         /\ phase = "streaming" \/ outcome \in Failures => c = t
         /\ IF outcome = "answered"
            THEN /\ Given(got, t + 1, c) = Called(sent) /\ Len(got) = c + 1
                 /\ got[c + 1] = <<"final", LastOf("finish"), LastOf("usage")>>
            ELSE Len(got) = c
=============================================================================
