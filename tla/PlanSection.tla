----------------------------- MODULE PlanSection -----------------------------
(***************************************************************************)
(* The stored plan inside a decision's body (adroit/src/plan.rs): where the *)
(* managed section is, what it holds, what is hand-written beside it, and  *)
(* the splice that puts a plan there.                                      *)
(*                                                                         *)
(* A body is the sequence of its lines that are not blank, and a line is   *)
(* what the code tells apart: the `## Implementation` heading, another     *)
(* `## ` heading, a begin or an end marker, an italic prompt, or prose.    *)
(***************************************************************************)
EXTENDS Naturals, Sequences, SequencesExt

Implementation == "## Implementation"
OtherHeading == "## "
Marker == "<!-- adroit:plan -->"
EndMarker == "<!-- /adroit:plan -->"
Prompt == "_prompt_"

Headings == {Implementation, OtherHeading}
Markers == {Marker, EndMarker}

\* The first line from i on that is one of lines; one past the body if none is.
FirstFrom(body, i, lines) ==
  LET at == {j \in i..Len(body) : body[j] \in lines} IN
  IF at = {} THEN Len(body) + 1 ELSE CHOOSE j \in at : \A k \in at : j <= k

BeginOf(body) == FirstFrom(body, 1, {Marker})
Marked(body) == BeginOf(body) <= Len(body)

\* The heading belongs to the span when it is the line above the marker.
SpanStart(body) ==
  LET b == BeginOf(body) IN
  IF b > 1 /\ body[b - 1] = Implementation THEN b - 1 ELSE b

\* The end marker decides, wherever it is; when it is lost, the next heading does.
ContentEnd(body) ==
  LET from == BeginOf(body) + 1
      end == FirstFrom(body, from, {EndMarker}) IN
  IF end <= Len(body) THEN end ELSE FirstFrom(body, from, Headings)

SpanEnd(body) ==
  LET end == ContentEnd(body) IN
  IF end <= Len(body) /\ body[end] = EndMarker THEN end + 1 ELSE end

\* The stored plan; the empty sequence when there is none.
Extract(body) ==
  IF Marked(body) THEN SubSeq(body, BeginOf(body) + 1, ContentEnd(body) - 1) ELSE <<>>

Replaceable(content) == ToSet(content) \subseteq {Prompt}

\* What stands under the heading at line i.
Under(body, i) == SubSeq(body, i + 1, FirstFrom(body, i + 1, Headings) - 1)

HasHandWrittenSection(body) ==
  \E i \in 1..Len(body) :
     /\ body[i] = Implementation
     /\ ~(Marked(body) /\ i \in SpanStart(body)..(SpanEnd(body) - 1))
     /\ ~Replaceable(Under(body, i))

Section(plan) == <<Implementation, Marker>> \o plan \o <<EndMarker>>

Splice(body, plan) ==
  LET first == FirstFrom(body, 1, {Implementation})
      Put(start, end) ==
        SubSeq(body, 1, start - 1) \o Section(plan) \o SubSeq(body, end, Len(body))
  IN IF Marked(body) THEN Put(SpanStart(body), SpanEnd(body))
     ELSE IF first <= Len(body) /\ Replaceable(Under(body, first))
          THEN Put(first, FirstFrom(body, first + 1, Headings))
          ELSE body \o Section(plan)
=============================================================================
