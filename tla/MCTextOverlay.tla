---------------------------- MODULE MCTextOverlay ----------------------------
(* Instances of TextOverlay. *)
EXTENDS TextOverlay, TLC

F(start, dur) == [start |-> start, dur |-> dur]
S(start, stop, base) ==
  [defined |-> TRUE, start |-> start, stop |-> stop, base |-> base, position |-> start]

\* Frames of two units, one after the other, the second without a duration.
MCFrames == {F(0, 2), F(2, NONE)}
\* Texts that end with a frame and within the next, and one without end; each
\* may be too old or, where a segment cuts it, to come.
MCTexts == {F(0, 2), F(1, 2), F(3, NONE)}
MCGaps == {3}
\* A frame may begin before it, and one may end after it.
MCSegments == {S(1, 3, 0)}
MCTextSegments == {S(2, NONE, 2)}
C(size, meta, handled) == [size |-> size, meta |-> meta, handled |-> handled]
\* In the one size some texts have no room, in the other some are a line.
MCImages == 1 :> {"picture", "nothing"} @@ 2 :> {"picture", "line"}
MCCaps == {C(1, FALSE, TRUE), C(2, FALSE, FALSE), C(1, TRUE, TRUE)}
P(plain, feature, alloc) == [plain |-> plain, feature |-> feature, alloc |-> alloc]
MCPeers == {P(TRUE, FALSE, FALSE), P(TRUE, TRUE, FALSE), P(TRUE, TRUE, TRUE)}

\* What is negotiated is varied with the clock; with a text pad, what arrives.
OneOrTheOther ==
  overlay.text_sinkpad => peer.feature = FALSE /\ sinkcaps \in {NoCaps, C(1, FALSE, TRUE)}
=============================================================================
