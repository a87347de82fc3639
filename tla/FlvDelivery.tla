---------------------------- MODULE FlvDelivery ----------------------------
(***************************************************************************)
(* What the FLV demuxer promises downstream, in either mode: each stream   *)
(* gets the frames of its tags one after the other in the order of the     *)
(* file, none left out and none twice, unless the buffer says that it is   *)
(* a discontinuity.  The first buffer after a flush says so.               *)
(***************************************************************************)
EXTENDS Integers, Sequences

CONSTANT Streams
VARIABLES file,     \* the tags, as in FlvTags
          at,       \* the tag of the last buffer of each stream, 0 for none
          discont   \* whether that buffer was a discontinuity

Frames(p) == {i \in DOMAIN file : file[i].type = p /\ file[i].packet = "raw"}

IsNext(p, i, j) == i # 0 /\ i < j /\ \A k \in Frames(p) : i < k => j <= k

Init == at = [p \in Streams |-> 0] /\ discont = [p \in Streams |-> FALSE]

\* The next frame, or any frame with the flag.
Deliver(p) ==
  /\ at'[p] \in Frames(p)
  /\ discont'[p] \/ IsNext(p, at[p], at'[p])
  /\ \A q \in Streams \ {p} : at'[q] = at[q]

\* A flush, or the end of a session: nothing was delivered since.
Flush == \A p \in Streams : at'[p] \in {0, at[p]}

\* The flags only matter when a frame is delivered.
Next ==
  /\ Flush \/ \E p \in Streams : Deliver(p)
  /\ discont' \in [Streams -> BOOLEAN]
  /\ UNCHANGED file

Spec == Init /\ [][Next]_<<file, at, discont>>

============================================================================
