---------------------------- MODULE MarkerFilter ----------------------------
(***************************************************************************)
(* The reading of one Host's stderr: MarkerFilter of src/privilege.rs, and *)
(* the cap of src/run/stream.rs.  The stream arrives in chunks that know   *)
(* nothing of sudo's marker; what is kept must be what the remote side     *)
(* printed beside it, up to the cap.                                       *)
(***************************************************************************)
EXTENDS Integers, SequencesExt

CONSTANTS
    Marker,     \* MARKER, as a sequence of symbols
    Cap         \* the symbols of a stream that are kept

\* No suffix of the marker starts another one, so two markers never overlap.
ASSUME MarkerAssumption ==
    /\ Len(Marker) > 0
    /\ \A k \in 1..(Len(Marker) - 1) :
           SubSeq(Marker, 1, k) # SubSeq(Marker, Len(Marker) - k + 1, Len(Marker))
    /\ Cap \in Nat

VARIABLES
    heldBack,   \* MarkerFilter.held
    kept,
    truncated

filterVars == <<heldBack, kept, truncated>>

FilterInit ==
    /\ heldBack = << >>
    /\ kept = << >>
    /\ truncated = FALSE

-----------------------------------------------------------------------------
\* Where the markers of a text end: `find`, again and again.
MarkerEnds(text) ==
    {n \in Len(Marker)..Len(text) :
        SubSeq(text, n - Len(Marker) + 1, n) = Marker}

\* How much of the end of a text may be the start of a marker.
Started(tail, most) ==
    Max({0} \cup {k \in 1..most : k <= Len(tail)
                               /\ IsSuffix(SubSeq(Marker, 1, k), tail)})

\* A slip: the longest start of a marker is not waited for.
SafePrefixOfShorter(tail) == Len(tail) - Started(tail, Len(Marker) - 2)

\* `safe_prefix`: how much of the text cannot be the start of a marker.
SafePrefix(tail) == Len(tail) - Started(tail, Len(Marker) - 1)

\* Where a text is not a marker's.
Beside(text) ==
    {i \in DOMAIN text : \A n \in MarkerEnds(text) : i > n \/ i <= n - Len(Marker)}

\* The k-th of some places: the one up to which there are k of them.
Kth(places, k) ==
    CHOOSE i \in places : Cardinality({j \in places : j <= i}) = k

\* A text without the markers in it: as it is when `find` finds none.
WithoutMarkers(text) ==
    IF MarkerEnds(text) = {} THEN text
    ELSE [k \in 1..Cardinality(Beside(text)) |-> text[Kth(Beside(text), k)]]

\* A slip: a stream is kept whole when it still has room as a chunk arrives.
KeepPastCap(text) ==
    LET all == kept \o text
    IN  /\ kept' = IF Len(kept) < Cap THEN all ELSE kept
        /\ truncated' = (truncated \/ Len(all) > Cap)

\* `keep`: as much as fits under the cap, and what does not is dropped.
Keep(text) ==
    LET all == kept \o text
    IN  /\ kept' = SubSeq(all, 1, Min({Cap, Len(all)}))
        /\ truncated' = (truncated \/ Len(all) > Cap)

\* `read_capped`: a stream that nobody watches for a marker.
ReadCapped(chunk) ==
    /\ Keep(chunk)
    /\ UNCHANGED heldBack

\* A slip: what was held back is dropped once a marker has been found.
PushForgetsHeld(chunk) ==
    LET text == heldBack \o chunk
        after == Max({0} \cup MarkerEnds(text))
        safe == after + SafePrefix(SubSeq(text, after + 1, Len(text)))
    IN  /\ Keep(WithoutMarkers(SubSeq(chunk, 1, safe - Len(heldBack))))
        /\ heldBack' = SubSeq(text, safe + 1, Len(text))

\* `push`: the chunk joins what was held back; the markers go, and whatever may
\* be the start of one is held back again.
Push(chunk) ==
    LET text == heldBack \o chunk
        after == Max({0} \cup MarkerEnds(text))
        safe == after + SafePrefix(SubSeq(text, after + 1, Len(text)))
    IN  /\ Keep(WithoutMarkers(SubSeq(text, 1, safe)))
        /\ heldBack' = SubSeq(text, safe + 1, Len(text))

\* Whether a marker ends in this chunk.
Asked(chunk) == MarkerEnds(heldBack \o chunk) # {}

\* `finish`: the stream has ended, and nothing can complete a marker any more.
FinishFilter ==
    /\ Keep(heldBack)
    /\ heldBack' = << >>
=============================================================================
