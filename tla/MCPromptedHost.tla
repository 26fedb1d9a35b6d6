--------------------------- MODULE MCPromptedHost ---------------------------
(* A small instance of PromptedHost for TLC. *)
EXTENDS PromptedHost

\* Like rshx-password:, a marker whose first symbol comes back inside it, and
\* that overlaps no other marker.
RshxMarker == <<"r", "r", "s">>
=============================================================================
