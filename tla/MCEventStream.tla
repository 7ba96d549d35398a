--------------------------- MODULE MCEventStream ---------------------------
(* Instances of EventStream for TLC. *)
EXTENDS EventStream

ASSUME EventStreamAssumption

\* Fresh connections and resumes before, inside and beyond the retained rows.
MCAfters == {None, 0, 1, 2, 6}

=============================================================================
