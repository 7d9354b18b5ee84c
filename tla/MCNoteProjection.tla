-------------------------- MODULE MCNoteProjection --------------------------
(* Small instances of NoteProjection: one note, two requests to delete it. *)
EXTENDS NoteProjection

CONSTANTS n1, k1, k2, p1, p2, q1
=============================================================================
