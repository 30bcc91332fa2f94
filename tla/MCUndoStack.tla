------------------------------ MODULE MCUndoStack ------------------------------
(* TLC instance of UndoStack; its cfg sets the bounds. *)
EXTENDS UndoStack
================================================================================
