-------------------------- MODULE ComponentStatus ---------------------------
(***************************************************************************)
(* One chip of the pipeline panel (ComponentStatus, app/web_server.py): a  *)
(* state, and the state a processing span goes back to.  Every operator is *)
(* a method: it maps the chip before to the chip after.                    *)
(***************************************************************************)

ChipStates == {"ready", "error", "missing", "processing"}
Chip == [state : ChipStates, prev : ChipStates \cup {""}]

NewChip(s) == [state |-> s, prev |-> ""]

\* set_ready, set_error, set_missing, and fail.
Set(c, s) == [c EXCEPT !.state = s]

\* begin: a nested span keeps where the outer one came from.
Begun(c) ==
    IF c.state = "processing" THEN c ELSE [state |-> "processing", prev |-> c.state]

Before(c) == IF c.prev = "" THEN "ready" ELSE c.prev

\* end: back to the state before, unless something else was painted meanwhile.
Ended(c) ==
    [state |-> IF c.state = "processing" THEN Before(c) ELSE c.state, prev |-> ""]

\* end, and then the stage event "completed", which recovers from an error.
Completed(c) == IF Ended(c).state = "error" THEN Set(Ended(c), "ready") ELSE Ended(c)
=============================================================================
