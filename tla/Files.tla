------------------------------- MODULE Files -------------------------------
(***************************************************************************)
(* What a file holds when it is rewritten: open(path, "w") empties it, and *)
(* the text goes in at the writer's own offset, the start of the file.  A  *)
(* text that goes in over another one leaves the end of the longer one     *)
(* standing, so that the file can no longer be parsed; which of the two is *)
(* longer is not modelled.                                                 *)
(***************************************************************************)
FileStates == {"empty", "whole", "garbled"}

File(Data) == [state : FileStates, data : Data]

Whole(d)   == [state |-> "whole", data |-> d]

Emptied(f) == [f EXCEPT !.state = "empty"]

(* The files that may result from putting the text of d into file f. *)
Filled(f, d) == {Whole(d)} \cup
                (IF f.state = "empty" THEN {} ELSE {[f EXCEPT !.state = "garbled"]})

Parses(f) == f.state = "whole"
=============================================================================
