------------------------------- MODULE ScanLife -------------------------------
(***************************************************************************)
(* What the rest of the system relies on about one Scan: it is over at     *)
(* most once and then stays as it is, and its EndTime is set when it ends, *)
(* in the same write as its last state, or never.                          *)
(***************************************************************************)

VARIABLES finished,  \* the state is Done or Failed
          endTime    \* EndTime is set

Init == finished = FALSE /\ endTime = FALSE

End ==
    /\ ~finished
    /\ finished' = TRUE
    /\ endTime' \in BOOLEAN

Spec == Init /\ [][End]_<<finished, endTime>>
=============================================================================
