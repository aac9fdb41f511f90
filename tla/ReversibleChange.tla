-------------------------- MODULE ReversibleChange --------------------------
(***************************************************************************)
(* What the operator tools that change the host in several steps promise:  *)
(* how the host was is noted before the first step, the note is given up   *)
(* only where the host is as it was or as it shall be, and so a host found *)
(* between the two, after a kill or a failure, has a note to go back by.   *)
(***************************************************************************)
VARIABLES
    place,      \* the host: as it was, between, or as it shall be
    noted       \* the complete record of how the host was exists

vars == <<place, noted>>

Places == {"before", "between", "after"}

Init == place = "before" /\ noted = FALSE

(* Before the first step the note is written.                                *)
Note == place = "before" /\ noted' = TRUE /\ UNCHANGED place

(* A step of a noted change, forward or back; it may give up the note with    *)
(* the step that leaves the host as it was or as it shall be.                *)
Change ==
    /\ noted
    /\ place' \in Places /\ noted' \in BOOLEAN
    /\ place' = "between" => noted'

Next == Note \/ Change

Spec == Init /\ [][Next]_vars

TypeOK == place \in Places /\ noted \in BOOLEAN

(* A host between the two has its record.                                    *)
WayBack == place = "between" => noted
=============================================================================
