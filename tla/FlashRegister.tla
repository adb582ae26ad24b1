--------------------------- MODULE FlashRegister ---------------------------
(***************************************************************************)
(* What the serial flash promises to the parameters: one register for each *)
(* area.  A save that ends while there is power has replaced the contents  *)
(* of its area by what it was given; a power cut may spoil the area whose  *)
(* save it interrupts, and no other.                                       *)
(***************************************************************************)
CONSTANTS Area,         \* the areas
          Content(_),   \* what an area can hold
          NoSave        \* no save is under way

VARIABLES stored,       \* the registers
          asked,        \* the save under way
          power

vars == <<stored, asked, power>>

Request == UNION {[area : {a}, data : Content(a)] : a \in Area}

Init ==
    /\ stored \in [Area -> UNION {Content(a) : a \in Area}]
    /\ \A a \in Area : stored[a] \in Content(a)
    /\ asked = NoSave /\ power = "on"

Ask(request) ==
    /\ power = "on" /\ asked = NoSave
    /\ asked' = request
    /\ UNCHANGED <<stored, power>>

Finish ==
    /\ power = "on" /\ asked # NoSave
    /\ stored' = [stored EXCEPT ![asked.area] = asked.data]
    /\ asked' = NoSave
    /\ UNCHANGED power

Cut ==
    /\ power = "on"
    /\ IF asked = NoSave
       THEN UNCHANGED stored
       ELSE \E rubbish \in Content(asked.area) : stored' = [stored EXCEPT ![asked.area] = rubbish]
    /\ asked' = NoSave /\ power' = "off"

Restart == power = "off" /\ power' = "on" /\ UNCHANGED <<stored, asked>>

Next == (\E request \in Request : Ask(request)) \/ Finish \/ Cut \/ Restart

Spec == Init /\ [][Next]_vars
=============================================================================
