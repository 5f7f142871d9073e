--------------------------- MODULE ReadersWriters ---------------------------
(***************************************************************************)
(* What a lock for many readers or one writer promises.                    *)
(***************************************************************************)
CONSTANT Procs

VARIABLES readers, writers
vars == <<readers, writers>>

Init == readers = {} /\ writers = {}

StartRead(p) ==
    /\ p \notin readers
    /\ writers = {}
    /\ readers' = readers \cup {p}
    /\ UNCHANGED writers

EndRead(p) ==
    /\ p \in readers
    /\ readers' = readers \ {p}
    /\ UNCHANGED writers

StartWrite(p) ==
    /\ readers = {}
    /\ writers = {}
    /\ writers' = {p}
    /\ UNCHANGED readers

EndWrite(p) ==
    /\ p \in writers
    /\ writers' = writers \ {p}
    /\ UNCHANGED readers

Downgrade(p) ==
    /\ p \in writers
    /\ writers' = writers \ {p}
    /\ readers' = readers \cup {p}

Next ==
    \E p \in Procs :
        \/ StartRead(p)
        \/ EndRead(p)
        \/ StartWrite(p)
        \/ EndWrite(p)
        \/ Downgrade(p)

Spec == Init /\ [][Next]_vars
=============================================================================
