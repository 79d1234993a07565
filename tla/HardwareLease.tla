---------------------------- MODULE HardwareLease ----------------------------
(***************************************************************************)
(* What hardware admission promises its callers: accessors share the       *)
(* hardware, a lifecycle transition has it alone, and a device that is     *)
(* terminally parked never admits anyone again.                            *)
(***************************************************************************)
CONSTANTS Actor,   \* who may use the hardware
          Nobody   \* not an actor

VARIABLES
    holders,    \* actors admitted to the hardware
    exclusive,  \* the actor that owns it alone, or Nobody
    dead        \* the device is terminally parked

lease == <<holders, exclusive, dead>>

LeaseInit ==
    /\ holders = {}
    /\ exclusive = Nobody
    /\ dead = FALSE

\* Accessors share; under a transition only its owner is admitted.
Admit(a) ==
    /\ ~dead
    /\ exclusive \in {Nobody, a}
    /\ holders' = holders \cup {a}
    /\ UNCHANGED <<exclusive, dead>>

Leave(a) ==
    /\ a \in holders
    /\ holders' = holders \ {a}
    /\ UNCHANGED <<exclusive, dead>>

\* The hardware is handed over only when nobody uses it, and not for recovery
\* of a dead device.  Teardown may still claim a dead device.
Claim(a) ==
    /\ exclusive = Nobody
    /\ holders = {}
    /\ exclusive' = a
    /\ UNCHANGED <<holders, dead>>

GiveUp(a) ==
    /\ exclusive = a
    /\ holders = {}
    /\ exclusive' = Nobody
    /\ UNCHANGED <<holders, dead>>

Die ==
    /\ dead' = TRUE
    /\ UNCHANGED <<holders, exclusive>>

LeaseNext ==
    \/ \E a \in Actor : Admit(a) \/ Leave(a) \/ Claim(a) \/ GiveUp(a)
    \/ Die

LeaseSpec == LeaseInit /\ [][LeaseNext]_lease

\* Accessors never share the hardware with the owner of a transition.
OwnerAlone == exclusive # Nobody => holders \subseteq {exclusive}
==============================================================================
