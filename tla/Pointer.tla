------------------------------ MODULE Pointer ------------------------------
(***************************************************************************)
(* What the render task promises Slint about the pointer: a press and its  *)
(* release alternate, and the release is at the point of the press.  Touch *)
(* implements this.                                                        *)
(***************************************************************************)
EXTENDS Integers

CONSTANT Positions         \* the points of the window

VARIABLE event             \* the last event, with a number that tells it from the one before

Event(kind, position, serial) == [kind |-> kind, position |-> position, serial |-> serial]

Init == event \in {Event("PointerReleased", position, 0) : position \in Positions}

Press ==
    /\ event.kind = "PointerReleased"
    /\ \E position \in Positions : event' = Event("PointerPressed", position, 1 - event.serial)

Release ==
    /\ event.kind = "PointerPressed"
    /\ event' = Event("PointerReleased", event.position, 1 - event.serial)

Next == Press \/ Release

Spec == Init /\ [][Next]_event
=============================================================================
