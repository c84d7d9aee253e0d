--------------------------- MODULE SnapshotStore ---------------------------
(***************************************************************************)
(* What the snapshot registry promises to its users, with no slots, pins   *)
(* or atomics: one current state, and for each thread either nothing or a  *)
(* view.  A view is the state that was current at one instant between the  *)
(* call and the return of pin_current, and it does not change, whatever is *)
(* published meanwhile, until the thread releases it.                      *)
(***************************************************************************)
EXTENDS Integers

CONSTANTS
    Threads,     \* every thread that may pin a snapshot
    Payload,     \* contents of a CoreState other than its revision
    InitPayload, \* the contents of a default constructed CoreState
    NoView       \* a thread that holds no snapshot

State == [revision : Nat, devices : Payload]

InitState == [revision |-> 0, devices |-> InitPayload]

VARIABLES
    current,  \* the state readers are given
    view      \* view[t]: the state thread t holds pinned, or NoView

vars == <<current, view>>

TypeOK ==
    /\ current \in State
    /\ view \in [Threads -> State \cup {NoView}]

Init ==
    /\ current = InitState
    /\ view = [t \in Threads |-> NoView]

\* A thread obtains the state that is current now.
Acquire(t) ==
    /\ view[t] = NoView
    /\ view' = [view EXCEPT ![t] = current]
    /\ UNCHANGED current

Release(t) ==
    /\ view[t] # NoView
    /\ view' = [view EXCEPT ![t] = NoView]
    /\ UNCHANGED current

\* The runtime task replaces the current state by one of a higher revision.
Publish ==
    /\ current' \in State
    /\ current'.revision > current.revision
    /\ UNCHANGED view

Next ==
    \/ \E t \in Threads : Acquire(t) \/ Release(t)
    \/ Publish

Spec == Init /\ [][Next]_vars
=============================================================================
