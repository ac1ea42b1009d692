--------------------------- MODULE ResourceMirror ---------------------------
(***************************************************************************)
(* What a resource controller promises of the backends: each of them       *)
(* mirrors the custom resources through one snapshot at a time.            *)
(*                                                                         *)
(* The controller takes a snapshot of one object (Absent if it is gone)    *)
(* and applies it to instances in any order, some of them or none, before  *)
(* it drops it and takes the next one.  A copy changes in no other way,    *)
(* except that a backend may lose all of its copies at once.  Since each   *)
(* snapshot is what the object holds at that moment, and the previous one  *)
(* is dropped by then, no copy ever moves back to older contents.          *)
(***************************************************************************)
CONSTANTS
    Objects,        \* keys of the custom resources
    Instances,      \* keys of the Perses objects
    Values,         \* contents of an object
    Absent          \* no object, no copy, no snapshot

VARIABLES
    wanted,         \* contents of the objects
    snapshot,       \* the snapshot being applied
    copy            \* the copies each instance has

vars == <<wanted, snapshot, copy>>

Contents == Values \cup {Absent}
NoSnapshot == [obj |-> Absent, value |-> Absent]

Init ==
    /\ wanted = [o \in Objects |-> Absent]
    /\ snapshot = NoSnapshot
    /\ copy = [i \in Instances |-> [o \in Objects |-> Absent]]

\* A user creates, edits or deletes an object.
Change(o, v) ==
    /\ wanted' = [wanted EXCEPT ![o] = v]
    /\ UNCHANGED <<snapshot, copy>>

\* A pass over an object begins ...
Take(o) ==
    /\ snapshot = NoSnapshot
    /\ snapshot' = [obj |-> o, value |-> wanted[o]]
    /\ UNCHANGED <<wanted, copy>>

\* ... brings an instance up to the snapshot ...
Apply(i) ==
    /\ snapshot # NoSnapshot
    /\ copy' = [copy EXCEPT ![i][snapshot.obj] = snapshot.value]
    /\ UNCHANGED <<wanted, snapshot>>

\* ... and ends, complete or not.
Drop ==
    /\ snapshot' = NoSnapshot
    /\ UNCHANGED <<wanted, copy>>

\* An instance starts over with empty storage.
Lose(i) ==
    /\ copy' = [copy EXCEPT ![i] = [o \in Objects |-> Absent]]
    /\ UNCHANGED <<wanted, snapshot>>

Next ==
    \/ \E o \in Objects : Take(o) \/ \E v \in Contents : Change(o, v)
    \/ \E i \in Instances : Apply(i) \/ Lose(i)
    \/ Drop

Spec == Init /\ [][Next]_vars
=============================================================================
