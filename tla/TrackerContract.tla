-------------------------- MODULE TrackerContract --------------------------
(***************************************************************************)
(* What a tracker promises, without its two maps and without the pruning:  *)
(* a watcher observes an object if and only if it tracked some reference   *)
(* that covers the object no longer than a lease ago.  (README.md:934-936) *)
(***************************************************************************)
EXTENDS Integers

CONSTANTS
  Watchers,  \* who tracks
  Refs,      \* what can be tracked
  Objects,   \* the states tracked objects can be in
  Covers,    \* the pairs <<reference, object>> that match
  Lease      \* how long a track request counts

VARIABLES
  age,       \* how long ago each watcher tracked each reference
  answer     \* the last answer of GetObservers

vars == <<age, answer>>

Forgotten == Lease + 1

Observers(o) ==
  {w \in Watchers : \E r \in Refs : <<r, o>> \in Covers /\ age[w][r] <= Lease}

Init ==
  /\ age = [w \in Watchers |-> [r \in Refs |-> Forgotten]]
  /\ answer = {}

Track(w, r) ==
  /\ age' = [age EXCEPT ![w] = [@ EXCEPT ![r] = 0]]
  /\ UNCHANGED answer

Ask(o) == answer' = Observers(o) /\ UNCHANGED age

Tick ==
  /\ age' = [w \in Watchers |-> [r \in Refs |->
               IF age[w][r] <= Lease THEN age[w][r] + 1 ELSE Forgotten]]
  /\ UNCHANGED answer

Next ==
  \/ \E w \in Watchers, r \in Refs : Track(w, r)
  \/ \E o \in Objects : Ask(o)
  \/ Tick

Spec == Init /\ [][Next]_vars
=============================================================================
