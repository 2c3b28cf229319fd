--------------------------- MODULE MCTrackedReads --------------------------
(* The object and the references the reconcilers may read, for TLC. *)
EXTENDS TrackedReads, TLC

CONSTANTS red, blue, ns, kind, a

AllLabels == {red, blue}
SomeSelectors == {{red}, {red, blue}}
OneId == {[kind |-> kind, namespace |-> ns, name |-> a]}

\* TrackAndGet, TrackAndList with labels, TrackAndList of everything everywhere
ByName == [kind |-> kind, namespace |-> ns, name |-> a, selector |-> NoSelector]
BySelector(space, s) == [kind |-> kind, namespace |-> space, name |-> NoName, selector |-> s]
AllReads == {ByName, BySelector(ns, {red}), BySelector(NoNamespace, {red, blue})}
=============================================================================
