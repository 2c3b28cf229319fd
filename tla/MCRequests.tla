----------------------------- MODULE MCRequests -----------------------------
(***************************************************************************)
(* Trees of sub reconcilers and configurations for model checking          *)
(* Requests.  An object has two fields: spec, which the reconcilers care   *)
(* about, and side, which the webhook sets according to spec.              *)
(***************************************************************************)
EXTENDS Requests

Obj(spec, side) == [spec |-> spec, side |-> side]

MCObjects == {Obj(spec, side) : spec \in {Unset, "a", "b"}, side \in {Unset, "x", "y"}}

MCDefaulted == [o \in MCObjects |-> IF o.spec = Unset THEN [o EXCEPT !.spec = "a"] ELSE o]

-----------------------------------------------------------------------------
(* What authors' functions do. *)

Out(requeue, after, err, obj) ==
  [result |-> [requeue |-> requeue, after |-> after], err |-> err, obj |-> obj]

Undefined == [o \in MCObjects |-> {}]
Looks == [o \in MCObjects |-> {Out(FALSE, 0, {}, o)}]
Waits == [o \in MCObjects |-> {Out(FALSE, 0, {}, o), Out(FALSE, 1, {}, o), Out(TRUE, 2, {}, o)}]
Fails == [o \in MCObjects |-> {Out(FALSE, 2, {}, o), Out(FALSE, 1, {"fail"}, o)}]
Halts == [o \in MCObjects |-> {Out(FALSE, 0, {}, o), Out(FALSE, 1, {"halt"}, o)}]
Sets == [o \in MCObjects |->
          {Out(FALSE, 0, {}, [o EXCEPT !.spec = "b"]),
           Out(FALSE, 1, {"fail"}, [o EXCEPT !.spec = "b"]),
           Out(FALSE, 0, {"halt"}, o)}]
Injects == [o \in MCObjects |->
             {Out(FALSE, 0, {}, [o EXCEPT !.side = CASE o.spec = "a" -> "x" [] o.spec = "b" -> "y"
                                                      [] OTHER -> Unset])}]
Denies == [o \in MCObjects |->
            Injects[o] \cup {Out(FALSE, 0, {"fail"}, o), Out(FALSE, 0, {"halt"}, o)}]

-----------------------------------------------------------------------------
(* Trees. *)

N(kind, subs, flag, max, does) ==
  [kind |-> kind, subs |-> subs, flag |-> flag, fields |-> Keys, hook |-> FALSE,
   asks |-> TRUE, both |-> FALSE, max |-> max, does |-> does, ends |-> Undefined]
SyncOf(does) == N("sync", <<>>, FALSE, 0, does)

\* The function it has to ask is missing.
Mute(node) == [node EXCEPT !.asks = FALSE]

\* The same for a type that has one of the fields only.
Duck(node) == [node EXCEPT !.fields = {"spec"}]

MCTree ==
  [ steps      |-> <<N("sequence", <<2, 3, 4>>, FALSE, 0, Undefined),
                     SyncOf(Waits), SyncOf(Halts), SyncOf(Fails)>>,
    cleanup    |-> <<N("trycatch", <<2, 5>>, FALSE, 0, Undefined),
                     N("ifthen", <<3, 4>>, FALSE, 0, Undefined), SyncOf(Fails), SyncOf(Halts),
                     SyncOf(Waits)>>,
    loop       |-> <<N("trycatch", <<2, 0>>, FALSE, 0, Waits),
                     N("while", <<3>>, FALSE, 2, Undefined),
                     N("trycatch", <<4, 5>>, FALSE, 0, Undefined), SyncOf(Fails), SyncOf(Looks)>>,
    shared     |-> <<N("sequence", <<2, 5>>, FALSE, 0, Undefined),
                     N("cast", <<3>>, FALSE, 0, Undefined),
                     Duck(N("cast", <<4>>, TRUE, 0, Undefined)), Duck(SyncOf(Sets)),
                     N("ifthen", <<6, 0>>, FALSE, 0, Undefined), SyncOf(Waits)>>,
    duck       |-> <<Duck(N("cast", <<2>>, FALSE, 0, Undefined)), Duck(SyncOf(Sets))>>,
    ducklook   |-> <<Duck(SyncOf(Halts))>>,
    elsewhere  |-> <<N("config", <<2>>, FALSE, 0, Undefined),
                     N("override", <<3>>, FALSE, 0, Undefined), SyncOf(Sets)>>,
    ending     |-> <<N("sequence", <<2, 3, 4>>, FALSE, 0, Undefined),
                     [SyncOf(Waits) EXCEPT !.flag = TRUE, !.ends = Fails],
                     [SyncOf(Looks) EXCEPT !.ends = Waits],
                     [N("override", <<0>>, FALSE, 0, Undefined) EXCEPT !.hook = TRUE]>>,
    incomplete |-> <<N("ifthen", <<2, 3>>, FALSE, 0, Undefined), SyncOf(Looks),
                     N("cast", <<0>>, FALSE, 0, Undefined)>>,
    hidden     |-> <<N("override", <<2>>, FALSE, 0, Undefined),
                     N("while", <<0>>, FALSE, 2, Undefined)>>,
    noif       |-> <<Mute(N("ifthen", <<2, 0>>, FALSE, 0, Undefined)), SyncOf(Looks)>>,
    mute       |-> <<N("override", <<2>>, FALSE, 0, Undefined),
                     N("ifthen", <<3, 4>>, FALSE, 0, Undefined),
                     Mute(N("while", <<7>>, FALSE, 2, Undefined)),
                     N("ifthen", <<5, 6>>, FALSE, 0, Undefined),
                     Mute(N("ifthen", <<7, 0>>, FALSE, 0, Undefined)),
                     Mute(N("config", <<7>>, FALSE, 0, Undefined)), SyncOf(Looks)>>,
    twosyncs   |-> <<[SyncOf(Looks) EXCEPT !.hook = TRUE, !.both = TRUE]>>,
    nosync     |-> <<SyncOf(Undefined)>>,
    nosynchook |-> <<[SyncOf(Undefined) EXCEPT !.hook = TRUE]>>,
    look       |-> <<SyncOf(Halts)>>,
    troubled   |-> <<N("sequence", <<2, 3>>, FALSE, 0, Undefined), SyncOf(Fails), SyncOf(Halts)>>,
    inject     |-> <<SyncOf(Injects)>>,
    deny       |-> <<SyncOf(Denies)>> ]

MCPrograms == DOMAIN MCTree

-----------------------------------------------------------------------------
(* Configurations. *)

Once(kinds) == [d \in Disturbances |-> IF d \in kinds THEN 1 ELSE 0]

Resource(tree, skip, duck, budget) ==
  [host |-> "resource", tree |-> tree, hook |-> "inject", skip |-> skip, duck |-> duck,
   fields |-> IF duck THEN {"spec"} ELSE Keys, given |-> FALSE, wants |-> {NoObject},
   named |-> FALSE, merge |-> TRUE, counts |-> FALSE, budget |-> budget]

\* What is desired leaves the field the webhook sets alone.
Aggregate(tree, hook, given, counts, budget) ==
  [host |-> "aggregate", tree |-> tree, hook |-> hook, skip |-> FALSE, duck |-> FALSE,
   fields |-> Keys, given |-> given, wants |-> {Obj("a", Unset), Obj("b", Unset), NoObject},
   named |-> TRUE, merge |-> TRUE, counts |-> counts, budget |-> budget]

MCConfigurations ==
  {Resource(tree, FALSE, FALSE, Once({"deletes"})) :
     tree \in {"steps", "cleanup", "loop", "ending", "incomplete", "hidden",
               "noif", "mute", "twosyncs", "nosync", "nosynchook"}}
  \cup {Resource("elsewhere", FALSE, FALSE, Once({"edits", "faults", "restarts"}))}
  \cup {Resource("duck", skip, TRUE, Once({"edits", "faults"})) : skip \in BOOLEAN}
  \cup {Resource("shared", FALSE, FALSE, Once({"edits"}))}
  \cup {Aggregate("look", "inject", TRUE, FALSE,
                   [Once({"edits", "faults", "expiries"}) EXCEPT !["wants"] = 2]),
        Aggregate("look", "inject", TRUE, TRUE, Once({"wants", "deletes", "restarts"})),
        Aggregate("troubled", "deny", TRUE, FALSE, Once({"faults", "edits"})),
        Aggregate("troubled", "inject", FALSE, FALSE, Once({"faults", "deletes"})),
        [Aggregate("ducklook", "inject", TRUE, FALSE, Once({"wants", "deletes"}))
           EXCEPT !.duck = TRUE, !.fields = {"spec"}],
        [Aggregate("look", "inject", TRUE, FALSE, Once({})) EXCEPT !.merge = FALSE],
        [Aggregate("look", "inject", TRUE, FALSE, Once({})) EXCEPT !.named = FALSE]}

\* What the theorems ask of webhooks, trees and casts.
ASSUME MCHypotheses == AllPolite /\ AllLook /\ CastsNarrow

=============================================================================
