----------------------------- MODULE MCHarness -----------------------------
(***************************************************************************)
(* Calls, outcomes and suites for model checking Harness: one test for     *)
(* each kind of expectation, and suites of two.                            *)
(***************************************************************************)
EXTENDS Harness

CONSTANTS thing, loose, stranger, n, m, x, y

C(verb, sub, name, body) ==
  [config |-> "default", verb |-> verb, sub |-> sub, kind |-> thing, name |-> name, body |-> body]

MCCalls ==
  {C("list", "", NoName, x), C("create", "", NoName, x), C("create", "", n, y),
   C("update", "", 1, x), C("update", "", n, y), C("patch", "", n, x), C("delete", "", n, x),
   C("delete", "", 1, x), C("deletecollection", "", NoName, x),
   C("create", "status", n, x), C("update", "status", n, x), C("update", "status", m, x),
   C("patch", "status", n, x), C("update", "scale", n, x), C("event", "", n, x),
   C("event", "", n, y), C("track", "", n, "reference"), C("track", "", m, "reference"),
   [C("update", "status", n, y) EXCEPT !.kind = loose],
   [C("create", "", n, x) EXCEPT !.kind = stranger],
   [C("track", "", n, "reference") EXCEPT !.kind = stranger],
   [C("trackobject", "", n, "reference") EXCEPT !.kind = stranger],
   [C("create", "", n, x) EXCEPT !.config = "additional"]}

\* A result also stands for the response of a webhook.
R(requeue, after) == [requeue |-> requeue, after |-> after]
O(err, result, resource, stash) ==
  [panicked |-> FALSE, err |-> err, result |-> result, resource |-> resource, stash |-> stash]

MCOutcomes ==
  {O(FALSE, R(FALSE, 0), "given", <<>>), O(FALSE, R(TRUE, 1), "given", [k |-> x]),
   O(FALSE, R(TRUE, 0), "given", [k |-> y]), O(FALSE, R(FALSE, 0), "changed", [k |-> x]),
   O(TRUE, R(FALSE, 1), "given", <<>>),
   [O(FALSE, R(FALSE, 0), "given", <<>>) EXCEPT !.panicked = TRUE]}

Plain(host) ==
  [host |-> host, skip |-> FALSE, focus |-> FALSE, troubled |-> FALSE, reactors |-> <<>>,
   shouldErr |-> FALSE, shouldPanic |-> FALSE, result |-> R(FALSE, 0), resource |-> "given",
   stash |-> <<>>, expects |-> Blank]

Expects(host, stream, calls) == [Plain(host) EXCEPT !.expects["default"][stream] = calls]

StreamOf(c) == IF c.sub = "status" THEN "status" \o c.verb ELSE c.verb

\* One expected call of every sort.
OneCall(host) ==
  {Expects(host, StreamOf(c), <<c>>) :
     c \in {d \in MCCalls : /\ d.config = "default" /\ (d.kind \in {thing, loose} \/ d.verb = "track") /\ d.sub # "scale"
                            /\ StreamOf(d) \in Streams}}

InOrder ==
  {Expects("sub", "event", <<C("event", "", n, x), C("event", "", n, y)>>),
   Expects("reconciler", "create", <<C("create", "", NoName, x), C("create", "", n, y)>>),
   Expects("sub", "track", <<C("track", "", n, "tracked"), C("track", "", m, "reference")>>)}

Reactor(verb, name, sub) == [verb |-> verb, kind |-> thing, name |-> name, sub |-> sub]
Failing(r) ==
  {[t EXCEPT !.reactors = <<r>>, !.shouldErr = e] :
     t \in {Plain("reconciler"), Expects("reconciler", "create", <<C("create", "", NoName, x)>>),
            Expects("reconciler", "update", <<C("update", "", 1, x)>>)}, e \in BOOLEAN}

Outputs ==
  {[Plain(h) EXCEPT !.shouldErr = TRUE] : h \in {"reconciler", "sub"}}
  \cup {[Plain(h) EXCEPT !.shouldPanic = TRUE] : h \in {"sub", "webhook"}}
  \cup {[Plain(h) EXCEPT !.result = r] : h \in Hosts, r \in {R(TRUE, 0), R(FALSE, 1)}}
  \cup {[Plain("sub") EXCEPT !.resource = "changed", !.stash = [k |-> x]]}
  \cup {[Plain(h) EXCEPT !.troubled = TRUE] : h \in Hosts}
  \cup {[Plain("sub") EXCEPT !.expects["additional"]["create"] =
           <<[C("create", "", n, x) EXCEPT !.config = "additional"]>>]}

Alone == OneCall("reconciler") \cup OneCall("webhook") \cup InOrder \cup Outputs
         \cup Failing(Reactor("create", Any, Any)) \cup Failing(Reactor("update", n, "status"))

\* Two tests, of which each may be skipped or focused.
Pairs == {<<[Plain("sub") EXCEPT !.skip = a, !.focus = b],
            [Plain("webhook") EXCEPT !.skip = c, !.focus = d, !.troubled = TRUE]>> :
            a, b, c, d \in BOOLEAN}

MCSuites == {<<t>> : t \in Alone \cup {Plain("sub")}} \cup Pairs

=============================================================================
