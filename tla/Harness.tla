------------------------------- MODULE Harness -------------------------------
(***************************************************************************)
(* src/testing: suites of table tests for reconcilers, sub reconcilers and *)
(* webhooks.  A test case gives the reconciler a config whose client,      *)
(* event recorder and tracker take down what is done with them, runs it    *)
(* once, and compares what was taken down, and what the reconciler         *)
(* returned, with what the case expects.                                   *)
(*                                                                         *)
(* The reconciler under test is arbitrary: any of Calls in any order, any  *)
(* of Outcomes.  The fake API server behind the client is left out: all it *)
(* could do is to answer the reconciler.                                   *)
(***************************************************************************)
EXTENDS Integers, Sequences

CONSTANTS
  Suites,    \* the suites of test cases
  Calls,     \* what a reconciler may do
  Outcomes,  \* how it may return or panic
  Scheme,    \* the kinds the config knows
  Untyped,   \* the kinds whose objects are unstructured
  NoName,    \* a new object has a generateName only
  Any,       \* a reactor takes any name, or sub resource
  MaxCalls   \* bound on the calls in one test

Hosts == {"reconciler", "sub", "webhook"}
Configs == {"default", "additional"}

ClientStreams == {"create", "update", "patch", "delete", "deletecollection",
                  "statusupdate", "statuspatch"}
Streams == ClientStreams \cup {"event", "track"}

\* A call of a config.  sub: the sub resource, "" for none.  body: all that is
\* compared besides the name (contents, patch, selectors, message).
IsCall(c) ==
  /\ c = [config |-> c.config, verb |-> c.verb, sub |-> c.sub,
          kind |-> c.kind, name |-> c.name, body |-> c.body]
  /\ c.config \in Configs
  /\ c.verb \in {"event", "track", "trackobject"} => c.sub = ""

\* The verb and the sub resource of the calls in a stream.
Takes(stream) == CASE stream = "statusupdate" -> <<"update", "status">>
                   [] stream = "statuspatch" -> <<"patch", "status">>
                   [] OTHER -> <<stream, "">>

IsList(l) == Len(l) \in Nat /\ l = [i \in 1..Len(l) |-> l[i]]
Results == [requeue : BOOLEAN, after : Int]

\* InduceFailure(verb, kind, opts)
IsReactor(r) == DOMAIN r = {"verb", "kind", "name", "sub"}

\* troubled: Prepare and CleanUp are given, and may fail.  stash: the expected
\* values.  expects: for each config and stream the calls in order.
IsTest(t) ==
  /\ DOMAIN t = {"host", "skip", "focus", "troubled", "reactors", "shouldErr", "shouldPanic",
                 "result", "resource", "stash", "expects"}
  /\ t.host \in Hosts
  /\ \A i \in DOMAIN t.reactors : IsReactor(t.reactors[i])
  /\ t.host # "webhook" => t.result \in Results
  /\ \A c \in Configs, s \in Streams :
       LET calls == t.expects[c][s]
       IN  /\ IsList(calls)
           /\ \A i \in DOMAIN calls : /\ IsCall(calls[i]) /\ calls[i].config = c
                                     /\ <<calls[i].verb, calls[i].sub>> = Takes(s)
  /\ t.shouldPanic => t.host # "reconciler"
  /\ t.host = "sub" => t.expects["default"]["statusupdate"] = <<>>
  /\ t.host = "sub" => t.expects["default"]["statuspatch"] = <<>>
  /\ t.host = "webhook" => \A s \in Streams : t.expects["additional"][s] = <<>>

IsOutcome(o) ==
  /\ DOMAIN o = {"panicked", "err", "result", "resource", "stash"}
  /\ o.panicked \in BOOLEAN /\ o.err \in BOOLEAN

ASSUME HarnessAssumption ==
  /\ \A tests \in Suites : IsList(tests) /\ tests # <<>> /\ \A i \in DOMAIN tests : IsTest(tests[i])
  /\ \A c \in Calls : IsCall(c) /\ (c.verb = "track" => c.body = "reference")
  /\ \A o \in Outcomes : IsOutcome(o)
  /\ MaxCalls \in Nat

VARIABLES
  suite,    \* the suite that is run
  at,       \* the test that is next, or under way, among those executed
  phase,    \* how far it is
  log,      \* what each config took down
  named,    \* how many names the client has generated
  outcome,  \* how the reconciler ended
  failed,   \* t.Errorf or t.Fatalf was called
  made,     \* the calls of this test (history)
  right     \* whether every test so far did what its case expects, by config (history)

testVars == <<log, named, outcome, made>>
vars == <<suite, at, phase, testVars, failed, right>>

Phases == {"next", "run", "judge", "done", "dead"}

Blank == [c \in Configs |-> [s \in Streams |-> <<>>]]
NoOutcome == [panicked |-> FALSE, err |-> FALSE, result |-> [requeue |-> FALSE, after |-> 0],
              resource |-> "given", stash |-> <<>>]

-----------------------------------------------------------------------------
(* The suite. *)

\* Only the first of the focused tests is executed.
Focused == {i \in DOMAIN suite : suite[i].focus}
Executed == IF Focused = {} THEN suite
            ELSE <<suite[CHOOSE i \in Focused : \A j \in Focused : i <= j]>>
Test == Executed[at]

NextTest == at' = at + 1 /\ phase' = "next"
Forget == log' = Blank /\ named' = 0 /\ outcome' = NoOutcome /\ made' = <<>>

Skip ==
  /\ phase = "next" /\ at <= Len(Executed) /\ Test.skip
  /\ NextTest
  /\ UNCHANGED <<suite, testVars, failed, right>>

\* A failing Prepare ends the test, but not that of a webhook.
Prepare(ok) ==
  /\ phase = "next" /\ at <= Len(Executed) /\ ~Test.skip
  /\ ok \/ Test.troubled
  /\ failed' = (failed \/ ~ok) /\ right' = [right EXCEPT !["default"] = @ /\ ok]
  /\ IF ok \/ Test.host = "webhook" THEN phase' = "run" /\ UNCHANGED at ELSE NextTest
  /\ UNCHANGED <<suite, testVars>>

\* A suite with focused tests fails, whatever they do.
EndSuite ==
  /\ phase = "next" /\ at > Len(Executed)
  /\ phase' = "done"
  /\ failed' = (failed \/ Focused # {})
  /\ UNCHANGED <<suite, at, testVars, right>>

-----------------------------------------------------------------------------
(* The fake client, the event recorder and the mock tracker. *)

\* The reactors of a test stand before the one that generates names; those of an
\* additional config are its own, here none.  List and DeleteCollection have no name.
Induced(r, c) ==
  /\ r.verb = c.verb /\ r.kind = c.kind
  /\ r.name = Any \/ r.name = c.name \/ c.verb \in {"list", "deletecollection"}
  /\ r.sub \in {Any, c.sub}
React(c) == c.config = "default" /\ \E i \in DOMAIN Test.reactors : Induced(Test.reactors[i], c)

Known(c) == c.kind \in Scheme

Taken(c, stream) == log' = [log EXCEPT ![c.config][stream] = Append(@, c)]

Does(c) ==
  /\ phase = "run" /\ Len(made) < MaxCalls /\ c \in Calls
  /\ c.name \in Int => c.name \in 1..named          \* names come from the client
  /\ Test.host = "webhook" => c.config = "default"  \* and configs from the test
  /\ made' = Append(made, c)
  /\ UNCHANGED <<suite, at, phase, outcome, failed, right>>

\* TrackObject fails for an unknown kind; else it does what TrackReference does.
Read(c) ==
  /\ c.sub = ""
  /\ c.verb \in {"get", "list"} \/ (c.verb = "trackobject" /\ ~Known(c))
  /\ Does(c)
  /\ UNCHANGED <<log, named>>

\* A write is taken down before anything can fail it, and before it gets a name.
Write_Succeeding(c) ==
  /\ c.sub = "" /\ c.verb \in {"create", "update", "patch", "delete", "deletecollection"}
  /\ Does(c)
  /\ IF Known(c) /\ ~React(c) THEN Taken(c, c.verb) ELSE UNCHANGED log
  /\ named' = IF Known(c) /\ c.verb = "create" /\ c.name = NoName /\ ~React(c)
                THEN named + 1 ELSE named
Write(c) ==
  /\ c.sub = "" /\ c.verb \in {"create", "update", "patch", "delete", "deletecollection"}
  /\ Does(c)
  /\ IF Known(c) THEN Taken(c, c.verb) ELSE UNCHANGED log
  /\ named' = IF Known(c) /\ c.verb = "create" /\ c.name = NoName /\ ~React(c)
                THEN named + 1 ELSE named

\* Of the status, creates are not taken down.
WriteStatus(c) ==
  /\ c.sub = "status" /\ Does(c)
  /\ CASE Known(c) /\ c.verb = "update" -> Taken(c, "statusupdate")
       [] Known(c) /\ c.verb = "patch" -> Taken(c, "statuspatch")
       [] OTHER -> UNCHANGED log
  /\ UNCHANGED named

\* Calls of other sub resources end with the reactors: they are not taken down.
UseSubResource(c) ==
  /\ c.sub \notin {"", "status"} /\ Does(c)
  /\ UNCHANGED <<log, named>>

\* NewEvent panics for an unknown kind.
RecordEvent(c) ==
  /\ c.verb = "event" /\ Known(c) /\ Does(c)
  /\ Taken(c, "event") /\ UNCHANGED named

\* TrackReference: taken down whatever its kind, and even if the tracker refuses it.
Track(c) ==
  /\ c.verb = "track" /\ Does(c)
  /\ Taken(c, "track") /\ UNCHANGED named

\* Without ShouldPanic a panic ends all tests.  With it, the test goes on as if the
\* reconciler had returned nothing.
Return(o) ==
  /\ phase = "run" /\ o \in Outcomes
  /\ Test.host # "webhook" => o.result \in Results
  /\ outcome' = IF o.panicked THEN [o EXCEPT !.err = FALSE, !.result = NoOutcome.result] ELSE o
  /\ phase' = IF o.panicked /\ ~Test.shouldPanic THEN "dead" ELSE "judge"
  /\ UNCHANGED <<suite, at, log, named, failed, made, right>>

-----------------------------------------------------------------------------
(* The comparison.  Each operator says whether there is nothing to report. *)

\* In order, none missing, none left over.
Compare(expected, actual) ==
  /\ \A i \in DOMAIN expected : i <= Len(actual) /\ expected[i] = actual[i]
  /\ Len(actual) <= Len(expected)

\* The Go type and the status are looked at, not whose it is.  An unstructured object
\* has no field that begins with Status: nothing of it is looked at.
Statuses(calls) ==
  [i \in DOMAIN calls |-> IF calls[i].kind \in Untyped THEN <<>>
                          ELSE <<calls[i].kind, calls[i].body>>]

\* The deprecated form of a track request stands for the other, which is the one
\* that is taken down.
References(calls) == [i \in DOMAIN calls |-> [calls[i] EXCEPT !.body = "reference"]]

AssertObjects(expects, actual) ==
  \A s \in {"create", "update"} : Compare(expects[s], actual[s])
AssertRefs(expects, actual) ==
  \A s \in {"patch", "delete", "deletecollection", "statuspatch"} : Compare(expects[s], actual[s])
AssertStatusUpdates(expects, actual) ==
  Compare(Statuses(expects["statusupdate"]), Statuses(actual["statusupdate"]))
AssertRecorder(expects, actual) == Compare(expects["event"], actual["event"])
AssertTracker(expects, actual) == Compare(References(expects["track"]), actual["track"])

AssertExpectations(expects, actual) ==
  /\ AssertObjects(expects, actual) /\ AssertRefs(expects, actual)
  /\ AssertStatusUpdates(expects, actual)
  /\ AssertRecorder(expects, actual) /\ AssertTracker(expects, actual)

\* The additional configs are stored by value: the reconciler is given copies, and
\* the configs that are asserted have not seen anything.
Asserted == [log EXCEPT !["additional"] = Blank["additional"]]

\* RequeueAfter implies Requeue.
Normalized(r) == IF r.after # 0 THEN [r EXCEPT !.requeue = FALSE] ELSE r
SameResult == Normalized(Test.result) = Normalized(outcome.result)
SameError == outcome.err = Test.shouldErr

PanickedAsToldTo == Test.shouldPanic => outcome.panicked

JudgeReconciler ==
  /\ SameError /\ (~outcome.err => SameResult)
  /\ \A c \in Configs : AssertExpectations(Test.expects[c], Asserted[c])

\* Stashed values that are not expected are ignored.
JudgeSub ==
  /\ PanickedAsToldTo /\ SameError /\ (~outcome.err => SameResult)
  /\ outcome.resource = Test.resource
  /\ \A k \in DOMAIN Test.stash : k \in DOMAIN outcome.stash /\ outcome.stash[k] = Test.stash[k]
  /\ \A c \in Configs : AssertExpectations(Test.expects[c], Asserted[c])

\* The response is in the result.
JudgeWebhook ==
  /\ PanickedAsToldTo /\ Test.result = outcome.result
  /\ AssertExpectations(Test.expects["default"], log["default"])

Passes == CASE Test.host = "reconciler" -> JudgeReconciler
            [] Test.host = "sub" -> JudgeSub
            [] Test.host = "webhook" -> JudgeWebhook

-----------------------------------------------------------------------------
(* What a test should find out (history). *)

\* Where among the reconciler's calls those to a config are of which a stream should
\* tell.
Places(config, stream) ==
  {i \in DOMAIN made : /\ made[i].config = config
                      /\ (made[i].kind \in Scheme \/ stream = "track")
                      /\ <<made[i].verb, made[i].sub>> = Takes(stream)}

\* What is in f at the places is, in order, what is in the list.
Yields(f, places, list) ==
  \E e \in [DOMAIN list -> places] :
    /\ \A i, j \in DOMAIN list : i < j => e[i] < e[j]
    /\ \A p \in places : \E i \in DOMAIN list : e[i] = p
    /\ \A i \in DOMAIN list : list[i] = f[e[i]]

\* It is not looked at whose status is updated, nor how a track request was made.
Shown(stream, calls) ==
  CASE stream = "statusupdate" -> [i \in DOMAIN calls |-> <<calls[i].kind, calls[i].body>>]
    [] stream = "track" -> [i \in DOMAIN calls |-> <<calls[i].kind, calls[i].name>>]
    [] OTHER -> calls

\* Call by call the reconciler did to the config what the case expects, of each sort,
\* in order, whether the calls succeeded or not.  Calls of sub resources other than a
\* status are not looked at.
DidAsExpected(config) ==
  \A s \in Streams :
    Yields(Shown(s, made), Places(config, s), Shown(s, Test.expects[config][s]))

ReturnedAsExpected ==
  /\ Test.shouldPanic => outcome.panicked
  /\ Test.host # "webhook" => outcome.err = Test.shouldErr
  /\ Test.host = "webhook" => outcome.result = Test.result
  /\ Test.host # "webhook" /\ ~outcome.err =>
       /\ outcome.result.after = Test.result.after
       /\ outcome.result.after = 0 => outcome.result = Test.result
  /\ Test.host = "sub" =>
       /\ outcome.resource = Test.resource
       /\ \A k \in DOMAIN Test.stash :
            <<k, Test.stash[k]>> \in {<<j, outcome.stash[j]>> : j \in DOMAIN outcome.stash}

Judge(cleaned) ==
  /\ phase = "judge"
  /\ cleaned \/ Test.troubled
  /\ failed' = (failed \/ ~Passes \/ ~cleaned)
  /\ right' = [c \in Configs |->
                 /\ right[c] /\ DidAsExpected(c)
                 /\ c = "default" => ReturnedAsExpected /\ cleaned]
  /\ NextTest /\ Forget
  /\ UNCHANGED suite

Init ==
  /\ suite \in Suites /\ at = 1 /\ phase = "next"
  /\ log = Blank /\ named = 0 /\ outcome = NoOutcome /\ made = <<>>
  /\ failed = FALSE /\ right = [c \in Configs |-> TRUE]

Next ==
  \/ Skip \/ EndSuite
  \/ \E ok \in BOOLEAN : Prepare(ok) \/ Judge(ok)
  \/ \E c \in Calls : \/ Read(c) \/ Write(c) \/ WriteStatus(c) \/ UseSubResource(c)
                      \/ RecordEvent(c) \/ Track(c)
  \/ \E o \in Outcomes : Return(o)

Spec == Init /\ [][Next]_vars

-----------------------------------------------------------------------------
(* Properties *)

\* The verdict cannot be right on what is expected of an additional config, which is
\* asserted on a copy that nothing was done to, nor on a status update of an
\* unstructured object, of which nothing is compared.
Decidable(t) ==
  /\ \A s \in Streams : t.expects["additional"][s] = <<>>
  /\ LET updates == t.expects["default"]["statusupdate"]
     IN  \A i \in DOMAIN updates : updates[i].kind \notin Untyped
Judged == \A i \in DOMAIN suite : Decidable(suite[i])

\* Such expectations apart, a suite is green if and only if all its tests were executed,
\* but for those skipped, and each reconciler returned, and did through the config
\* given to it, what its case expects: recorded calls that fail, that are too many,
\* that come in another order, panics, and focused tests included.
DefaultIsRight ==
  phase = "done" /\ Judged => (~failed <=> right["default"] /\ Focused = {})

\* What the comments on the fields of a test case promise (testing/reconciler.go:82-84):
\* a green suite did what it expects through all of its configs.  It does not hold.
GreenIsRight ==
  phase = "done" => (~failed <=> (\A c \in Configs : right[c]) /\ Focused = {})
=============================================================================
