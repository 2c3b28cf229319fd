-------------------------------- MODULE Flow --------------------------------
(***************************************************************************)
(* The composition of sub reconcilers: Sequence, IfThen, While, TryCatch,  *)
(* OverrideSetup, CastResource, WithConfig, and SyncReconciler at the      *)
(* leaves.  Node 1 is the root of a tree and a node's subs have higher     *)
(* numbers.  Reconcile is recursive in the code: here each call in         *)
(* progress is a frame of a stack, and a step runs the code of the         *)
(* innermost call up to the next call or return.                           *)
(*                                                                         *)
(* What the authors' functions do (Sync, Finalize, Catch, If, Condition)   *)
(* is a choice: any of the outcomes the program lists for them.            *)
(***************************************************************************)
EXTENDS Integers, Sequences

CONSTANTS
  Objects,   \* what the reconciled resource can look like
  Unset,     \* a field of it that is not set
  Programs,  \* the names of the trees of sub reconcilers
  Tree       \* the trees

VARIABLES
  prog,      \* the name of the tree that is run
  deleting,  \* the resource is pending deletion
  stack,     \* the calls in progress, the innermost last
  ret,       \* what the last call returned
  res,       \* the resource, as the innermost call sees it
  story      \* what the authors' functions did so far (history)

flowVars == <<prog, deleting, stack, ret, res, story>>

\* The fields of an object, of which a type may have fewer.
Keys == UNION {DOMAIN o : o \in Objects}
Blank == [k \in Keys |-> Unset]

Kinds == {"sequence", "ifthen", "while", "trycatch", "override", "cast", "config", "sync"}

\* halt: ErrHaltSubReconcilers; fail: any other error of an author's function;
\* limit: ErrMaxIterations; cast, patch: CastResource cannot convert, or patch.
Causes == {"halt", "fail", "limit", "cast", "patch"}

\* An error is the set of the causes errors.Is finds in it; {} is no error.
Err == SUBSET Causes
Result == [requeue : BOOLEAN, after : Nat]
Outcome == [result : Result, err : Err, obj : Objects]

\* subs: 0 stands for a sub reconciler that is nil.  flag: SyncDuringFinalization
\* of a sync, an interface type of a cast.  fields: those that the type it reconciles
\* has (its type parameter).  hook: a Setup function is given.  asks: so is If, Condition
\* or Config.  does: Sync, or Catch; ends: Finalize.  Without outcomes these are not
\* defined.  both: one of them has two forms, of which the one without a result is called.
Node == [kind : Kinds, subs : Seq(Nat), flag : BOOLEAN, fields : SUBSET Keys,
         hook : BOOLEAN, asks : BOOLEAN, both : BOOLEAN, max : Nat,
         does : [Objects -> SUBSET Outcome], ends : [Objects -> SUBSET Outcome]]

\* How many fields of type SubReconciler a reconciler has; a sequence is a list.
Fields(kind) == CASE kind \in {"ifthen", "trycatch"} -> 2 [] kind = "sync" -> 0 [] OTHER -> 1

ASSUME ObjectAssumption ==
  /\ Blank \in Objects /\ \A o \in Objects : o = [k \in Keys |-> o[k]]
  \* What patches make of objects are objects.
  /\ \A o, p \in Objects : \A ks \in SUBSET Keys :
       [k \in Keys |-> IF k \in ks THEN o[k] ELSE p[k]] \in Objects

ASSUME ProgramAssumption ==
  /\ Tree \in [Programs -> Seq(Node) \ {<<>>}]
  /\ \A p \in Programs : \A n \in DOMAIN Tree[p] :
       /\ Tree[p][n].kind # "sequence" => Len(Tree[p][n].subs) = Fields(Tree[p][n].kind)
       /\ \A i \in DOMAIN Tree[p][n].subs : Tree[p][n].subs[i] \in {0} \cup n + 1 .. Len(Tree[p])

\* What a type with these fields keeps of an object (encoding/json).
Seen(fields, obj) == [k \in Keys |-> IF k \in fields THEN obj[k] ELSE Unset]
HasType(obj, fields) == Seen(fields, obj) = obj

\* The program compiles: only a cast to a struct leads to another type, and an
\* author's function makes of an object one of the same type.
ASSUME TypeAssumption ==
  \A p \in Programs : \A n \in DOMAIN Tree[p] : LET node == Tree[p][n] IN
    /\ node.kind # "cast" \/ node.flag =>
         \A m \in {node.subs[i] : i \in DOMAIN node.subs} \ {0} : Tree[p][m].fields = node.fields
    /\ \A obj \in Objects : HasType(obj, node.fields) =>
         \A o \in node.does[obj] \cup node.ends[obj] : HasType(o.obj, node.fields)

NoResult == [requeue |-> FALSE, after |-> 0]
Nothing == [result |-> NoResult, err |-> {}]

\* The shortest requeue time wins; zero is no requeue time.
AggregateResults_Longest(a, b) ==
  [requeue |-> a.requeue \/ b.requeue,
   after |-> IF b.after # 0 /\ (a.after = 0 \/ b.after > a.after) THEN b.after ELSE a.after]
AggregateResults(a, b) ==
  [requeue |-> a.requeue \/ b.requeue,
   after |-> IF b.after # 0 /\ (a.after = 0 \/ b.after < a.after) THEN b.after ELSE a.after]

Frame == [node : Nat, at : Nat, acc : Result, err : Err, saved : Objects]

\* asked: the results returned; raised: all causes; caught: a Catch replaced an
\* outcome; panicked: a nil function was called; written: the resource if no
\* change had been lost.
Story == [asked : SUBSET Result, raised : Err, caught : BOOLEAN, panicked : BOOLEAN,
          written : Objects]

FlowTypeOK ==
  /\ prog \in Programs /\ deleting \in BOOLEAN
  /\ stack \in Seq(Frame)
  /\ \A i \in DOMAIN stack :
       /\ stack[i].node \in DOMAIN Tree[prog]
       /\ LET node == Tree[prog][stack[i].node]
          IN  node.kind = "sequence" => stack[i].at <= Len(node.subs)
  /\ ret \in [result : Result, err : Err]
  /\ res \in Objects /\ story \in Story

-----------------------------------------------------------------------------
(* Calls and returns. *)

Top == stack[Len(stack)]
Reconciler == Tree[prog][Top.node]
Outer == SubSeq(stack, 1, Len(stack) - 1)

NewFrame(n) == [node |-> n, at |-> 0, acc |-> NoResult, err |-> {}, saved |-> Blank]

Return(result, err) == stack' = Outer /\ ret' = [result |-> result, err |-> err]

\* A nil function or sub reconciler is called: the process dies.
Panic == /\ stack' = <<>> /\ ret' = Nothing /\ res' = res
         /\ story' = [story EXCEPT !.panicked = TRUE]

CallWith(frame, n, obj) ==
  IF n = 0 THEN Panic
  ELSE /\ stack' = Outer \o <<frame, NewFrame(n)>> /\ ret' = Nothing
       /\ res' = obj /\ UNCHANGED story
Call(frame, n) == CallWith(frame, n, res)

\* return r.Sub.Reconcile(ctx, resource)
Become(n) ==
  IF n = 0 THEN Panic
  ELSE stack' = Append(Outer, NewFrame(n)) /\ ret' = Nothing /\ UNCHANGED <<res, story>>

\* What the patch from base to new makes of obj (NewPatch, Patch.Apply).
Applied(base, new, obj) == [k \in Keys |-> IF new[k] # base[k] THEN new[k] ELSE obj[k]]

\* An author's function returns o.
Does(o) ==
  /\ res' = o.obj
  /\ story' = [story EXCEPT !.asked = @ \cup {o.result}, !.raised = @ \cup o.err,
                            !.written = Applied(res, o.obj, @)]

Raise(causes) == story' = [story EXCEPT !.raised = @ \cup causes]

-----------------------------------------------------------------------------
(* One operator per reconciler: what it does when it is called, and each     *)
(* time a call of its own returns.                                           *)

\* On an error the results so far are dropped for those of the failing one.
Sequence_Swallow ==
  /\ Reconciler.kind = "sequence"
  /\ LET acc == AggregateResults(ret.result, Top.acc)
     IN  IF ret.err \cap {"fail", "limit"} # {}
           THEN Return(ret.result, ret.err) /\ UNCHANGED <<res, story>>
         ELSE IF Top.at = Len(Reconciler.subs)
           THEN Return(acc, {}) /\ UNCHANGED <<res, story>>
           ELSE Call([Top EXCEPT !.at = @ + 1, !.acc = acc], Reconciler.subs[Top.at + 1])
Sequence ==
  /\ Reconciler.kind = "sequence"
  /\ LET acc == AggregateResults(ret.result, Top.acc)
     IN  IF ret.err # {} THEN Return(ret.result, ret.err) /\ UNCHANGED <<res, story>>
         ELSE IF Top.at = Len(Reconciler.subs)
           THEN Return(acc, {}) /\ UNCHANGED <<res, story>>
           ELSE Call([Top EXCEPT !.at = @ + 1, !.acc = acc], Reconciler.subs[Top.at + 1])

IfThen ==
  /\ Reconciler.kind = "ifthen"
  /\ IF ~Reconciler.asks THEN Panic
     ELSE \/ Become(Reconciler.subs[1])
          \/ Reconciler.subs[2] # 0 /\ Become(Reconciler.subs[2])
          \/ Reconciler.subs[2] = 0 /\ Return(NoResult, {}) /\ UNCHANGED <<res, story>>

\* MaxIterations 0 is no limit.  The limit is checked before the condition.
While_NoLimit ==
  /\ Reconciler.kind = "while"
  /\ LET acc == AggregateResults(Top.acc, ret.result)
     IN  IF ret.err # {} THEN Return(acc, ret.err) /\ UNCHANGED <<res, story>>
         ELSE \/ Return(acc, {}) /\ UNCHANGED <<res, story>>
              \/ Call([Top EXCEPT !.acc = acc], Reconciler.subs[1])
While ==
  /\ Reconciler.kind = "while"
  /\ LET acc == AggregateResults(Top.acc, ret.result)
     IN  IF ret.err # {} THEN Return(acc, ret.err) /\ UNCHANGED <<res, story>>
         ELSE IF Reconciler.max # 0 /\ Top.at >= Reconciler.max
           THEN Return(acc, {"limit"}) /\ Raise({"limit"}) /\ UNCHANGED res
         ELSE IF ~Reconciler.asks THEN Panic
         ELSE \/ Return(acc, {}) /\ UNCHANGED <<res, story>>
              \/ Call([Top EXCEPT !.at = @ + 1, !.acc = acc], Reconciler.subs[1])

\* Finally follows, or the outcome of Try and Catch is returned.
Leave(result, err) ==
  IF Reconciler.subs[2] = 0
    THEN Return(result, err)
    ELSE /\ stack' = Outer \o <<[Top EXCEPT !.at = 2, !.acc = result, !.err = err],
                                NewFrame(Reconciler.subs[2])>>
         /\ ret' = Nothing

Try == Reconciler.kind = "trycatch" /\ Top.at = 0 /\ Call([Top EXCEPT !.at = 1], Reconciler.subs[1])

\* Without a Catch, or when it returns what it was given.
Propagate_OnError ==
  /\ Reconciler.kind = "trycatch" /\ Top.at = 1
  /\ UNCHANGED <<res, story>>
  /\ IF ret.err # {} THEN Return(ret.result, ret.err) ELSE Leave(ret.result, ret.err)
Propagate ==
  /\ Reconciler.kind = "trycatch" /\ Top.at = 1
  /\ UNCHANGED <<res, story>>
  /\ Leave(ret.result, ret.err)

Catch(o) ==
  /\ Reconciler.kind = "trycatch" /\ Top.at = 1 /\ o \in Reconciler.does[res]
  /\ res' = o.obj
  /\ story' = [story EXCEPT !.asked = @ \cup {o.result}, !.raised = @ \cup o.err,
                            !.caught = TRUE, !.written = Applied(res, o.obj, @)]
  /\ Leave(o.result, o.err)

\* An error of Finally takes the place of the one before.
Finally ==
  /\ Reconciler.kind = "trycatch" /\ Top.at = 2
  /\ Return(AggregateResults(Top.acc, ret.result), IF ret.err # {} THEN ret.err ELSE Top.err)
  /\ UNCHANGED <<res, story>>

OverrideSetup ==
  /\ Reconciler.kind = "override"
  /\ IF Reconciler.subs[1] = 0 THEN Return(NoResult, {}) /\ UNCHANGED <<res, story>>
     ELSE Become(Reconciler.subs[1])

\* The config may be unavailable.
WithConfig ==
  /\ Reconciler.kind = "config"
  /\ IF ~Reconciler.asks THEN Panic
     ELSE \/ Become(Reconciler.subs[1])
          \/ Return(NoResult, {"fail"}) /\ Raise({"fail"}) /\ UNCHANGED res

\* An interface type is passed on; a struct gets a copy of the fields it has.
CastType == Tree[prog][Reconciler.subs[1]].fields

Cast ==
  /\ Reconciler.kind = "cast" /\ Top.at = 0
  /\ IF Reconciler.flag THEN Become(Reconciler.subs[1])
     ELSE \/ CallWith([Top EXCEPT !.at = 1, !.saved = res], Reconciler.subs[1],
                      Seen(CastType, res))
          \/ Return(NoResult, {"cast"}) /\ Raise({"cast"}) /\ UNCHANGED res

\* What changed in the copy is patched into the resource, error or not, as far as
\* the resource's type has those fields.
Patch(copy) == Seen(Reconciler.fields, Applied(copy, res, Top.saved))

CastBack_OnSuccess ==
  /\ Reconciler.kind = "cast" /\ Top.at = 1
  /\ Return(ret.result, ret.err) /\ UNCHANGED story
  /\ res' = IF ret.err = {} THEN Patch(Seen(CastType, Top.saved)) ELSE Top.saved
CastBack ==
  LET copy == Seen(CastType, Top.saved)
  IN  /\ Reconciler.kind = "cast" /\ Top.at = 1
      /\ \/ Return(ret.result, ret.err) /\ res' = Patch(copy) /\ UNCHANGED story
         \/ /\ res # copy
            /\ Return(ret.result, ret.err \cup {"patch"}) /\ Raise({"patch"})
            /\ res' = Top.saved

\* Sync, unless the resource is pending deletion and Sync has nothing to do then.
Sync ==
  /\ Reconciler.kind = "sync" /\ Top.at = 0 /\ (~deleting \/ Reconciler.flag)
  /\ \/ Reconciler.does[res] = {} /\ Panic
     \/ \E o \in Reconciler.does[res] :
          /\ Does(o)
          /\ IF o.err # {} \/ ~deleting
               THEN Return(o.result, o.err)
               ELSE stack' = Append(Outer, [Top EXCEPT !.at = 1, !.acc = o.result]) /\ UNCHANGED ret

Finalize ==
  /\ Reconciler.kind = "sync" /\ deleting /\ (Top.at = 1 \/ ~Reconciler.flag)
  /\ \/ Reconciler.ends[res] = {} /\ Return(Top.acc, {}) /\ UNCHANGED <<res, story>>
     \/ \E o \in Reconciler.ends[res] :
          Does(o) /\ Return(AggregateResults(Top.acc, o.result), o.err)

FlowStep ==
  /\ stack # <<>>
  /\ UNCHANGED <<prog, deleting>>
  /\ \/ Sequence \/ IfThen \/ While \/ Try \/ Propagate \/ Finally \/ OverrideSetup
     \/ WithConfig \/ Cast \/ CastBack \/ Sync \/ Finalize
     \/ \E o \in Reconciler.does[res] : Catch(o)

\* A tree is called with a resource.
StartFlow(p, obj, del) ==
  /\ prog' = p /\ deleting' = del /\ res' = obj /\ ret' = Nothing
  /\ stack' = <<[node |-> 1, at |-> 0, acc |-> NoResult, err |-> {}, saved |-> Blank]>>
  /\ story' = [asked |-> {}, raised |-> {}, caught |-> FALSE, panicked |-> FALSE,
               written |-> obj]

-----------------------------------------------------------------------------
(* SetupWithManager walks the same tree, and refuses what is not complete.   *)
(* One operator per reconciler: whether validate() accepts it, and which of  *)
(* its subs are set up next.                                                 *)

Given(node) == {node.subs[i] : i \in DOMAIN node.subs} \ {0}

SetupIfThen_NoElse(node) ==
  [valid |-> node.asks /\ node.subs[1] # 0, next |-> {node.subs[1]} \ {0}]
SetupIfThen(node) == [valid |-> node.asks /\ node.subs[1] # 0, next |-> Given(node)]
SetupWhile(node) == [valid |-> node.asks /\ node.subs[1] # 0, next |-> Given(node)]
SetupTryCatch(node) == [valid |-> node.subs[1] # 0, next |-> Given(node)]

\* Its Setup hook stands in for everything below it.
SetupOverride(node) == [valid |-> node.hook \/ node.subs[1] # 0, next |-> {}]

\* A nil in a Sequence kills SetupWithManager itself.
SetupSequence(node) == [valid |-> 0 \notin {node.subs[i] : i \in DOMAIN node.subs},
                        next |-> Given(node)]

\* Without a Setup hook a SyncReconciler is not validated.
SetupSync(node) ==
  [valid |-> ~node.hook \/ (~node.both /\ \A obj \in Objects : node.does[obj] # {}),
   next |-> {}]

\* Of an interface type nil is not refused, it kills SetupWithManager.
SetupCast(node) == [valid |-> node.subs[1] # 0, next |-> Given(node)]
SetupConfig(node) == [valid |-> node.asks /\ node.subs[1] # 0, next |-> Given(node)]

SetupNode(node) ==
  CASE node.kind = "ifthen" -> SetupIfThen(node)
    [] node.kind = "while" -> SetupWhile(node)
    [] node.kind = "trycatch" -> SetupTryCatch(node)
    [] node.kind = "override" -> SetupOverride(node)
    [] node.kind = "sequence" -> SetupSequence(node)
    [] node.kind = "sync" -> SetupSync(node)
    [] node.kind = "cast" -> SetupCast(node)
    [] node.kind = "config" -> SetupConfig(node)

\* All that the walk reaches from the root is accepted.
SetupSucceeds(p) ==
  \E reached \in SUBSET DOMAIN Tree[p] :
    /\ 1 \in reached
    /\ \A n \in reached :
         SetupNode(Tree[p][n]).valid /\ SetupNode(Tree[p][n]).next \subseteq reached

=============================================================================
