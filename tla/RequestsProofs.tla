--------------------------- MODULE RequestsProofs ---------------------------
(***************************************************************************)
(* What holds for every tree of sub reconcilers, whatever the authors'     *)
(* functions do, for every configuration of the hosts: types, the algebra  *)
(* of AggregateResults, that Finally is always called, that writing a      *)
(* status undoes nobody else's work; no requeue time, no error and no      *)
(* change of the resource gets lost on the way from the function of an     *)
(* author through all the calls around it; and a tree that was accepted by *)
(* the setup does not call nil.  Of webhooks that keep to fields of their  *)
(* own, that the mutation cache neither hides nor repeats an update.       *)
(***************************************************************************)
EXTENDS Requests, SequenceTheorems, TLAPS

-----------------------------------------------------------------------------
(* AggregateResults: a sequence of calls may be aggregated in any order and  *)
(* grouping, and nothing asked for is lost.                                  *)

LEMMA AggregateType ==
  ASSUME NEW a \in Result, NEW b \in Result
  PROVE  AggregateResults(a, b) \in Result
BY DEF AggregateResults, Result

\* Neither the order nor the grouping of sub reconcilers matters to the requeue
\* time, and one without a wish changes nothing (AggregateResults).
THEOREM AggregateAlgebra ==
  ASSUME NEW a \in Result, NEW b \in Result, NEW c \in Result
  PROVE  /\ AggregateResults(a, b) = AggregateResults(b, a)
         /\ AggregateResults(a, AggregateResults(b, c)) = AggregateResults(AggregateResults(a, b), c)
         /\ AggregateResults(a, NoResult) = a /\ AggregateResults(a, a) = a
BY DEF AggregateResults, Result, NoResult

\* The shortest of the requeue times wins (AggregateResults).
LEMMA AggregateShortest ==
  ASSUME NEW a \in Result, NEW b \in Result
  PROVE  LET r == AggregateResults(a, b)
         IN  /\ r.requeue = (a.requeue \/ b.requeue)
             /\ r.after = 0 <=> a.after = 0 /\ b.after = 0
             /\ r.after \in {a.after, b.after}
             /\ a.after # 0 => r.after <= a.after
             /\ b.after # 0 => r.after <= b.after
BY DEF AggregateResults, Result

-----------------------------------------------------------------------------
(* The stack of calls. *)

\* Frames of calls in a tree.
Frames(p) == {f \in Frame : /\ f.node \in DOMAIN Tree[p]
                            /\ Tree[p][f.node].kind = "sequence" =>
                                 f.at <= Len(Tree[p][f.node].subs)}

FlowTypes == /\ prog \in Programs /\ deleting \in BOOLEAN
             /\ stack \in Seq(Frames(prog))
             /\ ret \in [result : Result, err : Err]
             /\ res \in Objects /\ story \in Story

LEMMA FlowTypesSame == FlowTypes <=> FlowTypeOK
<1>1. ASSUME FlowTypes PROVE FlowTypeOK
  <2>1. stack \in Seq(Frame)  BY <1>1, SeqMonotonic DEF FlowTypes, Frames
  <2>2. \A i \in DOMAIN stack : stack[i] \in Frames(prog)
    BY <1>1, ElementOfSeq, LenProperties DEF FlowTypes
  <2> QED  BY <1>1, <2>1, <2>2 DEF FlowTypes, FlowTypeOK, Frames
<1>2. ASSUME FlowTypeOK PROVE FlowTypes
  <2>1. \A i \in 1 .. Len(stack) : stack[i] \in Frames(prog)
    <3> SUFFICES ASSUME NEW i \in 1 .. Len(stack) PROVE stack[i] \in Frames(prog)
      OBVIOUS
    <3>1. stack[i] \in Frame /\ i \in DOMAIN stack
      BY <1>2, ElementOfSeq, LenProperties DEF FlowTypeOK
    <3> QED  BY <1>2, <3>1 DEF FlowTypeOK, Frames
  <2>2. stack \in Seq(Frames(prog))
    <3>1. Len(stack) \in Nat /\ stack = [i \in 1 .. Len(stack) |-> stack[i]]
      BY <1>2, LenProperties DEF FlowTypeOK
    <3>2. stack \in [1 .. Len(stack) -> Frames(prog)]  BY <2>1, <3>1
    <3> QED  BY <3>1, <3>2
  <2> QED  BY <1>2, <2>2 DEF FlowTypes, FlowTypeOK
<1> QED  BY <1>1, <1>2

LEMMA Popped ==
  ASSUME NEW S, stack \in Seq(S), stack # <<>>
  PROVE  /\ Outer \in Seq(S) /\ Len(Outer) = Len(stack) - 1 /\ Len(stack) \in Nat
         /\ \A i \in 1 .. Len(stack) - 1 : Outer[i] = stack[i]
         /\ Top \in S
<1>1. Len(stack) \in Nat \ {0} /\ \A i \in 1 .. Len(stack) : stack[i] \in S
  BY EmptySeq, LenProperties
<1>2. \A i \in 1 .. Len(stack) - 1 : stack[i] \in S  BY <1>1
<1>3. Len(stack) - 1 \in Int /\ 1 \in Int  BY <1>1
<1>4. PICK n \in Nat : n = Len(stack) - 1  BY <1>1
<1>5. /\ SubSeq(stack, 1, n) \in Seq(S)
      /\ Len(SubSeq(stack, 1, n)) = IF 1 <= n THEN n - 1 + 1 ELSE 0
      /\ \A i \in 1 .. n - 1 + 1 : SubSeq(stack, 1, n)[i] = stack[1 + i - 1]
  BY <1>2, <1>3, <1>4, SubSeqProperties
<1>6. Outer = SubSeq(stack, 1, n)  BY <1>4, Zenon DEF Outer
<1>7. /\ Outer \in Seq(S)
      /\ Len(Outer) = IF 1 <= n THEN n - 1 + 1 ELSE 0
      /\ \A i \in 1 .. n - 1 + 1 : Outer[i] = stack[1 + i - 1]
  BY <1>5, <1>6, Zenon
<1>8. Len(Outer) = Len(stack) - 1 /\ \A i \in 1 .. Len(stack) - 1 : Outer[i] = stack[i]
  BY <1>4, <1>7
<1>9. Top \in S  BY <1>1 DEF Top
<1> QED  BY <1>1, <1>7, <1>8, <1>9

\* What a step does to the stack.
Shape ==
  \/ stack' = <<>> /\ story'.panicked
  \/ stack' = Outer
  \/ \E f \in Frames(prog) : stack' = Append(Outer, f)
  \/ \E f, g \in Frames(prog) : stack' = Outer \o <<f, g>>

LEMMA ShapeTypes ==
  ASSUME stack \in Seq(Frames(prog)), stack # <<>>, Shape
  PROVE  /\ stack' \in Seq(Frames(prog))
         /\ story'.panicked \/ \A i \in 1 .. Len(stack) - 1 :
                                 i \in 1 .. Len(stack') /\ stack'[i] = stack[i]
<1> DEFINE S == Frames(prog)
<1>1. /\ Outer \in Seq(S) /\ Len(Outer) = Len(stack) - 1 /\ Len(stack) \in Nat
      /\ \A i \in 1 .. Len(stack) - 1 : Outer[i] = stack[i]
  BY Popped
<1> HIDE DEF S
<1>2. CASE stack' = <<>> /\ story'.panicked  BY <1>2, EmptySeq DEF S
<1>3. CASE stack' = Outer  BY <1>1, <1>3 DEF S
<1>4. ASSUME NEW f \in S, stack' = Append(Outer, f)
      PROVE  stack' \in Seq(S) /\ \A i \in 1 .. Len(stack) - 1 :
                                    i \in 1 .. Len(stack') /\ stack'[i] = stack[i]
  BY <1>1, <1>4
<1>5. ASSUME NEW f \in S, NEW g \in S, stack' = Outer \o <<f, g>>
      PROVE  stack' \in Seq(S) /\ \A i \in 1 .. Len(stack) - 1 :
                                    i \in 1 .. Len(stack') /\ stack'[i] = stack[i]
  <2>1. <<f, g>> \in Seq(S) /\ Len(<<f, g>>) = 2  OBVIOUS
  <2> QED  BY <1>1, <1>5, <2>1, ConcatProperties
<1> QED  BY <1>2, <1>3, <1>4, <1>5 DEF Shape, S

-----------------------------------------------------------------------------
(* What one step of the innermost call does to the types. *)

StepTypes == /\ Shape
             /\ ret' \in [result : Result, err : Err]
             /\ res' \in Objects /\ story' \in Story

\* What a reconciler finds when a step of its code begins.
LEMMA Current ==
  ASSUME FlowTypes, stack # <<>>
  PROVE  /\ Top \in Frames(prog) /\ Top \in Frame
         /\ Tree[prog] \in Seq(Node) /\ Reconciler \in Node
         /\ DOMAIN Reconciler.subs = 1 .. Len(Reconciler.subs) /\ Len(Reconciler.subs) \in Nat
         /\ \A i \in DOMAIN Reconciler.subs : Reconciler.subs[i] \in {0} \cup DOMAIN Tree[prog]
         /\ Reconciler.kind # "sequence" => Len(Reconciler.subs) = Fields(Reconciler.kind)
         /\ Reconciler.kind = "sequence" => Top.at <= Len(Reconciler.subs)
<1>1. Top \in Frames(prog)  BY Popped DEF FlowTypes
<1>2. Tree[prog] \in Seq(Node) /\ Top.node \in DOMAIN Tree[prog] /\ Top \in Frame
  BY <1>1, ProgramAssumption DEF FlowTypes, Frames
<1>3. Reconciler \in Node  BY <1>2, ElementOfSeq, LenProperties DEF Reconciler
<1>4. Reconciler.subs \in Seq(Nat)  BY <1>3 DEF Node
<1>5. DOMAIN Reconciler.subs = 1 .. Len(Reconciler.subs) /\ Len(Reconciler.subs) \in Nat
  BY <1>4, LenProperties
<1>6. ASSUME NEW i \in DOMAIN Reconciler.subs
      PROVE  Reconciler.subs[i] \in {0} \cup DOMAIN Tree[prog]
  <2>1. Reconciler.subs[i] \in {0} \cup Top.node + 1 .. Len(Tree[prog])
    BY <1>2, ProgramAssumption DEF FlowTypes, Reconciler
  <2>2. DOMAIN Tree[prog] = 1 .. Len(Tree[prog]) /\ Len(Tree[prog]) \in Nat
    BY <1>2, LenProperties
  <2> QED  BY <1>2, <2>1, <2>2
<1>7. Reconciler.kind # "sequence" => Len(Reconciler.subs) = Fields(Reconciler.kind)
  BY <1>2, ProgramAssumption DEF FlowTypes, Reconciler
<1>8. Reconciler.kind = "sequence" => Top.at <= Len(Reconciler.subs)
  BY <1>1 DEF Frames, Reconciler
<1> QED  BY <1>1, <1>2, <1>3, <1>5, <1>6, <1>7, <1>8

LEMMA MixType ==
  ASSUME NEW o \in Objects, NEW p \in Objects, NEW ks \in SUBSET Keys
  PROVE  [k \in Keys |-> IF k \in ks THEN o[k] ELSE p[k]] \in Objects
BY ObjectAssumption

\* Casting and patching make objects of objects.
LEMMA SeenType ==
  ASSUME NEW fields, NEW obj \in Objects
  PROVE  Seen(fields, obj) \in Objects
<1> DEFINE ks == {k \in Keys : k \in fields}
<1>1. [k \in Keys |-> IF k \in ks THEN obj[k] ELSE Blank[k]] \in Objects
  BY MixType, ObjectAssumption
<1>2. [k \in Keys |-> IF k \in ks THEN obj[k] ELSE Blank[k]]
        = [k \in Keys |-> IF k \in fields THEN obj[k] ELSE Unset]
  BY DEF Blank
<1> QED  BY <1>1, <1>2 DEF Seen

LEMMA AppliedType ==
  ASSUME NEW base, NEW new \in Objects, NEW obj \in Objects
  PROVE  Applied(base, new, obj) \in Objects
<1> DEFINE ks == {k \in Keys : new[k] # base[k]}
<1>1. [k \in Keys |-> IF k \in ks THEN new[k] ELSE obj[k]] \in Objects
  BY MixType
<1>2. [k \in Keys |-> IF k \in ks THEN new[k] ELSE obj[k]]
        = [k \in Keys |-> IF new[k] # base[k] THEN new[k] ELSE obj[k]]
  OBVIOUS
<1> QED  BY <1>1, <1>2 DEF Applied

LEMMA NothingType == Nothing \in [result : Result, err : Err] /\ NoResult \in Result
BY DEF Nothing, NoResult, Result, Err

LEMMA NewFrameType ==
  ASSUME FlowTypes, NEW n \in DOMAIN Tree[prog]
  PROVE  NewFrame(n) \in Frames(prog)
<1>1. Tree[prog] \in Seq(Node)  BY ProgramAssumption DEF FlowTypes
<1>2. n \in Nat /\ Tree[prog][n] \in Node  BY <1>1, ElementOfSeq, LenProperties
<1>3. Len(Tree[prog][n].subs) \in Nat  BY <1>2, LenProperties DEF Node
<1>4. NewFrame(n) \in Frame /\ NewFrame(n).node = n /\ NewFrame(n).at = 0
  BY <1>2, NothingType, ObjectAssumption DEF FlowTypes, NewFrame, Frame, Err
<1> QED  BY <1>3, <1>4 DEF Frames

\* A frame that has got further in the same call.
LEMMA FrameMoves ==
  ASSUME NEW p, NEW f \in Frames(p), NEW g \in Frame, g.node = f.node,
         Tree[p][f.node].kind = "sequence" => g.at <= Len(Tree[p][f.node].subs)
  PROVE  g \in Frames(p)
BY DEF Frames

LEMMA PanicTypes ==
  ASSUME FlowTypes, Panic
  PROVE  StepTypes
BY NothingType DEF FlowTypes, Panic, StepTypes, Shape, Story

LEMMA CallWithTypes ==
  ASSUME FlowTypes, stack # <<>>, NEW f \in Frames(prog),
         NEW n \in {0} \cup DOMAIN Tree[prog], NEW obj \in Objects, CallWith(f, n, obj)
  PROVE  StepTypes
<1>1. CASE n = 0  BY <1>1, PanicTypes DEF CallWith
<1>2. CASE n # 0
  <2>1. NewFrame(n) \in Frames(prog)  BY <1>2, NewFrameType
  <2>2. Shape  BY <1>2, <2>1 DEF CallWith, Shape
  <2> QED  BY <1>2, <2>2, NothingType DEF FlowTypes, CallWith, StepTypes
<1> QED  BY <1>1, <1>2

LEMMA CallTypes ==
  ASSUME FlowTypes, stack # <<>>, NEW f \in Frames(prog),
         NEW n \in {0} \cup DOMAIN Tree[prog], Call(f, n)
  PROVE  StepTypes
BY CallWithTypes DEF Call, FlowTypes

LEMMA BecomeTypes ==
  ASSUME FlowTypes, stack # <<>>, NEW n \in {0} \cup DOMAIN Tree[prog], Become(n)
  PROVE  StepTypes
<1>1. CASE n = 0  BY <1>1, PanicTypes DEF Become
<1>2. CASE n # 0
  <2>1. NewFrame(n) \in Frames(prog)  BY <1>2, NewFrameType
  <2>2. Shape  BY <1>2, <2>1 DEF Become, Shape
  <2> QED  BY <1>2, <2>2, NothingType DEF FlowTypes, Become, StepTypes
<1> QED  BY <1>1, <1>2

LEMMA ReturnTypes ==
  ASSUME FlowTypes, NEW result \in Result, NEW err \in Err, Return(result, err),
         res' \in Objects, story' \in Story
  PROVE  StepTypes
BY DEF Return, StepTypes, Shape

\* A step of a frame that stays what it is, with a different outcome so far.
LEMMA TopMoves ==
  ASSUME FlowTypes, stack # <<>>, NEW at \in Nat, NEW acc \in Result, NEW err \in Err,
         Reconciler.kind = "sequence" => at <= Len(Reconciler.subs)
  PROVE  [Top EXCEPT !.at = at, !.acc = acc, !.err = err] \in Frames(prog)
<1>1. Top \in Frames(prog) /\ Top \in Frame  BY Current
<1>2. [Top EXCEPT !.at = at, !.acc = acc, !.err = err] \in Frame  BY <1>1 DEF Frame
<1> QED  BY <1>1, <1>2, FrameMoves DEF Reconciler, Frame

LEMMA SequenceTypes ==
  ASSUME FlowTypes, stack # <<>>, Sequence
  PROVE  StepTypes
<1> DEFINE acc == AggregateResults(ret.result, Top.acc)
<1>1. Top \in Frame /\ ret.result \in Result /\ ret.err \in Err  BY Current DEF FlowTypes
<1>2. acc \in Result  BY <1>1, AggregateType DEF Frame
<1>3. {} \in Err  BY DEF Err
<1>4. CASE ret.err # {}
  BY <1>1, <1>4, ReturnTypes DEF Sequence, FlowTypes
<1>5. CASE ret.err = {} /\ Top.at = Len(Reconciler.subs)
  BY <1>2, <1>3, <1>5, ReturnTypes DEF Sequence, FlowTypes
<1>6. CASE ret.err = {} /\ Top.at # Len(Reconciler.subs)
  <2>1. /\ Top.at + 1 \in Nat /\ Top.at + 1 \in DOMAIN Reconciler.subs
        /\ Top.at + 1 <= Len(Reconciler.subs) /\ Top.err \in Err
    BY <1>1, <1>6, Current DEF Sequence, Frame
  <2>2. [Top EXCEPT !.at = Top.at + 1, !.acc = acc] \in Frames(prog)
    <3>1. [Top EXCEPT !.at = Top.at + 1, !.acc = acc, !.err = Top.err] \in Frames(prog)
      BY <1>2, <2>1, TopMoves
    <3>2. [Top EXCEPT !.at = Top.at + 1, !.acc = acc, !.err = Top.err]
            = [Top EXCEPT !.at = Top.at + 1, !.acc = acc]
      BY <1>1 DEF Frame
    <3> QED  BY <3>1, <3>2
  <2>3. Reconciler.subs[Top.at + 1] \in {0} \cup DOMAIN Tree[prog]  BY <2>1, Current
  <2>4. Call([Top EXCEPT !.at = Top.at + 1, !.acc = acc], Reconciler.subs[Top.at + 1])
    BY <1>6 DEF Sequence
  <2> QED  BY <2>2, <2>3, <2>4, CallTypes
<1> QED  BY <1>4, <1>5, <1>6

\* The sub reconcilers of a node that is no sequence.
LEMMA FieldsOf ==
  ASSUME FlowTypes, stack # <<>>, Reconciler.kind # "sequence"
  PROVE  /\ Reconciler.kind \in {"ifthen", "trycatch"} =>
              /\ Reconciler.subs[1] \in {0} \cup DOMAIN Tree[prog]
              /\ Reconciler.subs[2] \in {0} \cup DOMAIN Tree[prog]
         /\ Reconciler.kind \in {"while", "override", "cast", "config"} =>
              Reconciler.subs[1] \in {0} \cup DOMAIN Tree[prog]
BY Current DEF Fields

LEMMA IfThenTypes ==
  ASSUME FlowTypes, stack # <<>>, IfThen
  PROVE  StepTypes
<1>1. {} \in Err /\ NoResult \in Result  BY NothingType DEF Err
<1>2. CASE Become(Reconciler.subs[1]) \/ Become(Reconciler.subs[2])
  BY <1>2, FieldsOf, BecomeTypes DEF IfThen
<1>3. CASE Return(NoResult, {}) /\ UNCHANGED <<res, story>>
  BY <1>1, <1>3, ReturnTypes DEF FlowTypes
<1>4. CASE Panic  BY <1>4, PanicTypes
<1> QED  BY <1>2, <1>3, <1>4 DEF IfThen

LEMMA WhileTypes ==
  ASSUME FlowTypes, stack # <<>>, While
  PROVE  StepTypes
<1> DEFINE acc == AggregateResults(Top.acc, ret.result)
<1>1. Top \in Frame /\ ret.result \in Result /\ ret.err \in Err  BY Current DEF FlowTypes
<1>2. acc \in Result  BY <1>1, AggregateType DEF Frame
<1>3. {} \in Err /\ {"limit"} \in Err  BY DEF Err, Causes
<1>4. CASE Return(acc, ret.err) /\ UNCHANGED <<res, story>>
  BY <1>1, <1>2, <1>4, ReturnTypes DEF FlowTypes
<1>5. CASE Return(acc, {"limit"}) /\ Raise({"limit"}) /\ UNCHANGED res
  <2>1. story' \in Story  BY <1>3, <1>5 DEF FlowTypes, Raise, Story, Err
  <2> QED  BY <1>2, <1>3, <1>5, <2>1, ReturnTypes DEF FlowTypes
<1>6. CASE Return(acc, {}) /\ UNCHANGED <<res, story>>
  BY <1>2, <1>3, <1>6, ReturnTypes DEF FlowTypes
<1>7. CASE Call([Top EXCEPT !.at = Top.at + 1, !.acc = acc], Reconciler.subs[1])
  <2>1. Reconciler.subs[1] \in {0} \cup DOMAIN Tree[prog]  BY FieldsOf DEF While
  <2>2. Top.at + 1 \in Nat /\ Top.err \in Err  BY <1>1 DEF Frame
  <2>3. [Top EXCEPT !.at = Top.at + 1, !.acc = acc, !.err = Top.err] \in Frames(prog)
    BY <1>2, <2>2, TopMoves DEF While
  <2>4. [Top EXCEPT !.at = Top.at + 1, !.acc = acc, !.err = Top.err]
          = [Top EXCEPT !.at = Top.at + 1, !.acc = acc]
    BY <1>1 DEF Frame
  <2> QED  BY <1>7, <2>1, <2>3, <2>4, CallTypes
<1>8. CASE Panic  BY <1>8, PanicTypes
<1> QED  BY <1>4, <1>5, <1>6, <1>7, <1>8 DEF While

LEMMA TryTypes ==
  ASSUME FlowTypes, stack # <<>>, Try
  PROVE  StepTypes
<1>1. Top \in Frame  BY Current
<1>2. Reconciler.subs[1] \in {0} \cup DOMAIN Tree[prog]  BY FieldsOf DEF Try
<1>3. [Top EXCEPT !.at = 1, !.acc = Top.acc, !.err = Top.err] \in Frames(prog)
  BY <1>1, TopMoves DEF Try, Frame
<1>4. [Top EXCEPT !.at = 1, !.acc = Top.acc, !.err = Top.err] = [Top EXCEPT !.at = 1]
  BY <1>1 DEF Frame
<1> QED  BY <1>2, <1>3, <1>4, CallTypes DEF Try

LEMMA LeaveTypes ==
  ASSUME FlowTypes, stack # <<>>, Reconciler.kind = "trycatch",
         NEW result \in Result, NEW err \in Err, Leave(result, err),
         res' \in Objects, story' \in Story
  PROVE  StepTypes
<1>1. CASE Reconciler.subs[2] = 0  BY <1>1, ReturnTypes DEF Leave
<1>2. CASE Reconciler.subs[2] # 0
  <2> DEFINE f == [Top EXCEPT !.at = 2, !.acc = result, !.err = err]
             g == NewFrame(Reconciler.subs[2])
  <2>1. f \in Frames(prog)  BY TopMoves
  <2>2. g \in Frames(prog)  BY <1>2, FieldsOf, NewFrameType
  <2>3. stack' = Outer \o <<f, g>> /\ ret' = Nothing  BY <1>2 DEF Leave
  <2> QED  BY <2>1, <2>2, <2>3, NothingType DEF StepTypes, Shape
<1> QED  BY <1>1, <1>2

LEMMA TryCatchTypes ==
  ASSUME FlowTypes, stack # <<>>,
         Propagate \/ Finally \/ \E o \in Reconciler.does[res] : Catch(o)
  PROVE  StepTypes
<1>1. Top \in Frame /\ Reconciler \in Node /\ ret.result \in Result /\ ret.err \in Err
  BY Current DEF FlowTypes
<1>2. CASE Propagate
  BY <1>1, <1>2, LeaveTypes DEF Propagate, FlowTypes
<1>3. CASE Finally
  <2>1. AggregateResults(Top.acc, ret.result) \in Result /\ Top.err \in Err
    BY <1>1, AggregateType DEF Frame
  <2> QED  BY <1>1, <1>3, <2>1, ReturnTypes DEF Finally, FlowTypes
<1>4. ASSUME NEW o \in Reconciler.does[res], Catch(o) PROVE StepTypes
  <2>1. o \in Outcome  BY <1>1 DEF FlowTypes, Node
  <2>2. o.result \in Result /\ o.err \in Err /\ o.obj \in Objects  BY <2>1 DEF Outcome
  <2>3. res' \in Objects /\ story' \in Story
    BY <1>4, <2>2, AppliedType DEF Catch, FlowTypes, Story, Err
  <2> QED  BY <1>4, <2>2, <2>3, LeaveTypes DEF Catch
<1> QED  BY <1>2, <1>3, <1>4

LEMMA OverrideConfigTypes ==
  ASSUME FlowTypes, stack # <<>>, OverrideSetup \/ WithConfig
  PROVE  StepTypes
<1>1. {} \in Err /\ {"fail"} \in Err /\ NoResult \in Result  BY NothingType DEF Err, Causes
<1>2. CASE Become(Reconciler.subs[1]) /\ Reconciler.kind \in {"override", "config"}
  BY <1>2, FieldsOf, BecomeTypes
<1>3. CASE Return(NoResult, {}) /\ UNCHANGED <<res, story>>
  BY <1>1, <1>3, ReturnTypes DEF FlowTypes
<1>4. CASE Return(NoResult, {"fail"}) /\ Raise({"fail"}) /\ UNCHANGED res
  <2>1. story' \in Story  BY <1>1, <1>4 DEF FlowTypes, Raise, Story, Err
  <2> QED  BY <1>1, <1>4, <2>1, ReturnTypes DEF FlowTypes
<1>5. CASE Panic  BY <1>5, PanicTypes
<1> QED  BY <1>2, <1>3, <1>4, <1>5 DEF OverrideSetup, WithConfig

LEMMA CastTypes ==
  ASSUME FlowTypes, stack # <<>>, Cast
  PROVE  StepTypes
<1>1. Top \in Frame  BY Current
<1>2. Reconciler.subs[1] \in {0} \cup DOMAIN Tree[prog]  BY FieldsOf DEF Cast
<1>3. {"cast"} \in Err /\ NoResult \in Result  BY NothingType DEF Err, Causes
<1>4. CASE Become(Reconciler.subs[1])  BY <1>2, <1>4, BecomeTypes
<1>5. CASE CallWith([Top EXCEPT !.at = 1, !.saved = res], Reconciler.subs[1],
                    Seen(CastType, res))
  <2> DEFINE f == [Top EXCEPT !.at = 1, !.saved = res]
  <2>1. f \in Frame /\ f.node = Top.node /\ f.at = 1  BY <1>1 DEF Frame, FlowTypes
  <2>2. f \in Frames(prog)  BY <2>1, Current, FrameMoves DEF Cast, Reconciler
  <2>3. Seen(CastType, res) \in Objects  BY SeenType DEF FlowTypes
  <2> QED  BY <1>2, <1>5, <2>2, <2>3, CallWithTypes
<1>6. CASE Return(NoResult, {"cast"}) /\ Raise({"cast"}) /\ UNCHANGED res
  <2>1. story' \in Story  BY <1>3, <1>6 DEF FlowTypes, Raise, Story, Err
  <2> QED  BY <1>3, <1>6, <2>1, ReturnTypes DEF FlowTypes
<1> QED  BY <1>4, <1>5, <1>6 DEF Cast

LEMMA CastBackTypes ==
  ASSUME FlowTypes, stack # <<>>, CastBack
  PROVE  StepTypes
<1>1. Top \in Frame /\ ret.result \in Result /\ ret.err \in Err  BY Current DEF FlowTypes
<1>2. CASE /\ Return(ret.result, ret.err) /\ UNCHANGED story
           /\ res' = Patch(Seen(CastType, Top.saved))
  <2>1. Applied(Seen(CastType, Top.saved), res, Top.saved) \in Objects
    BY <1>1, AppliedType DEF Frame, FlowTypes
  <2>2. res' \in Objects  BY <1>2, <2>1, SeenType DEF Patch
  <2> QED  BY <1>1, <1>2, <2>2, ReturnTypes DEF FlowTypes
<1>3. CASE /\ Return(ret.result, ret.err \cup {"patch"}) /\ Raise({"patch"})
           /\ res' = Top.saved
  <2>1. ret.err \cup {"patch"} \in Err  BY <1>1 DEF Err, Causes
  <2>2. story' \in Story  BY <1>3 DEF FlowTypes, Raise, Story, Err, Causes
  <2>3. res' \in Objects  BY <1>1, <1>3 DEF Frame
  <2> QED  BY <1>1, <1>3, <2>1, <2>2, <2>3, ReturnTypes
<1> QED  BY <1>2, <1>3 DEF CastBack

LEMMA SyncTypes ==
  ASSUME FlowTypes, stack # <<>>, Sync \/ Finalize
  PROVE  StepTypes
<1>1. /\ Top \in Frame /\ Top \in Frames(prog) /\ Reconciler \in Node
      /\ Top.acc \in Result /\ {} \in Err
  BY Current DEF Frame, Err
<1>2. ASSUME NEW o \in Reconciler.does[res] \cup Reconciler.ends[res], Does(o)
      PROVE  /\ o.result \in Result /\ o.err \in Err
             /\ res' \in Objects /\ story' \in Story
  <2>1. o \in Outcome  BY <1>1 DEF FlowTypes, Node
  <2>2. o.result \in Result /\ o.err \in Err /\ o.obj \in Objects  BY <2>1 DEF Outcome
  <2>3. story' \in Story  BY <1>2, <2>2, AppliedType DEF Does, FlowTypes, Story, Err
  <2> QED  BY <1>2, <2>2, <2>3 DEF Does
<1>3. ASSUME NEW o \in Reconciler.does[res], Does(o), Return(o.result, o.err)
      PROVE  StepTypes
  BY <1>2, <1>3, ReturnTypes
<1>4. ASSUME NEW o \in Reconciler.does[res], Does(o), Reconciler.kind = "sync",
             stack' = Append(Outer, [Top EXCEPT !.at = 1, !.acc = o.result]), UNCHANGED ret
      PROVE  StepTypes
  <2>1. Top.err \in Err /\ o.result \in Result  BY <1>1, <1>2, <1>4 DEF Frame
  <2>2. [Top EXCEPT !.at = 1, !.acc = o.result, !.err = Top.err] \in Frames(prog)
    BY <1>4, <2>1, TopMoves
  <2>3. [Top EXCEPT !.at = 1, !.acc = o.result, !.err = Top.err]
          = [Top EXCEPT !.at = 1, !.acc = o.result]
    BY <1>1 DEF Frame
  <2>4. Shape  BY <1>4, <2>2, <2>3 DEF Shape
  <2> QED  BY <1>2, <1>4, <2>4 DEF StepTypes, FlowTypes
<1>5. CASE Return(Top.acc, {}) /\ UNCHANGED <<res, story>>
  BY <1>1, <1>5, ReturnTypes DEF FlowTypes
<1>6. ASSUME NEW o \in Reconciler.ends[res], Does(o),
             Return(AggregateResults(Top.acc, o.result), o.err)
      PROVE  StepTypes
  <2>1. AggregateResults(Top.acc, o.result) \in Result  BY <1>1, <1>2, <1>6, AggregateType
  <2> QED  BY <1>2, <1>6, <2>1, ReturnTypes
<1>7. CASE Sync  BY <1>3, <1>4, <1>7, PanicTypes DEF Sync
<1>8. CASE Finalize  BY <1>5, <1>6, <1>8 DEF Finalize
<1> QED  BY <1>7, <1>8

LEMMA FlowStepTypes ==
  ASSUME FlowTypes, FlowStep
  PROVE  FlowTypes' /\ StepTypes
<1>1. stack # <<>> /\ UNCHANGED <<prog, deleting>>  BY DEF FlowStep
<1>2. StepTypes
  BY <1>1, SequenceTypes, IfThenTypes, WhileTypes, TryTypes, TryCatchTypes,
     OverrideConfigTypes, CastTypes, CastBackTypes, SyncTypes DEF FlowStep
<1>3. stack' \in Seq(Frames(prog))  BY <1>1, <1>2, ShapeTypes DEF FlowTypes, StepTypes
<1>4. Frames(prog)' = Frames(prog)  BY <1>1 DEF Frames
<1> QED  BY <1>1, <1>2, <1>3, <1>4 DEF FlowTypes, StepTypes

LEMMA StartFlowTypes ==
  ASSUME NEW p \in Programs, NEW obj \in Objects, NEW del \in BOOLEAN, StartFlow(p, obj, del)
  PROVE  FlowTypes' /\ stack' # <<>>
<1> DEFINE f == [node |-> 1, at |-> 0, acc |-> NoResult, err |-> {}, saved |-> Blank]
<1>1. Tree[p] \in Seq(Node) /\ Tree[p] # <<>>  BY ProgramAssumption
<1>2. 1 \in DOMAIN Tree[p] /\ Tree[p][1] \in Node
  BY <1>1, EmptySeq, LenProperties
<1>3. Len(Tree[p][1].subs) \in Nat  BY <1>2, LenProperties DEF Node
<1>4. f \in Frame  BY NothingType, ObjectAssumption DEF Frame, Err
<1>5. f \in Frames(p)  BY <1>2, <1>3, <1>4 DEF Frames
<1>6. <<f>> \in Seq(Frames(p)) /\ <<f>> # <<>>  BY <1>5
<1>7. stack' \in Seq(Frames(p)) /\ stack' # <<>> /\ prog' = p  BY <1>6 DEF StartFlow
<1>8. Frames(p) = Frames(prog)'  BY <1>7 DEF Frames
<1>9. story' \in Story  BY DEF StartFlow, Story, Err
<1> QED  BY <1>7, <1>8, <1>9, NothingType DEF FlowTypes, StartFlow

-----------------------------------------------------------------------------
(* The hosts. *)

HostTypes == /\ conf \in Configurations /\ want \in conf.wants
             /\ stored \in Stored /\ memo \in Memo
             /\ env \in [Disturbances -> Nat] /\ queued \in BOOLEAN
             /\ phase \in Phases /\ read \in Read /\ call \in Sending
             /\ answer \in [result : Result, err : Err] /\ said \in Story
StackIdle == stack # <<>> => phase \in {"run", "hook"}

\* What was read is what the type sees of the stored object as long as it is current.
ReadCurrent == read.current => read.body = Seen(conf.fields, stored.body)

\* What is sent as an update was desired.
GoalSent == call.verb = "update" => call.goal \in Objects

Inv == FlowTypes /\ HostTypes /\ StackIdle /\ ReadCurrent /\ GoalSent

LEMMA InvTypes == Inv => RequestsTypeOK
BY FlowTypesSame DEF Inv, RequestsTypeOK, HostTypes, StackIdle

LEMMA Constants ==
  ASSUME HostTypes
  PROVE  /\ conf \in Configuration /\ conf.tree \in Programs /\ conf.hook \in Programs
         /\ conf.wants \subseteq Wants /\ want \in Wants
         /\ Blank \in Objects /\ NoObject \in Wants /\ Objects \subseteq Wants
         /\ Defaulted \in [Objects -> Objects]
BY RequestsAssumption, ObjectAssumption DEF HostTypes, Configuration, Wants

LEMMA ConstantTypes ==
  /\ NothingRead \in Read /\ NoCall \in Sending /\ NoMemo \in Memo /\ Gone \in Stored
  /\ NoStory \in Story /\ <<>> \in Seq(Frames(prog))
BY RequestsAssumption, ObjectAssumption, EmptySeq
   DEF NothingRead, Read, NoCall, Sending, NoMemo, Memo, Gone, Stored, NoStory, Story,
       Verbs, Wants, Err

LEMMA MergedType ==
  ASSUME FlowTypes, HostTypes
  PROVE  Merged \in Objects
BY AppliedType DEF Merged, FlowTypes, HostTypes, Stored

LEMMA PatchedType ==
  ASSUME HostTypes, NEW obj \in Objects
  PROVE  Patched(obj) \in Objects
BY AppliedType DEF Patched, HostTypes, Memo

LEMMA SpendTypes ==
  ASSUME HostTypes, NEW kind \in Disturbances, Spend(kind)
  PROVE  env' \in [Disturbances -> Nat]
BY DEF HostTypes, Spend

LEMMA FateTypes ==
  ASSUME HostTypes, NEW o, Fate(o)
  PROVE  env' \in [Disturbances -> Nat]
<1>1. "faults" \in Disturbances  BY DEF Disturbances
<1> QED  BY <1>1, SpendTypes DEF Fate, HostTypes

LEMMA StoreTypes ==
  ASSUME HostTypes, ReadCurrent, UNCHANGED conf, NEW new \in Stored, Store(new)
  PROVE  /\ stored' \in Stored /\ memo' \in Memo /\ read' \in Read /\ queued' \in BOOLEAN
         /\ ReadCurrent' /\ read'.body = read.body
<1>1. read' = [read EXCEPT !.current = read.current /\ new = stored] /\ stored' = new
  BY DEF Store
<1>2. read' \in Read /\ read'.body = read.body /\ (read'.current => read.current /\ new = stored)
  BY <1>1 DEF HostTypes, Read
<1>3. ReadCurrent'  BY <1>1, <1>2 DEF ReadCurrent
<1>4. memo' \in Memo  BY ConstantTypes DEF Store, HostTypes
<1>5. queued' \in BOOLEAN  BY DEF Store, HostTypes
<1> QED  BY <1>1, <1>2, <1>3, <1>4, <1>5

LEMMA AnswerTypes ==
  ASSUME NEW result \in Result, NEW err \in Err, Answer(result, err)
  PROVE  /\ answer' \in [result : Result, err : Err] /\ phase' = "done" /\ phase' \in Phases
         /\ phase' \notin {"run", "hook"}
BY DEF Answer, Phases

LEMMA NoErr == {} \in Err /\ {"fail"} \in Err
BY DEF Err, Causes

LEMMA FlowUnchanged ==
  ASSUME FlowTypes, UNCHANGED flowVars
  PROVE  FlowTypes' /\ UNCHANGED stack
<1>1. Frames(prog)' = Frames(prog)  BY DEF Frames, flowVars
<1> QED  BY <1>1 DEF FlowTypes, flowVars

-----------------------------------------------------------------------------
(* One lemma per action. *)

LEMMA SetupInv ==
  ASSUME Inv, Setup
  PROVE  Inv'
<1>1. UNCHANGED flowVars /\ phase = "new" /\ phase' \in {"idle", "refused"}
  BY DEF Setup
<1>2. FlowTypes' /\ UNCHANGED stack  BY <1>1, FlowUnchanged DEF Inv
<1> QED  BY <1>1, <1>2 DEF Inv, Setup, HostTypes, StackIdle, ReadCurrent, GoalSent, Phases

LEMMA BeginInv ==
  ASSUME Inv, NEW o \in Fates, Begin(o)
  PROVE  Inv'
<1>1. phase = "idle" /\ stack = <<>>  BY DEF Begin, Inv, StackIdle
<1>2. env' \in [Disturbances -> Nat]  BY FateTypes DEF Begin, Inv
<1>3. UNCHANGED <<conf, stored, want, memo, call, said>> /\ queued' = FALSE  BY DEF Begin
<1>4. CASE o = "rejected" \/ NothingToDo
  <2>1. /\ Answer(NoResult, IF o = "ok" THEN {} ELSE {"fail"})
        /\ UNCHANGED <<flowVars, read>>
    BY <1>4 DEF Begin
  <2>2. FlowTypes' /\ UNCHANGED stack  BY <2>1, FlowUnchanged DEF Inv
  <2>3. /\ answer' \in [result : Result, err : Err] /\ phase' \in Phases
    BY <2>1, NoErr, NothingType, AnswerTypes
  <2> QED  BY <1>1, <1>2, <1>3, <2>1, <2>2, <2>3 DEF Inv, HostTypes, StackIdle, ReadCurrent, GoalSent
<1>5. CASE ~(o = "rejected" \/ NothingToDo)
  <2>1. /\ phase' = "run" /\ UNCHANGED answer
        /\ read' = [there |-> stored.there, body |-> Seen(conf.fields, stored.body), current |-> TRUE]
        /\ StartFlow(conf.tree,
                     IF conf.host = "resource" THEN Defaulted[read'.body] ELSE read'.body,
                     stored.deleting)
    BY <1>5 DEF Begin
  <2>2. /\ Seen(conf.fields, stored.body) \in Objects
        /\ stored.deleting \in BOOLEAN /\ stored.there \in BOOLEAN
    BY SeenType DEF Inv, HostTypes, Stored
  <2>3. (IF conf.host = "resource" THEN Defaulted[read'.body] ELSE read'.body) \in Objects
        /\ conf.tree \in Programs
    BY <2>1, <2>2, Constants DEF Inv
  <2>4. FlowTypes'  BY <2>1, <2>2, <2>3, StartFlowTypes
  <2>5. read' \in Read /\ ReadCurrent'  BY <1>3, <2>1, <2>2 DEF Read, ReadCurrent
  <2> QED  BY <1>2, <1>3, <2>1, <2>4, <2>5 DEF Inv, HostTypes, StackIdle, GoalSent, Phases
<1> QED  BY <1>4, <1>5

LEMMA StepInv ==
  ASSUME Inv, Step
  PROVE  Inv'
<1>1. FlowStep /\ phase \in {"run", "hook"} /\ UNCHANGED <<conf, stored, want, memo, env, queued, requestVars>>
  BY DEF Step
<1>2. FlowTypes'  BY <1>1, FlowStepTypes DEF Inv
<1> QED  BY <1>1, <1>2 DEF Inv, HostTypes, StackIdle, ReadCurrent, GoalSent, requestVars

LEMMA EndTreeInv ==
  ASSUME Inv, EndTree
  PROVE  Inv'
<1>1. stack = <<>> /\ UNCHANGED flowVars /\ said' = story
      /\ UNCHANGED <<conf, stored, want, memo, env, queued, read, call>>
  BY DEF EndTree
<1>2. FlowTypes' /\ UNCHANGED stack  BY <1>1, FlowUnchanged DEF Inv
<1>3. said' \in Story /\ ret.result \in Result /\ ret.err \in Err
  BY <1>1 DEF Inv, FlowTypes
<1>4. phase' \in Phases /\ answer' \in [result : Result, err : Err]
  <2>1. CASE story.panicked  BY <1>1, <2>1 DEF EndTree, Phases, Inv, HostTypes
  <2>2. CASE ~story.panicked /\ conf.host = "resource"
    <3> DEFINE err == IF "halt" \in ret.err THEN {} ELSE ret.err
               result == IF err = {} THEN ret.result ELSE NoResult
    <3>1. err \in Err /\ result \in Result  BY <1>3, NoErr, NothingType
    <3>2. \/ phase' = "status" /\ answer' = [result |-> result, err |-> err]
          \/ Answer(result, err)
      BY <2>2 DEF EndTree, EndResource
    <3> HIDE DEF err, result
    <3>3. CASE Answer(result, err)  BY <3>1, <3>3, AnswerTypes
    <3>4. CASE phase' = "status" /\ answer' = [result |-> result, err |-> err]
      BY <3>1, <3>4 DEF Phases
    <3> QED  BY <3>2, <3>3, <3>4
  <2>3. CASE ~story.panicked /\ conf.host # "resource"
    <3>1. \/ Answer(ret.result, ret.err)
          \/ phase' = "desire" /\ answer' = [result |-> ret.result, err |-> {}]
      BY <2>3 DEF EndTree, EndAggregate
    <3> QED  BY <1>3, <3>1, NoErr, AnswerTypes DEF Phases
  <2> QED  BY <2>1, <2>2, <2>3
<1> QED  BY <1>1, <1>2, <1>3, <1>4 DEF Inv, HostTypes, StackIdle, ReadCurrent, GoalSent

LEMMA WriteStatusInv ==
  ASSUME Inv, NEW o \in Fates, WriteStatus(o)
  PROVE  Inv'
<1>1. phase = "status" /\ stack = <<>> /\ UNCHANGED <<flowVars, conf, want, call, said>>
  BY DEF WriteStatus, Inv, StackIdle
<1>2. FlowTypes' /\ UNCHANGED stack  BY <1>1, FlowUnchanged DEF Inv
<1>3. env' \in [Disturbances -> Nat]  BY FateTypes DEF WriteStatus, Inv
<1>4. [stored EXCEPT !.body = Merged] \in Stored
  BY MergedType DEF Inv, HostTypes, Stored
<1>5. /\ stored' \in Stored /\ memo' \in Memo /\ read' \in Read /\ queued' \in BOOLEAN
      /\ ReadCurrent'
  <2>1. \/ Store([stored EXCEPT !.body = Merged])
        \/ UNCHANGED <<stored, memo, read, queued>>
    BY DEF WriteStatus
  <2>2. CASE UNCHANGED <<stored, memo, read, queued>>
    BY <1>1, <2>2 DEF Inv, HostTypes, ReadCurrent
  <2> QED  BY <1>1, <1>4, <2>1, <2>2, StoreTypes DEF Inv
<1>6. /\ phase' \in Phases /\ phase' = "done"
      /\ answer' \in [result : Result, err : Err]
  <2>1. \/ phase' = "done" /\ UNCHANGED answer
        \/ Answer(NoResult, {"fail"})
    BY DEF WriteStatus
  <2> QED  BY <2>1, NoErr, NothingType, AnswerTypes DEF Inv, HostTypes, Phases
<1> QED  BY <1>1, <1>2, <1>3, <1>5, <1>6 DEF Inv, HostTypes, StackIdle, GoalSent

LEMMA GoalType ==
  ASSUME Inv
  PROVE  Goal \in Wants /\ (Goal # NoObject => Goal \in Objects)
<1>1. want \in Wants /\ res \in Objects  BY Constants DEF Inv, FlowTypes
<1> QED  BY <1>1 DEF Goal, Wants

LEMMA DesireInv ==
  ASSUME Inv, NEW o \in Fates, Desire(o)
  PROVE  Inv'
<1>1. /\ phase = "desire" /\ stack = <<>>
      /\ UNCHANGED <<flowVars, conf, stored, want, memo, queued, read, said>>
  BY DEF Desire, Inv, StackIdle
<1>2. FlowTypes' /\ UNCHANGED stack  BY <1>1, FlowUnchanged DEF Inv
<1>3. env' \in [Disturbances -> Nat]  BY FateTypes DEF Desire, Inv
<1>4. answer.result \in Result  BY DEF Inv, HostTypes
<1>5. /\ phase' \in Phases /\ answer' \in [result : Result, err : Err] /\ call' \in Sending
      /\ GoalSent'
  <2>1. CASE UNCHANGED call /\ (Answer(NoResult, {"fail"}) \/ Answer(answer.result, {}))
    BY <1>4, <2>1, NoErr, NothingType, AnswerTypes DEF Inv, HostTypes, GoalSent
  <2>2. CASE /\ NextCall # "none" /\ phase' = "send" /\ UNCHANGED answer
             /\ call' = [verb |-> NextCall, goal |-> Goal,
                         body |-> CASE NextCall = "delete" -> Blank
                                    [] NextCall = "create" -> Goal
                                    [] NextCall = "update" -> Patched(Goal)]
    <3>1. NextCall \in {"delete", "update", "create"}  BY <2>2 DEF NextCall
    <3>2. NextCall # "delete" => Goal \in Objects  BY <2>2, GoalType DEF NextCall
    <3>3. NextCall # "delete" => Patched(Goal) \in Objects  BY <3>2, PatchedType DEF Inv
    <3>4. call'.body \in Objects  BY <2>2, <3>1, <3>2, <3>3, Constants DEF Inv
    <3>5. call' = [verb |-> NextCall, goal |-> Goal, body |-> call'.body]  BY <2>2
    <3>6. call' \in Sending  BY <3>1, <3>4, <3>5, GoalType DEF Sending, Verbs
    <3>7. GoalSent'  BY <2>2, <3>2 DEF GoalSent
    <3> QED  BY <2>2, <3>6, <3>7 DEF Phases, Inv, HostTypes
  <2> QED  BY <2>1, <2>2 DEF Desire
<1> QED  BY <1>1, <1>2, <1>3, <1>5 DEF Inv, HostTypes, StackIdle, ReadCurrent, GoalSent

LEMMA SendDeleteInv ==
  ASSUME Inv, NEW o \in Fates, SendDelete(o)
  PROVE  Inv'
<1>1. phase = "send" /\ stack = <<>> /\ UNCHANGED <<flowVars, conf, want, call, said>>
  BY DEF SendDelete, Inv, StackIdle
<1>2. FlowTypes' /\ UNCHANGED stack  BY <1>1, FlowUnchanged DEF Inv
<1>3. env' \in [Disturbances -> Nat]  BY FateTypes DEF SendDelete, Inv
<1>4. (IF stored.held THEN [stored EXCEPT !.deleting = TRUE] ELSE Gone) \in Stored
  BY ConstantTypes DEF Inv, HostTypes, Stored
<1>5. /\ stored' \in Stored /\ memo' \in Memo /\ read' \in Read /\ queued' \in BOOLEAN
      /\ ReadCurrent'
  <2>1. \/ Store(IF stored.held THEN [stored EXCEPT !.deleting = TRUE] ELSE Gone)
        \/ UNCHANGED <<stored, memo, read, queued>>
    BY DEF SendDelete
  <2>2. CASE UNCHANGED <<stored, memo, read, queued>>
    BY <1>1, <2>2 DEF Inv, HostTypes, ReadCurrent
  <2> QED  BY <1>1, <1>4, <2>1, <2>2, StoreTypes DEF Inv
<1>6. phase' \in Phases /\ answer' \in [result : Result, err : Err]
  <2>1. answer.result \in Result  BY DEF Inv, HostTypes
  <2>2. Answer(answer.result, {}) \/ Answer(NoResult, {"fail"})  BY DEF SendDelete
  <2> QED  BY <2>1, <2>2, NoErr, NothingType, AnswerTypes
<1> QED  BY <1>1, <1>2, <1>3, <1>5, <1>6 DEF Inv, HostTypes, StackIdle, GoalSent

LEMMA UnsupportedInv ==
  ASSUME Inv, Unsupported
  PROVE  Inv'
<1>1. /\ phase = "send" /\ stack = <<>> /\ Answer(NoResult, {"fail"})
      /\ UNCHANGED <<flowVars, conf, stored, want, memo, env, queued, read, call, said>>
  BY DEF Unsupported, Inv, StackIdle
<1>2. FlowTypes' /\ UNCHANGED stack  BY <1>1, FlowUnchanged DEF Inv
<1>3. phase' \in Phases /\ answer' \in [result : Result, err : Err]
  BY <1>1, NoErr, NothingType, AnswerTypes
<1> QED  BY <1>1, <1>2, <1>3 DEF Inv, HostTypes, StackIdle, ReadCurrent, GoalSent

LEMMA SendInv ==
  ASSUME Inv, Send
  PROVE  Inv'
<1>1. /\ phase' = "hook" /\ StartFlow(conf.hook, Defaulted[call.body], FALSE)
      /\ UNCHANGED <<conf, stored, want, memo, env, queued, read, call, answer, said>>
  BY DEF Send
<1>2. conf.hook \in Programs /\ Defaulted[call.body] \in Objects
  BY Constants DEF Inv, HostTypes, Sending
<1>3. FlowTypes'  BY <1>1, <1>2, StartFlowTypes
<1> QED  BY <1>1, <1>3 DEF Inv, HostTypes, StackIdle, ReadCurrent, GoalSent, Phases

LEMMA WriteInv ==
  ASSUME Inv, NEW o \in Fates, Write(o)
  PROVE  Inv'
<1> DEFINE new == IF call.verb = "create"
                    THEN [there |-> TRUE, deleting |-> FALSE, held |-> FALSE, body |-> Admitted]
                    ELSE [stored EXCEPT !.body = Admitted]
<1>1. phase = "hook" /\ stack = <<>> /\ UNCHANGED <<flowVars, conf, want, call, said>>
  BY DEF Write
<1>2. FlowTypes' /\ UNCHANGED stack  BY <1>1, FlowUnchanged DEF Inv
<1>3. env' \in [Disturbances -> Nat]  BY FateTypes DEF Write, Inv
<1>4. Admitted \in Objects  BY DEF Admitted, Mutated, Inv, FlowTypes, HostTypes, Sending
<1>5. new \in Stored  BY <1>4 DEF Inv, HostTypes, Stored
<1>6. /\ stored' \in Stored /\ memo' \in Memo /\ read' \in Read /\ queued' \in BOOLEAN
      /\ ReadCurrent'
  <2>1. CASE UNCHANGED <<stored, memo, read, queued>>
    BY <1>1, <2>1 DEF Inv, HostTypes, ReadCurrent
  <2>2. CASE /\ stored' = new
             /\ read' = [read EXCEPT !.current = read.current /\ new = stored]
             /\ queued' = (queued \/ new # stored)
             /\ memo' = memo \/ (memo' = Capture /\ call.goal \in Objects)
    <3>1. read' \in Read /\ read'.body = read.body
          /\ (read'.current => read.current /\ new = stored)
      BY <2>2 DEF Inv, HostTypes, Read
    <3>2. memo' \in Memo
      <4>1. CASE memo' = memo  BY <4>1 DEF Inv, HostTypes
      <4>2. CASE memo' = Capture /\ call.goal \in Objects
        BY <1>4, <4>2 DEF Capture, Memo, Wants
      <4> QED  BY <2>2, <4>1, <4>2
    <3> QED  BY <1>1, <1>5, <2>2, <3>1, <3>2 DEF Inv, HostTypes, ReadCurrent
  <2> QED  BY <2>1, <2>2 DEF Write, Inv, GoalSent
<1>7. phase' \in Phases /\ answer' \in [result : Result, err : Err]
  <2>1. answer.result \in Result  BY DEF Inv, HostTypes
  <2>2. Answer(answer.result, {}) \/ Answer(NoResult, {"fail"})  BY DEF Write
  <2> QED  BY <2>1, <2>2, NoErr, NothingType, AnswerTypes
<1> QED  BY <1>1, <1>2, <1>3, <1>6, <1>7 DEF Inv, HostTypes, StackIdle, GoalSent

LEMMA BlankedTypes ==
  ASSUME Inv, Blanked, UNCHANGED conf
  PROVE  /\ FlowTypes' /\ stack' = <<>> /\ read' \in Read /\ ~read'.current
         /\ call' \in Sending /\ GoalSent'
         /\ answer' \in [result : Result, err : Err] /\ said' \in Story
<1>1. /\ stack' = <<>> /\ ret' = Nothing /\ res' = Blank /\ story' = NoStory
      /\ deleting' = FALSE /\ prog' = conf.tree
      /\ read' = NothingRead /\ call' = NoCall /\ answer' = Nothing /\ said' = NoStory
  BY DEF Blanked
<1>2. FlowTypes'  BY <1>1, Constants, ConstantTypes, NothingType, EmptySeq DEF Inv, FlowTypes
<1> QED  BY <1>1, <1>2, ConstantTypes, NothingType DEF NothingRead, NoCall, GoalSent

LEMMA ForgetInv ==
  ASSUME Inv, Forget
  PROVE  Inv'
<1>1. /\ phase' = "idle" /\ queued' = (queued \/ Requeued) /\ Blanked
      /\ UNCHANGED <<conf, stored, want, memo, env>>
  BY DEF Forget
<1> QED  BY <1>1, BlankedTypes DEF Inv, HostTypes, StackIdle, ReadCurrent, Phases

LEMMA RestartInv ==
  ASSUME Inv, Restart
  PROVE  Inv'
<1>1. /\ phase' = "idle" /\ queued' = TRUE /\ memo' = NoMemo /\ Blanked
      /\ UNCHANGED <<conf, stored, want>>
  BY DEF Restart
<1>2. env' \in [Disturbances -> Nat]
  BY SpendTypes DEF Restart, Inv, Disturbances
<1> QED  BY <1>1, <1>2, BlankedTypes, ConstantTypes
         DEF Inv, HostTypes, StackIdle, ReadCurrent, Phases

\* Another client's write of the object.
LEMMA StoredByOthers ==
  ASSUME Inv, NEW new \in Stored, Store(new), env' \in [Disturbances -> Nat],
         UNCHANGED <<flowVars, conf, want, phase, call, answer, said>>
  PROVE  Inv'
<1>1. FlowTypes' /\ UNCHANGED stack  BY FlowUnchanged DEF Inv
<1>2. /\ stored' \in Stored /\ memo' \in Memo /\ read' \in Read /\ queued' \in BOOLEAN
      /\ ReadCurrent'
  BY StoreTypes DEF Inv
<1> QED  BY <1>1, <1>2 DEF Inv, HostTypes, StackIdle, GoalSent

LEMMA EditInv ==
  ASSUME Inv, Edit
  PROVE  Inv'
<1>1. PICK obj \in Objects :
        \E body \in IF conf.host = "resource" THEN {obj} ELSE Admission(obj) :
          Store([stored EXCEPT !.body = body])
  BY DEF Edit
<1>2. PICK body \in IF conf.host = "resource" THEN {obj} ELSE Admission(obj) :
        Store([stored EXCEPT !.body = body])
  BY <1>1
<1>3. body \in Objects
  <2>1. CASE conf.host = "resource"  BY <1>2, <2>1
  <2>2. CASE conf.host # "resource"
    <3>1. Tree[conf.hook] \in Seq(Node) /\ Tree[conf.hook] # <<>>
      BY Constants, ProgramAssumption DEF Inv
    <3>2. Tree[conf.hook][1] \in Node  BY <3>1, EmptySeq, LenProperties
    <3>3. Defaulted[obj] \in Objects  BY <1>1, Constants DEF Inv
    <3>4. Tree[conf.hook][1].does[Defaulted[obj]] \in SUBSET Outcome  BY <3>2, <3>3 DEF Node
    <3>5. PICK p \in Tree[conf.hook][1].does[Defaulted[obj]] : body = Mutated(obj, p.obj)
      BY <1>2, <2>2 DEF Admission, AdmissionBy
    <3>6. p \in Outcome  BY <3>4, <3>5
    <3> QED  BY <3>5, <3>6 DEF Outcome, Mutated
  <2> QED  BY <2>1, <2>2
<1>4. [stored EXCEPT !.body = body] \in Stored  BY <1>3 DEF Inv, HostTypes, Stored
<1>5. env' \in [Disturbances -> Nat]  BY SpendTypes DEF Edit, Inv, Disturbances
<1> QED  BY <1>2, <1>4, <1>5, StoredByOthers DEF Edit

LEMMA OthersInv ==
  ASSUME Inv, Others
  PROVE  Inv'
<1>1. CASE ChangeWant
  <2>1. FlowTypes' /\ UNCHANGED stack  BY <1>1, FlowUnchanged DEF Inv, ChangeWant
  <2>2. env' \in [Disturbances -> Nat]  BY <1>1, SpendTypes DEF ChangeWant, Inv, Disturbances
  <2>3. want' \in conf.wants /\ queued' = TRUE /\ UNCHANGED <<conf, stored, memo, requestVars>>
    BY <1>1 DEF ChangeWant
  <2> QED  BY <2>1, <2>2, <2>3 DEF Inv, HostTypes, StackIdle, ReadCurrent, GoalSent, requestVars
<1>2. CASE Edit  BY <1>2, EditInv
<1>3. CASE Delete
  <2>1. [stored EXCEPT !.deleting = TRUE] \in Stored  BY DEF Inv, HostTypes, Stored
  <2>2. env' \in [Disturbances -> Nat]  BY <1>3, SpendTypes DEF Delete, Inv, Disturbances
  <2> QED  BY <1>3, <2>1, <2>2, StoredByOthers DEF Delete
<1>4. CASE Release
  <2>1. [stored EXCEPT !.held = FALSE] \in Stored  BY DEF Inv, HostTypes, Stored
  <2> QED  BY <1>4, <2>1, StoredByOthers DEF Release, Inv, HostTypes
<1>5. CASE Vanish
  BY <1>5, ConstantTypes, StoredByOthers DEF Vanish, Inv, HostTypes
<1>6. CASE Expire
  <2>1. FlowTypes' /\ UNCHANGED stack  BY <1>6, FlowUnchanged DEF Inv, Expire
  <2>2. env' \in [Disturbances -> Nat]  BY <1>6, SpendTypes DEF Expire, Inv, Disturbances
  <2>3. memo' = NoMemo /\ UNCHANGED <<conf, stored, want, queued, requestVars>>
    BY <1>6 DEF Expire
  <2> QED  BY <2>1, <2>2, <2>3, ConstantTypes
           DEF Inv, HostTypes, StackIdle, ReadCurrent, GoalSent, requestVars
<1>7. CASE Restart  BY <1>7, RestartInv
<1> QED  BY <1>1, <1>2, <1>3, <1>4, <1>5, <1>6, <1>7 DEF Others

LEMMA InitInv ==
  ASSUME Init
  PROVE  Inv
<1>1. conf \in Configurations /\ want \in conf.wants /\ stack = <<>> /\ prog = conf.tree
  BY DEF Init
<1>2. conf \in Configuration /\ conf.tree \in Programs /\ Blank \in Objects
      /\ conf.budget \in [Disturbances -> Nat]
  BY <1>1, RequestsAssumption, ObjectAssumption DEF Configuration
<1>3. FlowTypes  BY <1>1, <1>2, EmptySeq, NothingType, ConstantTypes DEF Init, FlowTypes
<1>4. stored \in Stored  BY <1>2, ConstantTypes DEF Init, Stored
<1>5. HostTypes
  BY <1>1, <1>2, <1>4, ConstantTypes, NothingType DEF Init, HostTypes, Phases
<1> QED  BY <1>1, <1>3, <1>5
         DEF Init, Inv, StackIdle, ReadCurrent, GoalSent, NothingRead, NoCall

LEMMA NextInv ==
  ASSUME Inv, Next
  PROVE  Inv'
BY SetupInv, BeginInv, StepInv, EndTreeInv, WriteStatusInv, DesireInv, SendDeleteInv,
   UnsupportedInv, SendInv, WriteInv, ForgetInv, OthersInv DEF Next, Worker

LEMMA StutterInv ==
  ASSUME Inv, UNCHANGED vars
  PROVE  Inv'
<1>1. UNCHANGED flowVars /\ UNCHANGED <<conf, stored, want, memo, env, queued, requestVars>>
  BY DEF vars
<1>2. FlowTypes' /\ UNCHANGED stack  BY <1>1, FlowUnchanged DEF Inv
<1> QED  BY <1>1, <1>2 DEF Inv, HostTypes, StackIdle, ReadCurrent, GoalSent, requestVars

\* The inductive invariant: the calls in progress lie in the tree that is run, only
\* while it runs, and what was read is what is stored until somebody writes.
THEOREM RequestsInvariant == Spec => []Inv
<1>1. Init => Inv  BY InitInv
<1>2. Inv /\ [Next]_vars => Inv'  BY NextInv, StutterInv
<1> QED  BY <1>1, <1>2, PTL DEF Spec

\* Requests, results and what is stored keep their types, whatever tree is run.
THEOREM RequestsTypeCorrect == Spec => []RequestsTypeOK
BY RequestsInvariant, InvTypes, PTL

-----------------------------------------------------------------------------
(* Writing a status undoes nobody else's work. *)

LEMMA StatusStep ==
  ASSUME Next, phase = "status", phase' = "done"
  PROVE  \E o \in Fates : WriteStatus(o)
BY DEF Next, Worker, Others, Setup, Step, EndTree, Unsupported, Send, Forget, Begin, Desire,
       SendDelete, Write, ChangeWant, Edit, Delete, Release, Vanish, Expire, Restart,
       requestVars

\* The status written by a request leaves alone what the request did not touch, for
\* every tree, with the patch of a duck type as with an update.
THEOREM OthersAreKept == Spec => OthersKept
<1> DEFINE P == phase = "status" /\ phase' = "done" =>
                  \A k \in Keys : stored'.body[k] # stored.body[k] => res[k] # read.body[k]
<1>1. ASSUME Inv, Next PROVE P
  <2> SUFFICES ASSUME phase = "status", phase' = "done", NEW k \in Keys,
                      stored'.body[k] # stored.body[k]
               PROVE  res[k] # read.body[k]
    OBVIOUS
  <2>1. PICK o \in Fates : WriteStatus(o)  BY <1>1, StatusStep
  <2>2. stored' = [stored EXCEPT !.body = Merged] /\ (StatusVerb = "patch" \/ read.current)
    BY <2>1 DEF WriteStatus, Store
  <2>3. stored'.body = Merged  BY <1>1, <2>2 DEF Inv, HostTypes, Stored
  <2>4. CASE StatusVerb = "patch"
    <3>1. Merged[k] = IF res[k] # read.body[k] THEN res[k] ELSE stored.body[k]
      BY <2>4 DEF Merged, Applied
    <3> QED  BY <2>3, <3>1
  <2>5. CASE StatusVerb # "patch"
    <3>1. Merged = res /\ read.body = Seen(conf.fields, stored.body)
      BY <1>1, <2>2, <2>5 DEF Merged, Inv, ReadCurrent
    <3>2. conf.fields = Keys
      BY <1>1, <2>5, RequestsAssumption DEF StatusVerb, Inv, HostTypes
    <3>3. read.body[k] = stored.body[k]  BY <3>1, <3>2 DEF Seen
    <3> QED  BY <2>3, <3>1, <3>3
  <2> QED  BY <2>4, <2>5
<1>2. ASSUME UNCHANGED vars PROVE P
  BY <1>2 DEF vars, requestVars
<1>3. Inv /\ [Next]_vars => [P]_vars  BY <1>1, <1>2
<1> QED  BY <1>3, RequestsInvariant, PTL DEF Spec, OthersKept

-----------------------------------------------------------------------------
(* Finally is always called. *)

FinallyKept ==
  \A i \in DOMAIN stack :
    LET node == Tree[prog][stack[i].node]
    IN  node.kind = "trycatch" /\ node.subs[2] # 0 /\ stack[i].at # 2 =>
          \/ i \in DOMAIN stack' /\ stack'[i].node = stack[i].node
          \/ story'.panicked
          \/ phase' = "idle"

\* The innermost call is replaced by one of the same node, unless it is no TryCatch
\* that has yet to call Finally.
LEMMA TopKept ==
  ASSUME FlowTypes, FlowStep, Reconciler.kind = "trycatch", Reconciler.subs[2] # 0, Top.at # 2
  PROVE  \/ story'.panicked
         \/ Len(stack) \in 1 .. Len(stack') /\ stack'[Len(stack)].node = Top.node
<1>1. stack # <<>>  BY DEF FlowStep
<1>2. Top \in Frame /\ Outer \in Seq(Frames(prog)) /\ Len(Outer) = Len(stack) - 1
      /\ Len(stack) \in Nat /\ Len(stack) > 0
  BY <1>1, Current, Popped, EmptySeq DEF FlowTypes
<1>3. ASSUME NEW f, NEW g, f.node = Top.node, stack' = Outer \o <<f, g>>
      PROVE  Len(stack) \in 1 .. Len(stack') /\ stack'[Len(stack)].node = Top.node
  <2> DEFINE T == Frames(prog) \cup {f, g}
  <2>1. Outer \in Seq(T)  BY <1>2, SeqMonotonic
  <2>2. <<f, g>> \in Seq(T) /\ Len(<<f, g>>) = 2 /\ <<f, g>>[1] = f  OBVIOUS
  <2> HIDE DEF T
  <2>3. /\ Len(Outer \o <<f, g>>) = Len(Outer) + 2
        /\ (Outer \o <<f, g>>)[Len(Outer) + 1] = <<f, g>>[1]
    BY <1>2, <2>1, <2>2, ConcatProperties
  <2> QED  BY <1>2, <1>3, <2>2, <2>3
<1>4. ASSUME NEW result, NEW err, Leave(result, err)
      PROVE  Len(stack) \in 1 .. Len(stack') /\ stack'[Len(stack)].node = Top.node
  <2>1. [Top EXCEPT !.at = 2, !.acc = result, !.err = err].node = Top.node  BY <1>2 DEF Frame
  <2> QED  BY <1>3, <1>4, <2>1 DEF Leave
<1>5. CASE Try
  <2>1. [Top EXCEPT !.at = 1].node = Top.node  BY <1>2 DEF Frame
  <2>2. Panic \/ stack' = Outer \o <<[Top EXCEPT !.at = 1], NewFrame(Reconciler.subs[1])>>
    BY <1>5 DEF Try, Call, CallWith
  <2>3. CASE Panic  BY <2>3 DEF Panic, FlowTypes, Story
  <2> QED  BY <1>3, <2>1, <2>2, <2>3
<1>6. CASE Propagate \/ \E o \in Reconciler.does[res] : Catch(o)
  BY <1>4, <1>6 DEF Propagate, Catch
<1> QED
  BY <1>5, <1>6 DEF FlowStep, Sequence, IfThen, While, Finally, OverrideSetup, WithConfig,
                    Cast, CastBack, Sync, Finalize

\* Whatever Try and Catch return, at any depth of any tree, a TryCatch stays on the
\* stack until it has called Finally (unless the process dies or a nil is called).
THEOREM FinallyIsCalled == Spec => FinallyCalled
<1>1. ASSUME Inv, Next PROVE FinallyKept
  <2>1. CASE UNCHANGED stack  BY <2>1 DEF FinallyKept
  <2>2. CASE phase' = "idle"  BY <2>2 DEF FinallyKept
  <2>3. CASE stack = <<>>  BY <2>3, EmptySeq DEF FinallyKept
  <2>4. CASE Step
    <3>1. FlowTypes /\ FlowStep /\ stack # <<>>  BY <1>1, <2>4 DEF Inv, Step, FlowStep
    <3>2. Len(stack) \in Nat /\ DOMAIN stack = 1 .. Len(stack)
      BY <3>1, LenProperties DEF FlowTypes
    <3>3. /\ stack' \in Seq(Frames(prog))
          /\ story'.panicked \/ \A i \in 1 .. Len(stack) - 1 :
                                  i \in 1 .. Len(stack') /\ stack'[i] = stack[i]
      BY <3>1, FlowStepTypes, ShapeTypes DEF StepTypes, FlowTypes
    <3>4. DOMAIN stack' = 1 .. Len(stack')  BY <3>3, LenProperties
    <3> SUFFICES ASSUME NEW i \in DOMAIN stack, ~story'.panicked,
                        Tree[prog][stack[i].node].kind = "trycatch",
                        Tree[prog][stack[i].node].subs[2] # 0, stack[i].at # 2
                 PROVE  i \in DOMAIN stack' /\ stack'[i].node = stack[i].node
      BY DEF FinallyKept
    <3>5. CASE i = Len(stack)  BY <3>1, <3>4, <3>5, TopKept DEF Top, Reconciler
    <3>6. CASE i # Len(stack)  BY <3>2, <3>3, <3>4, <3>6
    <3> QED  BY <3>5, <3>6
  <2> QED
    BY <1>1, <2>1, <2>2, <2>3, <2>4
       DEF Next, Worker, Others, Setup, Begin, EndTree, WriteStatus, Desire, SendDelete,
           Unsupported, Send, Write, Forget, ChangeWant, Edit, Delete, Release, Vanish,
           Expire, Restart, flowVars, Inv, StackIdle
<1>2. ASSUME UNCHANGED vars PROVE FinallyKept
  BY <1>2 DEF vars, flowVars, FinallyKept
<1>3. Inv /\ [Next]_vars => [FinallyKept]_vars  BY <1>1, <1>2
<1> QED  BY <1>3, RequestsInvariant, PTL DEF Spec, FinallyCalled, FinallyKept

-----------------------------------------------------------------------------
(* The calls in progress. *)

NodeOf(f) == Tree[prog][f.node]

\* It has made a call that has yet to return, or may have.
Waiting(f) == \/ NodeOf(f).kind \in {"sequence", "while"}
              \/ NodeOf(f).kind \in {"trycatch", "cast"} /\ f.at # 0

\* A struct was made for the call.
Casting(f) == NodeOf(f).kind = "cast" /\ f.at # 0

\* Where a call keeps what others returned.
FrameOK(f) ==
  /\ f.err # {} => NodeOf(f).kind = "trycatch" /\ f.at = 2
  /\ f.acc # NoResult => \/ NodeOf(f).kind \in {"sequence", "while"}
                         \/ NodeOf(f).kind = "trycatch" /\ f.at = 2
                         \/ NodeOf(f).kind = "sync" /\ f.at = 1
  /\ Casting(f) => f.at = 1 /\ ~NodeOf(f).flag /\ NodeOf(f).subs[1] \in DOMAIN Tree[prog]

\* What is returned is returned to a call that waits for it.
CallsOK == /\ \A f \in Range(stack) : FrameOK(f)
           /\ stack # <<>> => \A f \in Range(Outer) : Waiting(f)
           /\ stack # <<>> /\ ret # Nothing => Waiting(Top)

-----------------------------------------------------------------------------
(* Errors and results on their way up. *)

\* An error is returned by a call, or kept by a TryCatch, and by nobody else.
ErrorsKnown == ret.err \subseteq story.raised /\ \A f \in Range(stack) : f.err \subseteq story.raised

Loud(s) == s.raised # {} /\ "halt" \notin s.raised /\ ~s.caught /\ ~s.panicked
ErrorsKept == Loud(story) => ret.err # {} \/ \E f \in Range(stack) : f.err # {}

\* These wishes amount to what was asked for.
Told(asked, wishes) ==
  /\ (\E a \in asked : a.requeue) <=> (\E w \in wishes : w.requeue)
  /\ \A w \in wishes : w.after # 0 => \E a \in asked : a.after = w.after
  /\ \A a \in asked : a.after # 0 => \E w \in wishes : w.after # 0 /\ w.after <= a.after

Wishes == {f.acc : f \in Range(stack)} \cup {ret.result}
Quiet(s) == s.raised = {} /\ ~s.caught /\ ~s.panicked
WishesKept == Quiet(story) => Told(story.asked, Wishes)

FlowInv == CallsOK /\ ErrorsKnown /\ ErrorsKept /\ WishesKept

-----------------------------------------------------------------------------
(* Changes of the resource on their way up. *)

\* The fields of the type that what a call calls is about.
TypeOf(f) == IF Casting(f) THEN Tree[prog][NodeOf(f).subs[1]].fields ELSE NodeOf(f).fields
RootType == Tree[prog][1].fields
TypeAt(s) == IF s = <<>> THEN RootType ELSE TypeOf(s[Len(s)])
Level == TypeAt(stack)

\* Each call is about the type that the one around it hands down.
Chain(s) ==
  /\ \A i \in 1 .. Len(s) :
       NodeOf(s[i]).fields = IF i = 1 THEN RootType ELSE TypeOf(s[i - 1])
  /\ \A i, j \in 1 .. Len(s) : i <= j => TypeOf(s[j]) \subseteq TypeOf(s[i])
  /\ \A i \in 1 .. Len(s) : TypeOf(s[i]) \subseteq RootType

\* What a cast saved for the time of its call.
SavedOK(f) == Casting(f) => HasType(f.saved, NodeOf(f).fields)
SavedKept(f) == Casting(f) => \A k \in NodeOf(f).fields \ TypeOf(f) : f.saved[k] = story.written[k]

ObjectsTyped == /\ HasType(res, Level) /\ HasType(story.written, RootType)
                /\ \A f \in Range(stack) : SavedOK(f)

\* Every field has its value where its type is at hand: in the copy, or saved.
FieldsKept == "patch" \notin story.raised => /\ \A k \in Level : res[k] = story.written[k]
                                             /\ \A f \in Range(stack) : SavedKept(f)

ObjectInv == story.panicked \/ (Chain(stack) /\ ObjectsTyped /\ FieldsKept)

-----------------------------------------------------------------------------
(* Nodes that are safe to call. *)

Safe(p, nodes) ==
  /\ 1 \in nodes /\ nodes \subseteq DOMAIN Tree[p]
  /\ \A n \in nodes :
       /\ SetupNode(Tree[p][n]).valid /\ Given(Tree[p][n]) \subseteq nodes
       /\ Tree[p][n].kind = "sync" => \A obj \in Objects : Tree[p][n].does[obj] # {}

SafeNodes(p) == CHOOSE nodes : Safe(p, nodes)

Steady == AuthorsPart(conf.tree) /\ phase = "run" =>
  /\ prog = conf.tree /\ ~story.panicked
  /\ \A f \in Range(stack) : f.node \in SafeNodes(conf.tree)

-----------------------------------------------------------------------------
(* The hosts. *)

Ended == {"status", "desire", "send", "hook", "done"}

Fresh == phase \in {"new", "idle"} => said = NoStory /\ res = Blank

HostPhases == conf.host = "resource" => phase \notin {"desire", "send", "hook"}

AnswerKept ==
  /\ phase \in {"desire", "send", "hook"} => answer.err = {}
  /\ phase \in Ended /\ answer.err = {} /\ said.raised = {} /\ ~said.caught =>
       Told(said.asked, {answer.result})
  /\ phase \in Ended /\ said.raised # {} /\ "halt" \notin said.raised /\ ~said.caught =>
       answer.err # {}

SetUp == phase \notin {"new", "refused"} => SetupSucceeds(conf.tree)

-----------------------------------------------------------------------------
(* Stacks. *)

LEMMA Pushed ==
  ASSUME NEW S, NEW s \in Seq(S), NEW f \in S
  PROVE  LET t == Append(s, f)
         IN  /\ t \in Seq(S) /\ t # <<>> /\ Len(t) = Len(s) + 1 /\ Len(s) \in Nat
             /\ t[Len(t)] = f /\ \A i \in 1 .. Len(s) : t[i] = s[i]
             /\ SubSeq(t, 1, Len(t) - 1) = s
             /\ Range(t) = Range(s) \cup {f}
<1> DEFINE t == Append(s, f)
<1>1. /\ t \in Seq(S) /\ t # <<>> /\ Len(t) = Len(s) + 1
      /\ \A i \in 1 .. Len(s) : t[i] = s[i]
      /\ t[Len(s) + 1] = f
  BY AppendProperties
<1>2. Len(s) \in Nat  BY LenProperties
<1>3. SubSeq(t, 1, Len(s)) = s
  <2>1. \A i \in 1 .. Len(s) : t[i] \in S  BY <1>1, <1>2, ElementOfSeq
  <2>2. /\ SubSeq(t, 1, Len(s)) \in Seq(S)
        /\ Len(SubSeq(t, 1, Len(s))) = IF 1 <= Len(s) THEN Len(s) - 1 + 1 ELSE 0
        /\ \A i \in 1 .. Len(s) - 1 + 1 : SubSeq(t, 1, Len(s))[i] = t[1 + i - 1]
    BY <1>2, <2>1, SubSeqProperties
  <2>3. Len(SubSeq(t, 1, Len(s))) = Len(s)  BY <1>2, <2>2
  <2>4. \A i \in 1 .. Len(SubSeq(t, 1, Len(s))) : SubSeq(t, 1, Len(s))[i] = s[i]
    BY <1>1, <1>2, <2>2, <2>3
  <2> QED  BY <2>2, <2>3, <2>4, SeqEqual
<1>4. Range(t) = Range(s) \cup {f}
  <2>1. Range(t) = {t[i] : i \in 1 .. Len(t)} /\ Range(s) = {s[i] : i \in 1 .. Len(s)}
    BY <1>1, RangeEquality
  <2> QED  BY <1>1, <1>2, <2>1
<1> QED  BY <1>1, <1>2, <1>3, <1>4

LEMMA Parts ==
  ASSUME NEW S, NEW s \in Seq(S), s # <<>>
  PROVE  /\ SubSeq(s, 1, Len(s) - 1) \in Seq(S) /\ s[Len(s)] \in S
         /\ Len(s) \in Nat \ {0} /\ Len(SubSeq(s, 1, Len(s) - 1)) = Len(s) - 1
         /\ s = Append(SubSeq(s, 1, Len(s) - 1), s[Len(s)])
         /\ Range(s) = Range(SubSeq(s, 1, Len(s) - 1)) \cup {s[Len(s)]}
<1>1. PICK t \in Seq(S), f \in S : s = Append(t, f)  BY SequenceEmptyOrAppend
<1>2. /\ Len(s) = Len(t) + 1 /\ Len(t) \in Nat /\ s[Len(s)] = f
      /\ SubSeq(s, 1, Len(s) - 1) = t /\ Range(s) = Range(t) \cup {f}
  BY <1>1, Pushed
<1>3. Len(s) \in Nat \ {0} /\ Len(t) = Len(s) - 1  BY <1>2
<1> QED  BY <1>1, <1>2, <1>3, Zenon

\* A stack is what is around the innermost call, and that call.
LEMMA Split ==
  ASSUME FlowTypes, stack # <<>>
  PROVE  /\ Outer \in Seq(Frames(prog)) /\ Top \in Frames(prog) /\ stack = Append(Outer, Top)
         /\ Len(stack) \in Nat \ {0} /\ Len(Outer) = Len(stack) - 1
         /\ Range(stack) = Range(Outer) \cup {Top}
         /\ Range(Outer) \subseteq Frames(prog) /\ Range(stack) \subseteq Frames(prog)
<1>1. stack \in Seq(Frames(prog))  BY DEF FlowTypes
<1> QED  BY <1>1, Parts, RangeOfSeq DEF Outer, Top

\* The innermost call makes another one.
LEMMA PushedTwice ==
  ASSUME NEW S, NEW s \in Seq(S), NEW f \in S, NEW g \in S
  PROVE  LET t == s \o <<f, g>>
         IN  /\ t = Append(Append(s, f), g) /\ t \in Seq(S)
             /\ t # <<>> /\ Len(t) = Len(s) + 2 /\ Len(s) \in Nat
             /\ t[Len(t)] = g /\ t[Len(s) + 1] = f /\ \A i \in 1 .. Len(s) : t[i] = s[i]
             /\ SubSeq(t, 1, Len(t) - 1) = Append(s, f)
             /\ Range(t) = Range(s) \cup {f, g} /\ Range(Append(s, f)) = Range(s) \cup {f}
<1> DEFINE u == Append(s, f)
           v == Append(u, g)
           t == s \o <<f, g>>
<1>1. /\ u \in Seq(S) /\ u # <<>> /\ Len(u) = Len(s) + 1 /\ Len(s) \in Nat
      /\ u[Len(s) + 1] = f /\ \A i \in 1 .. Len(s) : u[i] = s[i]
      /\ Range(u) = Range(s) \cup {f}
  BY Pushed
<1>2. t = v
  <2>1. <<f, g>> \in Seq(S) /\ Len(<<f, g>>) = 2 /\ <<f, g>>[1] = f /\ <<f, g>>[2] = g  OBVIOUS
  <2>2. /\ t \in Seq(S) /\ Len(t) = Len(s) + 2
        /\ \A i \in 1 .. Len(s) + 2 : t[i] = IF i <= Len(s) THEN s[i] ELSE <<f, g>>[i - Len(s)]
    BY <2>1, ConcatProperties
  <2> HIDE DEF u, t
  <2>3. /\ v \in Seq(S) /\ Len(v) = Len(u) + 1
        /\ v[Len(u) + 1] = g /\ \A i \in 1 .. Len(u) : v[i] = u[i]
    BY <1>1, AppendProperties
  <2> HIDE DEF v
  <2>4. ASSUME NEW i \in 1 .. Len(t) PROVE t[i] = v[i]
    <3>1. CASE i <= Len(s)  BY <1>1, <2>2, <2>3, <3>1
    <3>2. CASE i = Len(s) + 1
      <4>1. t[i] = <<f, g>>[1]  BY <1>1, <2>2, <3>2
      <4>2. v[i] = u[i]  BY <1>1, <2>3, <3>2
      <4> QED  BY <1>1, <2>1, <3>2, <4>1, <4>2
    <3>3. CASE i = Len(s) + 2
      <4>1. t[i] = <<f, g>>[2]  BY <1>1, <2>2, <3>3
      <4>2. v[i] = g  BY <1>1, <2>3, <3>3
      <4> QED  BY <2>1, <4>1, <4>2
    <3> QED  BY <1>1, <2>2, <3>1, <3>2, <3>3
  <2>5. Len(t) = Len(v)  BY <1>1, <2>2, <2>3
  <2> QED  BY <2>2, <2>3, <2>4, <2>5, SeqEqual
<1> HIDE DEF u
<1>3. /\ v \in Seq(S) /\ v # <<>> /\ Len(v) = Len(u) + 1
      /\ v[Len(v)] = g /\ \A i \in 1 .. Len(u) : v[i] = u[i]
      /\ SubSeq(v, 1, Len(v) - 1) = u
      /\ Range(v) = Range(u) \cup {g}
  BY <1>1, Pushed
<1> HIDE DEF v
<1>4. v[Len(s) + 1] = f /\ \A i \in 1 .. Len(s) : v[i] = s[i]  BY <1>1, <1>3
<1>5. Len(v) = Len(s) + 2 /\ Range(v) = Range(s) \cup {f, g}  BY <1>1, <1>3
<1> QED  BY <1>1, <1>2, <1>3, <1>4, <1>5, Zenon DEF t, u, v

-----------------------------------------------------------------------------
(* Wishes. *)

\* Two wishes may be put together: the shorter of two requeue times is heard.
LEMMA ToldMerged ==
  ASSUME NEW asked \in SUBSET Result, NEW O \in SUBSET Result,
         NEW a \in Result, NEW b \in Result, Told(asked, O \cup {a, b})
  PROVE  Told(asked, O \cup {AggregateResults(a, b)})
<1> DEFINE r == AggregateResults(a, b)
<1>1. /\ r.requeue = (a.requeue \/ b.requeue)
      /\ r.after = 0 <=> a.after = 0 /\ b.after = 0
      /\ r.after \in {a.after, b.after}
      /\ a.after # 0 => r.after <= a.after
      /\ b.after # 0 => r.after <= b.after
      /\ r \in Result
  BY AggregateShortest, AggregateType
<1> HIDE DEF r
<1>2. (\E x \in asked : x.requeue) <=> (\E w \in O \cup {r} : w.requeue)
  BY <1>1 DEF Told
<1>3. ASSUME NEW w \in O \cup {r}, w.after # 0
      PROVE  \E x \in asked : x.after = w.after
  <2>1. CASE w \in O  BY <1>3, <2>1 DEF Told
  <2>2. CASE w = r /\ r.after = a.after  BY <1>3, <2>2 DEF Told
  <2>3. CASE w = r /\ r.after = b.after  BY <1>3, <2>3 DEF Told
  <2> QED  BY <1>1, <1>3, <2>1, <2>2, <2>3
<1>4. ASSUME NEW x \in asked, x.after # 0
      PROVE  \E w \in O \cup {r} : w.after # 0 /\ w.after <= x.after
  <2>1. PICK w \in O \cup {a, b} : w.after # 0 /\ w.after <= x.after  BY <1>4 DEF Told
  <2>2. CASE w \in O  BY <2>1, <2>2
  <2>3. CASE w \in {a, b}
    <3>1. r.after # 0 /\ r.after <= w.after  BY <1>1, <2>1, <2>3
    <3>2. r.after \in Nat /\ w.after \in Nat /\ x.after \in Nat  BY <1>1, <2>3 DEF Result
    <3> QED  BY <2>1, <3>1, <3>2
  <2> QED  BY <2>1, <2>2, <2>3
<1> QED  BY <1>2, <1>3, <1>4 DEF Told, r

\* No wish is no wish.
LEMMA ToldNothing ==
  ASSUME NEW asked, NEW O, NEW a
  PROVE  Told(asked, O \cup {a, NoResult}) <=> Told(asked, O \cup {a})
<1>1. ~NoResult.requeue /\ NoResult.after = 0  BY DEF NoResult
<1> QED  BY <1>1 DEF Told

\* A new wish is heard along with the earlier ones.
LEMMA ToldMore ==
  ASSUME NEW asked, NEW O, NEW r \in Result, Told(asked, O)
  PROVE  Told(asked \cup {r}, O \cup {r})
<1>1. r.after \in Nat  BY DEF Result
<1> QED  BY <1>1 DEF Told

-----------------------------------------------------------------------------
(* What a step does to the calls: the shapes. *)

LEMMA Constant ==
  ASSUME FlowTypes, UNCHANGED prog
  PROVE  /\ \A f : NodeOf(f)' = NodeOf(f) /\ (Waiting(f)' <=> Waiting(f)) /\ (FrameOK(f)' <=> FrameOK(f))
                   /\ (Casting(f)' <=> Casting(f)) /\ TypeOf(f)' = TypeOf(f)
         /\ Frames(prog)' = Frames(prog) /\ RootType' = RootType
BY DEF NodeOf, Waiting, FrameOK, Casting, TypeOf, Frames, RootType

LEMMA NewFrameOK ==
  ASSUME FlowTypes, NEW n \in DOMAIN Tree[prog]
  PROVE  NewFrame(n) \in Frames(prog) /\ FrameOK(NewFrame(n)) /\ ~Casting(NewFrame(n))
<1>1. NewFrame(n) \in Frames(prog)  BY NewFrameType
<1>2. NewFrame(n).at = 0 /\ NewFrame(n).acc = NoResult /\ NewFrame(n).err = {}  BY DEF NewFrame
<1> QED  BY <1>1, <1>2 DEF FrameOK, Casting

LEMMA NoCalls == Range(<<>>) = {}
<1>1. <<>> \in Seq({})  BY EmptySeq
<1>2. Range(<<>>) \in SUBSET {}  BY <1>1, RangeOfSeq
<1> QED  BY <1>2

LEMMA AfterReturn ==
  ASSUME FlowTypes, CallsOK, stack # <<>>, UNCHANGED prog, stack' = Outer
  PROVE  CallsOK' /\ Range(stack') = Range(Outer) \cup {}
<1>1. Outer \in Seq(Frames(prog)) /\ Range(stack) = Range(Outer) \cup {Top}  BY Split
<1>2. \A f \in Range(Outer) : FrameOK(f)' /\ Waiting(f)'  BY <1>1, Constant DEF CallsOK
<1>3. stack' # <<>> => Range(stack') = Range(Outer)' \cup {Top'}
  BY <1>1, Parts DEF Outer, Top
<1> QED  BY <1>2, <1>3 DEF CallsOK

\* The innermost call waits for another.
LEMMA AfterCall ==
  ASSUME FlowTypes, CallsOK, stack # <<>>, UNCHANGED prog,
         NEW f \in Frames(prog), FrameOK(f), Waiting(f), NEW n \in DOMAIN Tree[prog],
         stack' = Outer \o <<f, NewFrame(n)>>, ret' = Nothing
  PROVE  CallsOK' /\ Range(stack') = Range(Outer) \cup {f, NewFrame(n)}
<1>1. Outer \in Seq(Frames(prog)) /\ Range(stack) = Range(Outer) \cup {Top}  BY Split
<1>2. NewFrame(n) \in Frames(prog) /\ FrameOK(NewFrame(n))  BY NewFrameOK
<1>3. \A g \in Range(Outer) : FrameOK(g)' /\ Waiting(g)'  BY <1>1, Constant DEF CallsOK
<1>4. FrameOK(f)' /\ FrameOK(NewFrame(n))' /\ Waiting(f)'  BY <1>2, Constant
<1> DEFINE g == NewFrame(n)
<1> HIDE DEF g
<1>5. LET t == Outer \o <<f, g>>
      IN  /\ SubSeq(t, 1, Len(t) - 1) = Append(Outer, f)
          /\ Range(t) = Range(Outer) \cup {f, g} /\ Range(Append(Outer, f)) = Range(Outer) \cup {f}
  BY <1>1, <1>2, PushedTwice DEF g
<1>6. /\ Outer' = SubSeq(stack', 1, Len(stack') - 1) /\ stack' = Outer \o <<f, g>>
  BY DEF Outer, g
<1>7. /\ Range(Outer)' = Range(Outer) \cup {f}
      /\ Range(stack') = Range(Outer) \cup {f, NewFrame(n)}
  BY <1>5, <1>6 DEF g
<1> QED  BY <1>3, <1>4, <1>7 DEF CallsOK

\* The innermost call becomes another, or gets on without one.
LEMMA AfterBecome ==
  ASSUME FlowTypes, CallsOK, stack # <<>>, UNCHANGED prog, NEW f \in Frames(prog), FrameOK(f),
         stack' = Append(Outer, f), ret' = Nothing
  PROVE  CallsOK' /\ Range(stack') = Range(Outer) \cup {f}
<1>1. Outer \in Seq(Frames(prog)) /\ Range(stack) = Range(Outer) \cup {Top}  BY Split
<1>2. \A g \in Range(Outer) : FrameOK(g)' /\ Waiting(g)'  BY <1>1, Constant DEF CallsOK
<1>3. FrameOK(f)'  BY Constant
<1>4. LET t == Append(Outer, f)
      IN  SubSeq(t, 1, Len(t) - 1) = Outer /\ Range(t) = Range(Outer) \cup {f}
  BY <1>1, Pushed
<1>5. Outer' = SubSeq(stack', 1, Len(stack') - 1)  BY DEF Outer
<1>6. Outer' = Outer /\ Range(stack') = Range(Outer) \cup {f}  BY <1>4, <1>5
<1> QED  BY <1>2, <1>3, <1>6 DEF CallsOK

-----------------------------------------------------------------------------
(* What a step does to errors and wishes.                                    *)

\* What the innermost call leaves behind: errs and wishes of the frames that take
\* its place, and what it returns.
LEMMA Replaced ==
  ASSUME FlowTypes, FlowInv, stack # <<>>, NEW N \in SUBSET Frame,
         Range(stack') = Range(Outer) \cup N,
         story.raised \subseteq story'.raised, story.caught => story'.caught,
         story.panicked => story'.panicked,
         ret'.err \subseteq story'.raised, \A f \in N : f.err \subseteq story'.raised,
         Loud(story') /\ (ret.err # {} \/ Top.err # {} \/ story'.raised # story.raised) =>
           ret'.err # {} \/ \E f \in N : f.err # {},
         Quiet(story') => \A O \in SUBSET Result : Told(story.asked, O \cup {Top.acc, ret.result}) =>
           Told(story'.asked, O \cup {f.acc : f \in N} \cup {ret'.result})
  PROVE  ErrorsKnown' /\ ErrorsKept' /\ WishesKept'
<1>1. Range(stack) = Range(Outer) \cup {Top} /\ Range(Outer) \subseteq Frame
  BY Split DEF Frames
<1>2. ErrorsKnown'  BY <1>1 DEF FlowInv, ErrorsKnown
<1>3. ErrorsKept'
  <2> SUFFICES ASSUME Loud(story'), ret'.err = {}, \A f \in N : f.err = {}
               PROVE  \E f \in Range(stack') : f.err # {}
    BY DEF ErrorsKept
  <2>1. ret.err = {} /\ Top.err = {} /\ story'.raised = story.raised  OBVIOUS
  <2>2. Loud(story)  BY <2>1 DEF Loud
  <2>3. PICK f \in Range(stack) : f.err # {}  BY <2>1, <2>2 DEF FlowInv, ErrorsKept
  <2> QED  BY <1>1, <2>1, <2>3
<1>4. WishesKept'
  <2> SUFFICES ASSUME Quiet(story') PROVE Told(story'.asked, Wishes')
    BY DEF WishesKept
  <2> DEFINE O == {f.acc : f \in Range(Outer)}
  <2>1. Quiet(story)  BY DEF Quiet
  <2>2. Wishes = O \cup {Top.acc, ret.result}  BY <1>1 DEF Wishes
  <2>3. O \in SUBSET Result  BY <1>1 DEF Frame
  <2>4. Told(story.asked, O \cup {Top.acc, ret.result})
    BY <2>1, <2>2 DEF FlowInv, WishesKept
  <2>5. Wishes' = O \cup {f.acc : f \in N} \cup {ret'.result}  BY DEF Wishes
  <2> HIDE DEF O
  <2> QED  BY <2>3, <2>4, <2>5
<1> QED  BY <1>2, <1>3, <1>4

LEMMA PanicFlow ==
  ASSUME FlowTypes, FlowInv, Panic
  PROVE  FlowInv'
<1>1. stack' = <<>> /\ ret' = Nothing /\ story'.panicked  BY DEF Panic, FlowTypes, Story
<1>2. Range(stack') = {} /\ Nothing.err = {}  BY <1>1, NoCalls DEF Nothing
<1> QED  BY <1>1, <1>2 DEF FlowInv, CallsOK, ErrorsKnown, ErrorsKept, WishesKept, Loud, Quiet

LEMMA ReturnFlow ==
  ASSUME FlowTypes, FlowInv, stack # <<>>, UNCHANGED prog, NEW r, NEW e, Return(r, e),
         story.raised \subseteq story'.raised, story.caught => story'.caught,
         story.panicked => story'.panicked, e \subseteq story'.raised,
         Loud(story') /\ (ret.err # {} \/ Top.err # {} \/ story'.raised # story.raised) => e # {},
         Quiet(story') => \A O \in SUBSET Result : Told(story.asked, O \cup {Top.acc, ret.result}) =>
           Told(story'.asked, O \cup {r})
  PROVE  FlowInv'
<1>1. stack' = Outer /\ ret'.result = r /\ ret'.err = e  BY DEF Return
<1>2. CallsOK' /\ Range(stack') = Range(Outer) \cup {}  BY <1>1, AfterReturn DEF FlowInv
<1>3. ASSUME Quiet(story'), NEW O \in SUBSET Result, Told(story.asked, O \cup {Top.acc, ret.result})
      PROVE  Told(story'.asked, O \cup {f.acc : f \in {}} \cup {ret'.result})
  <2>1. Told(story'.asked, O \cup {r})  BY <1>3
  <2>2. O \cup {f.acc : f \in {}} \cup {ret'.result} = O \cup {r}  BY <1>1
  <2> QED  BY <2>1, <2>2, Zenon
<1>4. {} \in SUBSET Frame  OBVIOUS
<1>5. ErrorsKnown' /\ ErrorsKept' /\ WishesKept'
  BY <1>1, <1>2, <1>3, <1>4, Replaced
<1> QED  BY <1>2, <1>5 DEF FlowInv

LEMMA CallFlow ==
  ASSUME FlowTypes, FlowInv, stack # <<>>, UNCHANGED prog,
         NEW f \in Frames(prog), FrameOK(f), Waiting(f), NEW n \in DOMAIN Tree[prog],
         stack' = Outer \o <<f, NewFrame(n)>>, ret' = Nothing,
         story.raised \subseteq story'.raised, story.caught => story'.caught,
         story.panicked => story'.panicked, f.err \subseteq story'.raised,
         Loud(story') /\ (ret.err # {} \/ Top.err # {} \/ story'.raised # story.raised) =>
           f.err # {},
         Quiet(story') => \A O \in SUBSET Result : Told(story.asked, O \cup {Top.acc, ret.result}) =>
           Told(story'.asked, O \cup {f.acc})
  PROVE  FlowInv'
<1> DEFINE g == NewFrame(n)
<1>1. CallsOK' /\ Range(stack') = Range(Outer) \cup {f, g}  BY AfterCall DEF FlowInv
<1>2. g \in Frames(prog) /\ g.acc = NoResult /\ g.err = {}  BY NewFrameOK DEF NewFrame
<1>3. ret'.result = NoResult /\ ret'.err = {}  BY DEF Nothing
<1> HIDE DEF g
<1>4. {f, g} \in SUBSET Frame  BY <1>2 DEF Frames
<1>5. ASSUME Quiet(story'), NEW O \in SUBSET Result, Told(story.asked, O \cup {Top.acc, ret.result})
      PROVE  Told(story'.asked, O \cup {h.acc : h \in {f, g}} \cup {ret'.result})
  <2>1. Told(story'.asked, O \cup {f.acc})  BY <1>5
  <2>2. O \cup {h.acc : h \in {f, g}} \cup {ret'.result} = O \cup {f.acc, NoResult}
    BY <1>2, <1>3
  <2>3. Told(story'.asked, O \cup {f.acc, NoResult})  BY <2>1, ToldNothing
  <2> QED  BY <2>2, <2>3
<1> QED  BY <1>1, <1>2, <1>3, <1>4, <1>5, Replaced DEF FlowInv

LEMMA BecomeFlow ==
  ASSUME FlowTypes, FlowInv, stack # <<>>, UNCHANGED prog, NEW f \in Frames(prog), FrameOK(f),
         stack' = Append(Outer, f), ret' = Nothing, f.err = {}, ret.err = {}, Top.err = {},
         story.raised \subseteq story'.raised, story.caught => story'.caught,
         story.panicked => story'.panicked,
         Loud(story') => story'.raised = story.raised,
         Quiet(story') => \A O \in SUBSET Result : Told(story.asked, O \cup {Top.acc, ret.result}) =>
           Told(story'.asked, O \cup {f.acc})
  PROVE  FlowInv'
<1>1. CallsOK' /\ Range(stack') = Range(Outer) \cup {f}  BY AfterBecome DEF FlowInv
<1>2. ret'.result = NoResult /\ ret'.err = {}  BY DEF Nothing
<1>3. {f} \in SUBSET Frame  BY DEF Frames
<1>4. ASSUME Quiet(story'), NEW O \in SUBSET Result, Told(story.asked, O \cup {Top.acc, ret.result})
      PROVE  Told(story'.asked, O \cup {h.acc : h \in {f}} \cup {ret'.result})
  <2>1. Told(story'.asked, O \cup {f.acc})  BY <1>4
  <2>2. O \cup {h.acc : h \in {f}} \cup {ret'.result} = O \cup {f.acc, NoResult}
    BY <1>2
  <2>3. Told(story'.asked, O \cup {f.acc, NoResult})  BY <2>1, ToldNothing
  <2> QED  BY <2>2, <2>3, Zenon
<1> QED  BY <1>1, <1>2, <1>3, <1>4, Replaced DEF FlowInv

-----------------------------------------------------------------------------
(* One lemma per reconciler. *)

LEMMA Settled ==
  ASSUME FlowTypes, FlowInv, stack # <<>>
  PROVE  /\ Top \in Frames(prog) /\ Top \in Frame /\ FrameOK(Top) /\ Reconciler = NodeOf(Top)
         /\ Top.err \subseteq story.raised /\ ret.err \subseteq story.raised
         /\ ~Waiting(Top) => ret = Nothing
         /\ ret.result \in Result /\ ret.err \in Err /\ Top.acc \in Result /\ Top.err \in Err
         /\ Top.at \in Nat /\ story \in Story /\ story.asked \in SUBSET Result
<1>1. Top \in Frames(prog) /\ Range(stack) = Range(Outer) \cup {Top}  BY Split
<1> QED  BY <1>1 DEF FlowTypes, FlowInv, CallsOK, ErrorsKnown, Frames, Frame, Story, Reconciler, NodeOf

\* Nothing comes back to a call that has made none.
LEMMA Unasked ==
  ASSUME FlowTypes, FlowInv, stack # <<>>, ~Waiting(Top), Reconciler.kind # "sync"
  PROVE  /\ ret = Nothing /\ ret.err = {} /\ ret.result = NoResult
         /\ Top.acc = NoResult /\ Top.err = {}
BY Settled DEF FrameOK, Waiting, Nothing

\* Outcomes that are put together.
LEMMA MergedWishes ==
  ASSUME FlowTypes, FlowInv, stack # <<>>,
         NEW O \in SUBSET Result, Told(story.asked, O \cup {Top.acc, ret.result})
  PROVE  /\ Told(story.asked, O \cup {AggregateResults(Top.acc, ret.result)})
         /\ Told(story.asked, O \cup {AggregateResults(ret.result, Top.acc)})
<1>1. Top.acc \in Result /\ ret.result \in Result /\ story.asked \in SUBSET Result  BY Settled
<1>2. Told(story.asked, O \cup {AggregateResults(Top.acc, ret.result)})  BY <1>1, ToldMerged
<1> QED  BY <1>1, <1>2, AggregateAlgebra

LEMMA SequenceFlow ==
  ASSUME FlowTypes, FlowInv, stack # <<>>, UNCHANGED prog, Sequence
  PROVE  FlowInv'
<1> DEFINE acc == AggregateResults(ret.result, Top.acc)
           f == [Top EXCEPT !.at = Top.at + 1, !.acc = acc]
           n == Reconciler.subs[Top.at + 1]
<1>1. Reconciler.kind = "sequence"  BY DEF Sequence
<1>2. Top.err = {}  BY <1>1, Settled DEF FrameOK
<1>3. \A O \in SUBSET Result : Told(story.asked, O \cup {Top.acc, ret.result}) =>
        Told(story.asked, O \cup {acc})
  BY MergedWishes
<1> HIDE DEF acc
<1>4. CASE ret.err # {}
  <2>1. Return(ret.result, ret.err) /\ UNCHANGED <<res, story>>  BY <1>4 DEF Sequence
  <2>2. ~Quiet(story')  BY <1>4, <2>1, Settled DEF Quiet
  <2> QED  BY <1>4, <2>1, <2>2, Settled, ReturnFlow
<1>5. CASE ret.err = {} /\ Top.at = Len(Reconciler.subs)
  <2>1. Return(acc, {}) /\ UNCHANGED <<res, story>>  BY <1>5 DEF Sequence, acc
  <2> QED  BY <1>2, <1>3, <1>5, <2>1, ReturnFlow
<1>6. CASE ret.err = {} /\ Top.at # Len(Reconciler.subs)
  <2>1. Call(f, n)  BY <1>6 DEF Sequence, acc
  <2>2. CASE n = 0  BY <2>1, <2>2, PanicFlow DEF Call, CallWith
  <2>3. CASE n # 0
    <3>1. stack' = Outer \o <<f, NewFrame(n)>> /\ ret' = Nothing /\ UNCHANGED story
      BY <2>1, <2>3 DEF Call, CallWith
    <3>2. acc \in Result /\ Top.at + 1 \in Nat /\ Top.at + 1 \in 1 .. Len(Reconciler.subs)
      BY <1>1, <1>6, Settled, Current, AggregateType DEF acc
    <3>3. f \in Frame /\ f.node = Top.node /\ f.at = Top.at + 1 /\ f.acc = acc /\ f.err = {}
      BY <1>2, <3>2, Settled DEF Frame
    <3>4. f \in Frames(prog)
      <4>1. f.at <= Len(Reconciler.subs) /\ Top \in Frames(prog)  BY <3>2, <3>3, Current
      <4> HIDE DEF f
      <4> QED  BY <3>3, <4>1, FrameMoves DEF Reconciler
    <3>5. n \in DOMAIN Tree[prog]  BY <2>3, <3>2, Current
    <3>6. FrameOK(f) /\ Waiting(f)
      BY <1>1, <3>3, Settled DEF FrameOK, Waiting, Casting, NodeOf
    <3> HIDE DEF f, n
    <3> QED  BY <1>2, <1>3, <1>6, <3>1, <3>3, <3>4, <3>5, <3>6, CallFlow
  <2> QED  BY <2>2, <2>3
<1> QED  BY <1>4, <1>5, <1>6

LEMMA WhileFlow ==
  ASSUME FlowTypes, FlowInv, stack # <<>>, UNCHANGED prog, While
  PROVE  FlowInv'
<1> DEFINE acc == AggregateResults(Top.acc, ret.result)
           f == [Top EXCEPT !.at = Top.at + 1, !.acc = acc]
           n == Reconciler.subs[1]
<1>1. Reconciler.kind = "while"  BY DEF While
<1>2. Top.err = {}  BY <1>1, Settled DEF FrameOK
<1>3. \A O \in SUBSET Result : Told(story.asked, O \cup {Top.acc, ret.result}) =>
        Told(story.asked, O \cup {acc})
  BY MergedWishes
<1>4. \/ ret.err # {} /\ Return(acc, ret.err) /\ UNCHANGED <<res, story>>
      \/ ret.err = {} /\ Return(acc, {"limit"}) /\ Raise({"limit"})
      \/ ret.err = {} /\ Return(acc, {}) /\ UNCHANGED <<res, story>>
      \/ ret.err = {} /\ Call(f, n)
      \/ Panic
  BY DEF While
<1> HIDE DEF acc
<1>5. CASE ret.err # {} /\ Return(acc, ret.err) /\ UNCHANGED <<res, story>>
  <2>1. ~Quiet(story')  BY <1>5, Settled DEF Quiet
  <2> QED  BY <1>5, <2>1, Settled, ReturnFlow
<1>6. CASE ret.err = {} /\ Return(acc, {"limit"}) /\ Raise({"limit"})
  <2>1. /\ story'.raised = story.raised \cup {"limit"} /\ story'.caught = story.caught
        /\ story'.panicked = story.panicked /\ ~Quiet(story')
    BY <1>6, Settled DEF Raise, Story, Quiet
  <2> QED  BY <1>6, <2>1, ReturnFlow
<1>7. CASE ret.err = {} /\ Return(acc, {}) /\ UNCHANGED <<res, story>>
  BY <1>2, <1>3, <1>7, ReturnFlow
<1>8. CASE ret.err = {} /\ Call(f, n)
  <2>2. CASE n = 0  BY <1>8, <2>2, PanicFlow DEF Call, CallWith
  <2>3. CASE n # 0
    <3>1. stack' = Outer \o <<f, NewFrame(n)>> /\ ret' = Nothing /\ UNCHANGED story
      BY <1>8, <2>3 DEF Call, CallWith
    <3>2. acc \in Result /\ Top.at + 1 \in Nat  BY Settled, AggregateType DEF acc
    <3>3. f \in Frame /\ f.node = Top.node /\ f.at = Top.at + 1 /\ f.acc = acc /\ f.err = {}
      BY <1>2, <3>2, Settled DEF Frame
    <3>4. f \in Frames(prog)  BY <1>1, <3>3, Settled, FrameMoves DEF Reconciler
    <3>5. n \in DOMAIN Tree[prog]  BY <1>1, <2>3, FieldsOf
    <3>6. FrameOK(f) /\ Waiting(f)
      BY <1>1, <3>3, Settled DEF FrameOK, Waiting, Casting, NodeOf
    <3> HIDE DEF f, n
    <3> QED  BY <1>2, <1>3, <1>8, <3>1, <3>3, <3>4, <3>5, <3>6, CallFlow
  <2> QED  BY <2>2, <2>3
<1>9. CASE Panic  BY <1>9, PanicFlow
<1> QED  BY <1>4, <1>5, <1>6, <1>7, <1>8, <1>9

LEMMA BecomeNode ==
  ASSUME FlowTypes, FlowInv, stack # <<>>, UNCHANGED prog, ~Waiting(Top), Reconciler.kind # "sync",
         NEW n \in {0} \cup DOMAIN Tree[prog], Become(n)
  PROVE  FlowInv'
<1>1. CASE n = 0  BY <1>1, PanicFlow DEF Become
<1>2. CASE n # 0
  <2>1. stack' = Append(Outer, NewFrame(n)) /\ ret' = Nothing /\ UNCHANGED story
    BY <1>2 DEF Become
  <2>2. NewFrame(n) \in Frames(prog) /\ FrameOK(NewFrame(n))
        /\ NewFrame(n).err = {} /\ NewFrame(n).acc = NoResult
    BY <1>2, NewFrameOK DEF NewFrame
  <2>3. ASSUME NEW O, Told(story.asked, O \cup {Top.acc, ret.result})
        PROVE  Told(story'.asked, O \cup {NewFrame(n).acc})
    <3>1. O \cup {Top.acc, ret.result} = O \cup {NewFrame(n).acc}  BY <2>2, Unasked
    <3> QED  BY <2>1, <2>3, <3>1
  <2> QED  BY <2>1, <2>2, <2>3, Unasked, BecomeFlow
<1> QED  BY <1>1, <1>2

LEMMA ReturnNothing ==
  ASSUME FlowTypes, FlowInv, stack # <<>>, UNCHANGED prog, ~Waiting(Top), Reconciler.kind # "sync",
         Return(NoResult, {}), UNCHANGED story
  PROVE  FlowInv'
<1>1. ASSUME NEW O, Told(story.asked, O \cup {Top.acc, ret.result})
      PROVE  Told(story'.asked, O \cup {NoResult})
  <2>1. O \cup {Top.acc, ret.result} = O \cup {NoResult}  BY Unasked
  <2> QED  BY <1>1, <2>1
<1> QED  BY <1>1, Unasked, ReturnFlow

\* A reconciler fails on its own account.
LEMMA ReturnFailure ==
  ASSUME FlowTypes, FlowInv, stack # <<>>, UNCHANGED prog, NEW r, NEW e, NEW cause \in Causes,
         Return(r, e), Raise({cause}), cause \in e, e \subseteq story.raised \cup {cause}
  PROVE  FlowInv'
<1>1. /\ story'.raised = story.raised \cup {cause} /\ story'.caught = story.caught
      /\ story'.panicked = story.panicked /\ ~Quiet(story')
  BY Settled DEF Raise, Story, Quiet
<1> QED  BY <1>1, ReturnFlow

LEMMA PassFlow ==
  ASSUME FlowTypes, FlowInv, stack # <<>>, UNCHANGED prog, IfThen \/ OverrideSetup \/ WithConfig
  PROVE  FlowInv'
<1>1. Reconciler.kind \in {"ifthen", "override", "config"}
  BY DEF IfThen, OverrideSetup, WithConfig
<1>2. ~Waiting(Top) /\ Reconciler.kind # "sync" /\ Reconciler.kind # "sequence"
  BY <1>1, Settled DEF Waiting
<1>3. CASE \E n \in {0} \cup DOMAIN Tree[prog] : Become(n)  BY <1>2, <1>3, BecomeNode
<1>4. CASE Return(NoResult, {}) /\ UNCHANGED <<res, story>>  BY <1>2, <1>4, ReturnNothing
<1>5. CASE Return(NoResult, {"fail"}) /\ Raise({"fail"})
  BY <1>5, ReturnFailure DEF Causes
<1>6. CASE Panic  BY <1>6, PanicFlow
<1> QED  BY <1>1, <1>2, <1>3, <1>4, <1>5, <1>6, FieldsOf DEF IfThen, OverrideSetup, WithConfig

LEMMA LeaveFlow ==
  ASSUME FlowTypes, FlowInv, stack # <<>>, UNCHANGED prog, Reconciler.kind = "trycatch", Top.at = 1,
         NEW r \in Result, NEW e \in Err, Leave(r, e),
         story.raised \subseteq story'.raised, story.caught => story'.caught,
         story.panicked => story'.panicked, e \subseteq story'.raised,
         Loud(story') => e = ret.err /\ story'.raised = story.raised,
         Quiet(story') => \A O \in SUBSET Result : Told(story.asked, O \cup {Top.acc, ret.result}) =>
           Told(story'.asked, O \cup {r})
  PROVE  FlowInv'
<1> DEFINE f == [Top EXCEPT !.at = 2, !.acc = r, !.err = e]
           n == Reconciler.subs[2]
<1>1. Top.err = {}  BY Settled DEF FrameOK
<1>2. CASE n = 0
  <2>1. Return(r, e)  BY <1>2 DEF Leave
  <2> QED  BY <1>1, <2>1, ReturnFlow
<1>3. CASE n # 0
  <2>1. stack' = Outer \o <<f, NewFrame(n)>> /\ ret' = Nothing  BY <1>3 DEF Leave
  <2>2. f \in Frame /\ f.node = Top.node /\ f.at = 2 /\ f.acc = r /\ f.err = e
    BY Settled DEF Frame
  <2>3. f \in Frames(prog)  BY TopMoves
  <2>4. n \in DOMAIN Tree[prog]  BY <1>3, FieldsOf
  <2>5. FrameOK(f) /\ Waiting(f)  BY <2>2, Settled DEF FrameOK, Waiting, Casting, NodeOf
  <2> HIDE DEF f, n
  <2> QED  BY <1>1, <2>1, <2>2, <2>3, <2>4, <2>5, CallFlow
<1> QED  BY <1>2, <1>3

LEMMA TryFlow ==
  ASSUME FlowTypes, FlowInv, stack # <<>>, UNCHANGED prog, Try
  PROVE  FlowInv'
<1> DEFINE f == [Top EXCEPT !.at = 1]
           n == Reconciler.subs[1]
<1>1. Reconciler.kind = "trycatch" /\ Top.at = 0 /\ Call(f, n)  BY DEF Try
<1>2. ~Waiting(Top)  BY <1>1, Settled DEF Waiting
<1>3. CASE n = 0  BY <1>1, <1>3, PanicFlow DEF Call, CallWith
<1>4. CASE n # 0
  <2>1. stack' = Outer \o <<f, NewFrame(n)>> /\ ret' = Nothing /\ UNCHANGED story
    BY <1>1, <1>4 DEF Call, CallWith
  <2>2. /\ f \in Frame /\ f.node = Top.node /\ f.at = 1 /\ f.acc = NoResult /\ f.err = {}
    BY <1>1, <1>2, Settled, Unasked DEF Frame
  <2>3. f \in Frames(prog)  BY <1>1, <2>2, Settled, FrameMoves DEF Reconciler
  <2>4. n \in DOMAIN Tree[prog]  BY <1>1, <1>4, FieldsOf
  <2>5. FrameOK(f) /\ Waiting(f)
    BY <1>1, <2>2, Settled DEF FrameOK, Waiting, Casting, NodeOf
  <2>6. ASSUME NEW O, Told(story.asked, O \cup {Top.acc, ret.result})
        PROVE  Told(story'.asked, O \cup {f.acc})
    <3>1. O \cup {Top.acc, ret.result} = O \cup {f.acc}  BY <1>1, <1>2, <2>2, Unasked
    <3> QED  BY <2>1, <2>6, <3>1
  <2> HIDE DEF f, n
  <2> QED  BY <1>1, <1>2, <2>1, <2>2, <2>3, <2>4, <2>5, <2>6, Unasked, CallFlow
<1> QED  BY <1>3, <1>4

\* What is told to a TryCatch when Try or Catch returns.
LEMMA OnlyReturned ==
  ASSUME FlowTypes, FlowInv, stack # <<>>, Top.acc = NoResult,
         NEW O, Told(story.asked, O \cup {Top.acc, ret.result})
  PROVE  Told(story.asked, O \cup {ret.result})
<1>1. O \cup {Top.acc, ret.result} = O \cup {ret.result, NoResult}  OBVIOUS
<1>2. Told(story.asked, O \cup {ret.result, NoResult})  BY <1>1
<1> QED  BY <1>2, ToldNothing

LEMMA TryCatchFlow ==
  ASSUME FlowTypes, FlowInv, stack # <<>>, UNCHANGED prog,
         Propagate \/ Finally \/ \E o \in Reconciler.does[res] : Catch(o)
  PROVE  FlowInv'
<1>1. CASE Propagate
  <2>1. /\ Reconciler.kind = "trycatch" /\ Top.at = 1 /\ UNCHANGED story
        /\ Leave(ret.result, ret.err)
    BY <1>1 DEF Propagate
  <2>2. Top.acc = NoResult  BY <2>1, Settled DEF FrameOK
  <2>3. \A O \in SUBSET Result : Told(story.asked, O \cup {Top.acc, ret.result}) =>
          Told(story.asked, O \cup {ret.result})
    BY <2>2, OnlyReturned
  <2> QED  BY <2>1, <2>3, Settled, LeaveFlow
<1>2. CASE Finally
  <2> DEFINE r == AggregateResults(Top.acc, ret.result)
             e == IF ret.err # {} THEN ret.err ELSE Top.err
  <2>1. Return(r, e) /\ UNCHANGED story  BY <1>2 DEF Finally
  <2>2. \A O \in SUBSET Result : Told(story.asked, O \cup {Top.acc, ret.result}) =>
          Told(story.asked, O \cup {r})
    BY MergedWishes
  <2>3. e \subseteq story.raised  BY Settled
  <2> QED  BY <2>1, <2>2, <2>3, ReturnFlow
<1>3. ASSUME NEW o \in Reconciler.does[res], Catch(o) PROVE FlowInv'
  <2>1. o.result \in Result /\ o.err \in Err
    BY Current DEF FlowTypes, Node, Outcome
  <2>2. /\ Reconciler.kind = "trycatch" /\ Top.at = 1 /\ Leave(o.result, o.err)
    BY <1>3 DEF Catch
  <2>3. /\ story'.raised = story.raised \cup o.err /\ story'.caught
        /\ story'.panicked = story.panicked
    BY <1>3, Settled DEF Catch, Story
  <2>4. ~Loud(story') /\ ~Quiet(story')  BY <2>3 DEF Loud, Quiet
  <2> QED  BY <2>1, <2>2, <2>3, <2>4, LeaveFlow
<1> QED  BY <1>1, <1>2, <1>3

LEMMA CastFlow ==
  ASSUME FlowTypes, FlowInv, stack # <<>>, UNCHANGED prog, Cast
  PROVE  FlowInv'
<1> DEFINE f == [Top EXCEPT !.at = 1, !.saved = res]
           n == Reconciler.subs[1]
<1>1. Reconciler.kind = "cast" /\ Top.at = 0 /\ n \in {0} \cup DOMAIN Tree[prog]
  BY FieldsOf DEF Cast
<1>2. ~Waiting(Top)  BY <1>1, Settled DEF Waiting
<1>3. CASE Become(n)  BY <1>1, <1>2, <1>3, BecomeNode
<1>4. CASE Return(NoResult, {"cast"}) /\ Raise({"cast"})
  BY <1>4, ReturnFailure DEF Causes
<1>5. CASE ~Reconciler.flag /\ CallWith(f, n, Seen(CastType, res))
  <2>1. CASE n = 0  BY <1>5, <2>1, PanicFlow DEF CallWith
  <2>2. CASE n # 0
    <3>1. stack' = Outer \o <<f, NewFrame(n)>> /\ ret' = Nothing /\ UNCHANGED story
      BY <1>5, <2>2 DEF CallWith
    <3>2. /\ f \in Frame /\ f.node = Top.node /\ f.at = 1 /\ f.acc = NoResult /\ f.err = {}
      BY <1>1, <1>2, Settled, Unasked DEF Frame, FlowTypes
    <3>3. f \in Frames(prog)  BY <1>1, <3>2, Settled, FrameMoves DEF Reconciler
    <3>4. n \in DOMAIN Tree[prog]  BY <1>1, <2>2
    <3>5. NodeOf(f) = Reconciler  BY <3>2 DEF NodeOf, Reconciler
    <3>6. FrameOK(f) /\ Waiting(f)
      BY <1>1, <1>5, <3>2, <3>4, <3>5 DEF FrameOK, Waiting, Casting
    <3>7. ASSUME NEW O, Told(story.asked, O \cup {Top.acc, ret.result})
          PROVE  Told(story'.asked, O \cup {f.acc})
      <4>1. O \cup {Top.acc, ret.result} = O \cup {f.acc}  BY <1>1, <1>2, <3>2, Unasked
      <4> QED  BY <3>1, <3>7, <4>1
    <3> HIDE DEF f, n
    <3> QED  BY <1>1, <1>2, <3>1, <3>2, <3>3, <3>4, <3>6, <3>7, Unasked, CallFlow
  <2> QED  BY <2>1, <2>2
<1> QED  BY <1>3, <1>4, <1>5 DEF Cast

LEMMA CastBackFlow ==
  ASSUME FlowTypes, FlowInv, stack # <<>>, UNCHANGED prog, CastBack
  PROVE  FlowInv'
<1>1. Reconciler.kind = "cast" /\ Top.at = 1  BY DEF CastBack
<1>2. Top.acc = NoResult /\ Top.err = {}  BY <1>1, Settled DEF FrameOK
<1>3. CASE Return(ret.result, ret.err) /\ UNCHANGED story
  <2>1. \A O \in SUBSET Result : Told(story.asked, O \cup {Top.acc, ret.result}) =>
          Told(story.asked, O \cup {ret.result})
    BY <1>2, OnlyReturned
  <2> QED  BY <1>2, <1>3, <2>1, Settled, ReturnFlow
<1>4. CASE Return(ret.result, ret.err \cup {"patch"}) /\ Raise({"patch"})
  <2>1. "patch" \in Causes /\ ret.err \cup {"patch"} \subseteq story.raised \cup {"patch"}
    BY Settled DEF Causes
  <2> QED  BY <1>4, <2>1, ReturnFailure
<1> QED  BY <1>3, <1>4 DEF CastBack

LEMMA SyncFlow ==
  ASSUME FlowTypes, FlowInv, stack # <<>>, UNCHANGED prog, Sync \/ Finalize
  PROVE  FlowInv'
<1>1. Reconciler.kind = "sync"  BY DEF Sync, Finalize
<1>2. /\ ret = Nothing /\ ret.err = {} /\ ret.result = NoResult /\ Top.err = {}
      /\ Top.at # 1 => Top.acc = NoResult
  BY <1>1, Settled DEF FrameOK, Waiting, Nothing
<1>3. ASSUME NEW o \in Reconciler.does[res] \cup Reconciler.ends[res], Does(o)
      PROVE  /\ o.result \in Result /\ o.err \in Err
             /\ story'.asked = story.asked \cup {o.result}
             /\ story'.raised = story.raised \cup o.err
             /\ story'.caught = story.caught /\ story'.panicked = story.panicked
  <2>1. o \in Outcome  BY Current DEF FlowTypes, Node
  <2> QED  BY <1>3, <2>1, Settled DEF Outcome, Does, Story
<1>4. ASSUME NEW r \in Result, NEW O \in SUBSET Result,
             Told(story.asked, O \cup {Top.acc, ret.result}),
             story'.asked = story.asked \cup {r}
      PROVE  Told(story'.asked, O \cup {Top.acc, r})
  <2>1. O \cup {Top.acc, ret.result} = O \cup {Top.acc, NoResult}  BY <1>2
  <2>2. Told(story.asked, O \cup {Top.acc, NoResult})  BY <1>4, <2>1
  <2>3. Told(story.asked, O \cup {Top.acc})  BY <2>2, ToldNothing
  <2>4. Told(story'.asked, (O \cup {Top.acc}) \cup {r})  BY <1>4, <2>3, ToldMore
  <2>5. (O \cup {Top.acc}) \cup {r} = O \cup {Top.acc, r}  OBVIOUS
  <2> QED  BY <2>4, <2>5
<1>5. ASSUME NEW r \in Result, NEW O \in SUBSET Result,
             Told(story.asked, O \cup {Top.acc, ret.result}), Top.acc = NoResult,
             story'.asked = story.asked \cup {r}
      PROVE  Told(story'.asked, O \cup {r})
  <2>1. Told(story'.asked, O \cup {Top.acc, r})  BY <1>4, <1>5
  <2>2. O \cup {Top.acc, r} = O \cup {r, NoResult}  BY <1>5
  <2>3. Told(story'.asked, O \cup {r, NoResult})  BY <2>1, <2>2
  <2> QED  BY <2>3, ToldNothing
<1>6. CASE Panic  BY <1>6, PanicFlow
<1>7. ASSUME NEW o \in Reconciler.does[res], Does(o), Top.at = 0, Return(o.result, o.err)
      PROVE  FlowInv'
  <2>1. Top.acc = NoResult  BY <1>2, <1>7
  <2>2. \A O \in SUBSET Result : Told(story.asked, O \cup {Top.acc, ret.result}) =>
          Told(story'.asked, O \cup {o.result})
    BY <1>3, <1>5, <1>7, <2>1
  <2> QED  BY <1>2, <1>3, <1>7, <2>2, ReturnFlow
<1>8. ASSUME NEW o \in Reconciler.does[res], Does(o), Top.at = 0, o.err = {}, UNCHANGED ret,
             stack' = Append(Outer, [Top EXCEPT !.at = 1, !.acc = o.result])
      PROVE  FlowInv'
  <2> DEFINE f == [Top EXCEPT !.at = 1, !.acc = o.result]
  <2>1. Top.acc = NoResult /\ ret' = Nothing  BY <1>2, <1>8
  <2>2. /\ f \in Frame /\ f.node = Top.node /\ f.at = 1 /\ f.acc = o.result /\ f.err = {}
    BY <1>2, <1>3, <1>8, Settled DEF Frame
  <2>3. f \in Frames(prog)  BY <1>1, <2>2, Settled, FrameMoves DEF Reconciler
  <2>4. FrameOK(f)  BY <1>1, <2>2, Settled DEF FrameOK, Casting, NodeOf
  <2>5. \A O \in SUBSET Result : Told(story.asked, O \cup {Top.acc, ret.result}) =>
          Told(story'.asked, O \cup {f.acc})
    BY <1>3, <1>5, <1>8, <2>1, <2>2
  <2>6. stack' = Append(Outer, f)  BY <1>8
  <2> HIDE DEF f
  <2> QED  BY <1>2, <1>3, <1>8, <2>1, <2>2, <2>3, <2>4, <2>5, <2>6, BecomeFlow
<1>9. CASE Return(Top.acc, {}) /\ UNCHANGED <<res, story>>
  <2>1. ASSUME NEW O \in SUBSET Result, Told(story.asked, O \cup {Top.acc, ret.result})
        PROVE  Told(story.asked, O \cup {Top.acc})
    <3>1. O \cup {Top.acc, ret.result} = O \cup {Top.acc, NoResult}  BY <1>2
    <3>2. Told(story.asked, O \cup {Top.acc, NoResult})  BY <2>1, <3>1
    <3> QED  BY <3>2, ToldNothing
  <2> QED  BY <1>2, <1>9, <2>1, ReturnFlow
<1>10. ASSUME NEW o \in Reconciler.ends[res], Does(o),
              Return(AggregateResults(Top.acc, o.result), o.err)
       PROVE  FlowInv'
  <2>1. ASSUME NEW O \in SUBSET Result, Told(story.asked, O \cup {Top.acc, ret.result})
        PROVE  Told(story'.asked, O \cup {AggregateResults(Top.acc, o.result)})
    <3>1. Told(story'.asked, O \cup {Top.acc, o.result})  BY <1>3, <1>4, <1>10, <2>1
    <3>2. /\ story'.asked \in SUBSET Result /\ Top.acc \in Result /\ o.result \in Result
      BY <1>3, <1>10, Settled
    <3> QED  BY <3>1, <3>2, ToldMerged
  <2> QED  BY <1>2, <1>3, <1>10, <2>1, ReturnFlow
<1>11. CASE Sync  BY <1>6, <1>7, <1>8, <1>11 DEF Sync
<1>12. CASE Finalize  BY <1>9, <1>10, <1>12 DEF Finalize
<1> QED  BY <1>11, <1>12

LEMMA FlowStepInv ==
  ASSUME FlowTypes, FlowInv, FlowStep
  PROVE  FlowInv'
<1>1. stack # <<>> /\ UNCHANGED prog  BY DEF FlowStep
<1> QED
  BY <1>1, SequenceFlow, WhileFlow, PassFlow, TryFlow, TryCatchFlow, CastFlow, CastBackFlow,
     SyncFlow DEF FlowStep


-----------------------------------------------------------------------------
(* The hosts: one request.                                                   *)

\* No calls, and nothing that they could have made.
NoFlow == stack = <<>> /\ ret = Nothing /\ story = NoStory

LEMMA EmptyFlow == NoFlow => FlowInv
<1> SUFFICES ASSUME NoFlow PROVE FlowInv
  OBVIOUS
<1> USE DEF NoFlow, NoStory
<1>1. Range(stack) = {} /\ ret.err = {} /\ ret.result = NoResult
  BY NoCalls DEF Nothing
<1>2. Wishes = {NoResult}  BY <1>1 DEF Wishes
<1>3. ~NoResult.requeue /\ NoResult.after = 0  BY DEF NoResult
<1> QED
  BY <1>1, <1>2, <1>3 DEF FlowInv, CallsOK, ErrorsKnown, ErrorsKept, WishesKept, Loud, Told

LEMMA StartFlowInv ==
  ASSUME NEW p \in Programs, NEW obj \in Objects, NEW del \in BOOLEAN, StartFlow(p, obj, del)
  PROVE  FlowInv'
<1> DEFINE f == [node |-> 1, at |-> 0, acc |-> NoResult, err |-> {}, saved |-> Blank]
<1>1. /\ stack' = <<f>> /\ ret' = Nothing
      /\ story'.asked = {} /\ story'.raised = {}
  BY DEF StartFlow
<1>2. f.at = 0 /\ f.acc = NoResult /\ f.err = {}  OBVIOUS
<1> HIDE DEF f
<1>3. <<f>> = Append(<<>>, f) /\ <<>> \in Seq({f})  OBVIOUS
<1>4. Range(<<f>>) = {f} /\ SubSeq(<<f>>, 1, Len(<<f>>) - 1) = <<>>
  <2>1. LET t == Append(<<>>, f)
        IN  SubSeq(t, 1, Len(t) - 1) = <<>> /\ Range(t) = Range(<<>>) \cup {f}
    BY <1>3, Pushed
  <2> QED  BY <1>3, <2>1, NoCalls
<1>5. Range(stack') = {f} /\ Range(Outer') = {}
  BY <1>1, <1>4, NoCalls DEF Outer
<1>6. ret'.err = {} /\ ret'.result = NoResult  BY <1>1 DEF Nothing
<1>7. Wishes' = {NoResult}  BY <1>2, <1>5, <1>6 DEF Wishes
<1>8. FrameOK(f)'  BY <1>2 DEF FrameOK, Casting
<1>9. ~NoResult.requeue /\ NoResult.after = 0  BY DEF NoResult
<1> QED
  BY <1>1, <1>2, <1>5, <1>6, <1>7, <1>8, <1>9
     DEF FlowInv, CallsOK, ErrorsKnown, ErrorsKept, WishesKept, Loud, Told

\* After the tree a host goes on to its answer: the one it has, a success, or a failure.
Proceeds ==
  /\ stack = <<>> /\ UNCHANGED <<flowVars, conf, said>>
  /\ phase \in {"status", "desire", "send", "hook"}
  /\ \/ phase \in {"desire", "send", "hook"} /\ Answer(answer.result, {})
     \/ Answer(NoResult, {"fail"})
     \/ UNCHANGED answer /\ phase = "status" /\ phase' = "done"
     \/ UNCHANGED answer /\ phase = "desire" /\ phase' = "send"

\* Nobody else interferes with a request.
Looks == UNCHANGED <<flowVars, conf, phase, answer, said>>

\* The request is over, or the process.
Ends == Blanked /\ phase' = "idle" /\ UNCHANGED conf /\ phase \notin {"new", "refused"}

LEMMA KindsOfSteps ==
  ASSUME Inv, Next
  PROVE  \/ Setup \/ Step \/ EndTree \/ Send \/ Proceeds \/ Looks \/ Ends
         \/ \E o \in Fates : Begin(o)
<1>1. ASSUME NEW o \in Fates, WriteStatus(o) \/ Desire(o) \/ SendDelete(o) \/ Write(o)
      PROVE  Proceeds
  BY <1>1 DEF Inv, StackIdle, Proceeds, WriteStatus, Desire, SendDelete, Write
<1>2. ASSUME Unsupported PROVE Proceeds
  BY <1>2 DEF Inv, StackIdle, Proceeds, Unsupported
<1>3. ASSUME ChangeWant \/ Edit \/ Delete \/ Release \/ Vanish \/ Expire PROVE Looks
  BY <1>3 DEF Looks, ChangeWant, Edit, Delete, Release, Vanish, Expire, requestVars
<1>4. ASSUME Forget \/ Restart PROVE Ends
  BY <1>4 DEF Forget, Restart, Served, Ends
<1> QED  BY <1>1, <1>2, <1>3, <1>4 DEF Next, Worker, Others


\* A request gets its answer: the wishes and the errors of the calls are in it.
OutcomeInv == FlowInv /\ Fresh /\ HostPhases /\ AnswerKept

LEMMA Unhosted ==
  ASSUME FlowTypes, FlowInv, UNCHANGED flowVars
  PROVE  FlowInv'
<1>1. UNCHANGED <<prog, stack, ret, story>>  BY DEF flowVars
<1>2. /\ Outer' = Outer /\ Top' = Top
      /\ \A f : (FrameOK(f)' <=> FrameOK(f)) /\ (Waiting(f)' <=> Waiting(f))
  BY <1>1, Constant DEF Outer, Top
<1>3. CallsOK'  BY <1>1, <1>2 DEF FlowInv, CallsOK
<1>4. Wishes' = Wishes  BY <1>1 DEF Wishes
<1> QED  BY <1>1, <1>3, <1>4 DEF FlowInv, ErrorsKnown, ErrorsKept, WishesKept

\* The tree has returned to its host.
LEMMA TreeReturned ==
  ASSUME FlowInv, stack = <<>>
  PROVE  /\ ret.err \subseteq story.raised
         /\ Loud(story) => ret.err # {}
         /\ Quiet(story) => Told(story.asked, {ret.result})
<1>1. Range(stack) = {}  BY NoCalls
<1>2. Wishes = {ret.result}  BY <1>1 DEF Wishes
<1> QED  BY <1>1, <1>2 DEF FlowInv, ErrorsKnown, ErrorsKept, WishesKept

LEMMA EndTreeOutcome ==
  ASSUME Inv, OutcomeInv, EndTree
  PROVE  OutcomeInv'
<1>1. /\ stack = <<>> /\ phase = "run" /\ said' = story /\ UNCHANGED <<flowVars, conf>>
  BY DEF EndTree
<1>2. /\ ret.err \subseteq story.raised /\ (Loud(story) => ret.err # {})
      /\ Quiet(story) => Told(story.asked, {ret.result})
  BY <1>1, TreeReturned DEF OutcomeInv
<1>3. FlowInv'  BY <1>1, Unhosted DEF Inv, OutcomeInv
<1>4. CASE story.panicked
  BY <1>1, <1>3, <1>4 DEF EndTree, OutcomeInv, Fresh, HostPhases, AnswerKept, Ended
<1>5. CASE ~story.panicked /\ conf.host = "resource"
  <2> DEFINE err == IF "halt" \in ret.err THEN {} ELSE ret.err
             result == IF err = {} THEN ret.result ELSE NoResult
  <2>1. answer' = [result |-> result, err |-> err] /\ phase' \in {"status", "done"}
    BY <1>5 DEF EndTree, EndResource, Answer
  <2>2. Loud(story) => err # {}  BY <1>2 DEF Loud
  <2>3. err = {} => result = ret.result  OBVIOUS
  <2> HIDE DEF err, result
  <2>4. answer'.err = err /\ answer'.result = result  BY <2>1
  <2>5. AnswerKept'
    BY <1>1, <1>2, <1>5, <2>1, <2>2, <2>3, <2>4 DEF AnswerKept, Quiet, Loud
  <2> QED  BY <1>1, <1>3, <2>1, <2>5 DEF OutcomeInv, Fresh, HostPhases
<1>6. CASE ~story.panicked /\ conf.host # "resource"
  <2>1. \/ /\ ret.err # {} /\ "halt" \notin ret.err
           /\ phase' = "done" /\ answer' = [result |-> ret.result, err |-> ret.err]
        \/ /\ ~(ret.err # {} /\ "halt" \notin ret.err)
           /\ phase' = "desire" /\ answer' = [result |-> ret.result, err |-> {}]
    BY <1>6 DEF EndTree, EndAggregate, Answer
  <2>2. ASSUME phase' = "done", answer' = [result |-> ret.result, err |-> ret.err], ret.err # {}
        PROVE  AnswerKept'
    BY <2>2 DEF AnswerKept
  <2>3. ASSUME phase' = "desire", answer' = [result |-> ret.result, err |-> {}],
               ret.err = {} \/ "halt" \in ret.err
        PROVE  AnswerKept'
    <3>1. answer'.err = {} /\ answer'.result = ret.result  BY <2>3
    <3>2. ~Loud(story)  BY <1>2, <2>3 DEF Loud
    <3> QED  BY <1>1, <1>2, <1>6, <2>3, <3>1, <3>2 DEF AnswerKept, Quiet, Loud
  <2>4. AnswerKept'  BY <2>1, <2>2, <2>3
  <2> QED  BY <1>1, <1>3, <1>6, <2>1, <2>4 DEF OutcomeInv, Fresh, HostPhases
<1> QED  BY <1>4, <1>5, <1>6

LEMMA ProceedsOutcome ==
  ASSUME Inv, OutcomeInv, Proceeds
  PROVE  OutcomeInv'
<1>1. UNCHANGED <<flowVars, conf, said>>  BY DEF Proceeds
<1>2. FlowInv'  BY <1>1, Unhosted DEF Inv, OutcomeInv
<1>3. answer \in [result : Result, err : Err]  BY DEF Inv, HostTypes
<1>4. /\ phase' \in {"done", "send"} /\ (phase' = "send" => phase = "desire")
      /\ answer'.err # {} \/ (UNCHANGED answer /\ phase' \in {"done", "send"})
      /\ phase' = "send" => UNCHANGED answer
  <2>1. CASE phase \in {"desire", "send", "hook"} /\ Answer(answer.result, {})
    <3>1. answer.err = {}  BY <2>1 DEF OutcomeInv, AnswerKept
    <3>2. answer = [result |-> answer.result, err |-> {}]  BY <1>3, <3>1
    <3> QED  BY <2>1, <3>2 DEF Answer
  <2>2. CASE Answer(NoResult, {"fail"})  BY <2>2 DEF Answer
  <2> QED  BY <2>1, <2>2 DEF Proceeds
<1>5. AnswerKept'
  BY <1>1, <1>4 DEF Proceeds, OutcomeInv, AnswerKept, Ended
<1> QED  BY <1>1, <1>2, <1>4, <1>5 DEF OutcomeInv, Fresh, HostPhases

LEMMA BeginOutcome ==
  ASSUME Inv, OutcomeInv, NEW o \in Fates, Begin(o)
  PROVE  OutcomeInv'
<1>1. phase = "idle" /\ said = NoStory /\ UNCHANGED <<conf, said>>
  BY DEF Begin, OutcomeInv, Fresh
<1>2. said.asked = {} /\ said.raised = {}  BY <1>1 DEF NoStory
<1>3. CASE o = "rejected" \/ NothingToDo
  <2>1. /\ Answer(NoResult, IF o = "ok" THEN {} ELSE {"fail"}) /\ UNCHANGED flowVars
    BY <1>3 DEF Begin
  <2>2. phase' = "done" /\ answer'.result = NoResult  BY <2>1 DEF Answer
  <2>3. FlowInv'  BY <2>1, Unhosted DEF Inv, OutcomeInv
  <2>4. ~NoResult.requeue /\ NoResult.after = 0  BY DEF NoResult
  <2>5. AnswerKept'  BY <1>1, <1>2, <2>2, <2>4 DEF AnswerKept, Told
  <2> QED  BY <2>2, <2>3, <2>5 DEF OutcomeInv, Fresh, HostPhases
<1>4. CASE ~(o = "rejected" \/ NothingToDo)
  <2>1. /\ phase' = "run" /\ read'.body = Seen(conf.fields, stored.body)
        /\ StartFlow(conf.tree,
                     IF conf.host = "resource" THEN Defaulted[read'.body] ELSE read'.body,
                     stored.deleting)
    BY <1>4 DEF Begin
  <2>2. read'.body \in Objects /\ stored.deleting \in BOOLEAN
    BY <2>1, SeenType DEF Inv, HostTypes, Stored
  <2>3. /\ (IF conf.host = "resource" THEN Defaulted[read'.body] ELSE read'.body) \in Objects
        /\ conf.tree \in Programs
    BY <2>2, Constants DEF Inv
  <2>4. FlowInv'  BY <2>1, <2>2, <2>3, StartFlowInv
  <2> QED  BY <2>1, <2>4 DEF OutcomeInv, Fresh, HostPhases, AnswerKept, Ended
<1> QED  BY <1>3, <1>4

LEMMA SendOutcome ==
  ASSUME Inv, OutcomeInv, Send
  PROVE  OutcomeInv'
<1>1. /\ phase = "send" /\ phase' = "hook" /\ UNCHANGED <<conf, answer, said>>
      /\ StartFlow(conf.hook, Defaulted[call.body], FALSE)
  BY DEF Send
<1>2. conf.hook \in Programs /\ Defaulted[call.body] \in Objects
  BY Constants DEF Inv, HostTypes, Sending
<1>3. FlowInv'  BY <1>1, <1>2, StartFlowInv
<1> QED  BY <1>1, <1>3 DEF OutcomeInv, Fresh, HostPhases, AnswerKept, Ended

LEMMA OutcomeNext ==
  ASSUME Inv, OutcomeInv, Next
  PROVE  OutcomeInv'
<1>1. CASE Setup
  <2>1. UNCHANGED <<flowVars, conf, answer, said>> /\ phase = "new" /\ phase' \in {"idle", "refused"}
    BY <1>1 DEF Setup
  <2> QED
    BY <2>1, Unhosted DEF Inv, OutcomeInv, Fresh, HostPhases, AnswerKept, Ended, flowVars
<1>2. CASE Step
  <2>1. FlowStep /\ phase \in {"run", "hook"} /\ UNCHANGED <<conf, phase, answer, said>>
    BY <1>2 DEF Step, requestVars
  <2>2. FlowInv'  BY <2>1, FlowStepInv DEF Inv, OutcomeInv
  <2> QED  BY <2>1, <2>2 DEF OutcomeInv, Fresh, HostPhases, AnswerKept
<1>3. CASE Looks
  BY <1>3, Unhosted DEF Looks, Inv, OutcomeInv, Fresh, HostPhases, AnswerKept, flowVars
<1>4. CASE Ends
  <2>1. /\ stack' = <<>> /\ ret' = Nothing /\ res' = Blank /\ story' = NoStory /\ said' = NoStory
    BY <1>4 DEF Ends, Blanked
  <2>2. NoFlow'  BY <2>1 DEF NoFlow
  <2>3. FlowInv'  BY <2>2, EmptyFlow, PTL
  <2> QED  BY <1>4, <2>1, <2>3 DEF Ends, OutcomeInv, Fresh, HostPhases, AnswerKept, Ended
<1> QED
  BY <1>1, <1>2, <1>3, <1>4, KindsOfSteps, EndTreeOutcome, ProceedsOutcome, BeginOutcome,
     SendOutcome

\* The inductive invariant: until a request is answered, the wishes and errors that
\* count are on the stack of calls or being returned, then in the answer of the host.
THEOREM OutcomeInvariant == Spec => []OutcomeInv
<1>1. Init => OutcomeInv
  <2> SUFFICES ASSUME Init PROVE OutcomeInv
    OBVIOUS
  <2>1. /\ stack = <<>> /\ ret = Nothing /\ res = Blank /\ story = NoStory
        /\ said = NoStory /\ phase = "new"
    BY DEF Init
  <2>3. FlowInv  BY <2>1, EmptyFlow DEF NoFlow
  <2> QED  BY <2>1, <2>3 DEF OutcomeInv, Fresh, HostPhases, AnswerKept, Ended
<1>2. Inv /\ OutcomeInv /\ UNCHANGED vars => OutcomeInv'
  <2> SUFFICES ASSUME Inv, OutcomeInv, UNCHANGED vars PROVE OutcomeInv'
    OBVIOUS
  <2>1. Looks  BY DEF vars, requestVars, Looks
  <2>2. UNCHANGED res  BY DEF vars, flowVars
  <2> QED
    BY <2>1, <2>2, Unhosted DEF Looks, Inv, OutcomeInv, Fresh, HostPhases, AnswerKept
<1>3. Inv /\ OutcomeInv /\ [Next]_vars => OutcomeInv'  BY <1>2, OutcomeNext
<1> QED  BY <1>1, <1>3, RequestsInvariant, PTL DEF Spec

\* When nothing failed the work queue is told the shortest requeue time that any sub
\* reconciler asked for, through every nesting of Sequence, While, TryCatch and the
\* others (AggregateResults), for every tree.
THEOREM RequeueIsKept == Spec => []RequeueKept
<1>1. Inv /\ OutcomeInv => RequeueKept
  <2> SUFFICES ASSUME Inv, OutcomeInv, phase = "done", answer.err = {}, said.raised = {}, ~said.caught
               PROVE  LET times == {r.after : r \in said.asked} \ {0}
                      IN  /\ answer.result.requeue = (\E r \in said.asked : r.requeue)
                          /\ IF times = {} THEN answer.result.after = 0
                             ELSE /\ answer.result.after \in times
                                  /\ \A t \in times : answer.result.after <= t
    BY DEF RequeueKept
  <2>1. Told(said.asked, {answer.result})  BY DEF OutcomeInv, AnswerKept, Ended
  <2>2. /\ answer.result.requeue \in BOOLEAN /\ answer.result.after \in Nat
        /\ \A r \in said.asked : r.after \in Nat
    BY DEF Inv, HostTypes, Story, Result
  <2>3. answer.result.requeue = (\E r \in said.asked : r.requeue)  BY <2>1, <2>2 DEF Told
  <2> DEFINE times == {r.after : r \in said.asked} \ {0}
  <2>4. answer.result.after # 0 => answer.result.after \in times  BY <2>1, <2>2 DEF Told
  <2>5. \A t \in times : answer.result.after # 0 /\ answer.result.after <= t
    BY <2>1, <2>2 DEF Told
  <2>6. IF times = {} THEN answer.result.after = 0
        ELSE answer.result.after \in times /\ \A t \in times : answer.result.after <= t
    BY <2>4, <2>5
  <2> QED  BY <2>3, <2>6
<1> QED  BY <1>1, RequestsInvariant, OutcomeInvariant, PTL

\* Whatever error a sub reconciler returned, the request fails, unless a Catch
\* suppressed it or ErrHaltSubReconcilers is about: on an error every reconciler
\* between returns it, and the hosts do.
THEOREM FailuresDoSurface == Spec => []FailuresSurface
<1>1. OutcomeInv => FailuresSurface
  BY DEF OutcomeInv, AnswerKept, Ended, FailuresSurface
<1> QED  BY <1>1, OutcomeInvariant, PTL


-----------------------------------------------------------------------------
(* Changes: the types along the calls. *)

LEMMA ChainAppend ==
  ASSUME NEW S, NEW s \in Seq(S), NEW f \in S
  PROVE  /\ TypeAt(Append(s, f)) = TypeOf(f)
         /\ Chain(Append(s, f)) =>
              /\ Chain(s) /\ NodeOf(f).fields = TypeAt(s)
              /\ TypeOf(f) \subseteq RootType
              /\ \A g \in Range(s) : TypeOf(f) \subseteq TypeOf(g)
         /\ Chain(s) /\ NodeOf(f).fields = TypeAt(s) /\ TypeOf(f) \subseteq NodeOf(f).fields =>
              Chain(Append(s, f))
<1> DEFINE t == Append(s, f)
           n == Len(s)
<1>1. /\ t \in Seq(S) /\ t # <<>> /\ Len(t) = n + 1 /\ n \in Nat
      /\ t[n + 1] = f /\ \A i \in 1 .. n : t[i] = s[i]
  BY Pushed
<1>2. s = <<>> <=> n = 0  BY EmptySeq
<1>3. TypeAt(t) = TypeOf(f)  BY <1>1 DEF TypeAt
<1>4. TypeAt(s) = IF n + 1 = 1 THEN RootType ELSE TypeOf(t[n + 1 - 1])
  BY <1>1, <1>2 DEF TypeAt
<1>5. Range(s) = {s[i] : i \in 1 .. n}  BY RangeEquality
<1> HIDE DEF t, n
<1>6. ASSUME Chain(t)
      PROVE  /\ Chain(s) /\ NodeOf(f).fields = TypeAt(s) /\ TypeOf(f) \subseteq RootType
             /\ \A g \in Range(s) : TypeOf(f) \subseteq TypeOf(g)
  <2>1. n + 1 \in 1 .. Len(t) /\ \A i \in 1 .. n : i \in 1 .. Len(t) /\ i <= n + 1  BY <1>1
  <2>2. NodeOf(f).fields = TypeAt(s) /\ TypeOf(f) \subseteq RootType
    BY <1>1, <1>4, <1>6, <2>1 DEF Chain
  <2>3. \A i \in 1 .. n : TypeOf(f) \subseteq TypeOf(s[i])
    BY <1>1, <1>6, <2>1 DEF Chain
  <2>4. ASSUME NEW i \in 1 .. n
        PROVE  NodeOf(s[i]).fields = IF i = 1 THEN RootType ELSE TypeOf(s[i - 1])
    <3>1. NodeOf(t[i]).fields = IF i = 1 THEN RootType ELSE TypeOf(t[i - 1])
      BY <1>6, <2>1 DEF Chain
    <3>2. i # 1 => i - 1 \in 1 .. n  BY <1>1
    <3> QED  BY <1>1, <3>1, <3>2
  <2>5. Chain(s)  BY <1>1, <1>6, <2>1, <2>4 DEF Chain, n
  <2> QED  BY <1>5, <2>2, <2>3, <2>5
<1>7. ASSUME Chain(s), NodeOf(f).fields = TypeAt(s), TypeOf(f) \subseteq NodeOf(f).fields
      PROVE  Chain(t)
  <2>1. ASSUME NEW i \in 1 .. Len(t)
        PROVE  NodeOf(t[i]).fields = IF i = 1 THEN RootType ELSE TypeOf(t[i - 1])
    <3>1. CASE i = n + 1  BY <1>1, <1>4, <1>7, <3>1
    <3>2. CASE i \in 1 .. n
      <4>1. i # 1 => i - 1 \in 1 .. n  BY <1>1, <3>2
      <4>2. NodeOf(s[i]).fields = IF i = 1 THEN RootType ELSE TypeOf(s[i - 1])
        BY <1>7, <3>2 DEF Chain, n
      <4> QED  BY <1>1, <3>2, <4>1, <4>2
    <3> QED  BY <1>1, <3>1, <3>2
  <2>2. \A i \in 1 .. n : TypeOf(s[i]) \subseteq RootType  BY <1>7 DEF Chain, n
  <2>3. TypeOf(f) \subseteq RootType
    BY <1>1, <1>2, <1>7, <2>2 DEF TypeAt, n
  <2>4. ASSUME NEW i \in 1 .. n PROVE TypeOf(f) \subseteq TypeOf(s[i])
    <3>1. n # 0 /\ n \in 1 .. n /\ i <= n  BY <1>1
    <3>2. TypeOf(s[n]) \subseteq TypeOf(s[i])  BY <1>7, <3>1 DEF Chain, n
    <3>3. TypeAt(s) = TypeOf(s[n])  BY <1>2, <3>1 DEF TypeAt, n
    <3> QED  BY <1>7, <3>2, <3>3
  <2>5. ASSUME NEW i \in 1 .. Len(t), NEW j \in 1 .. Len(t), i <= j
        PROVE  TypeOf(t[j]) \subseteq TypeOf(t[i])
    <3>1. CASE j \in 1 .. n
      <4>1. i \in 1 .. n  BY <1>1, <2>5, <3>1
      <4> QED  BY <1>1, <1>7, <2>5, <3>1, <4>1 DEF Chain, n
    <3>2. CASE j = n + 1 /\ i \in 1 .. n  BY <1>1, <2>4, <3>2
    <3>3. CASE j = n + 1 /\ i = n + 1  BY <3>3
    <3> QED  BY <1>1, <3>1, <3>2, <3>3
  <2>6. \A i \in 1 .. Len(t) : TypeOf(t[i]) \subseteq RootType
    <3> SUFFICES ASSUME NEW i \in 1 .. Len(t) PROVE TypeOf(t[i]) \subseteq RootType
      OBVIOUS
    <3>1. i = n + 1 \/ i \in 1 .. n  BY <1>1
    <3> QED  BY <1>1, <2>2, <2>3, <3>1
  <2> QED  BY <2>1, <2>5, <2>6 DEF Chain
<1> QED  BY <1>3, <1>6, <1>7 DEF t

\* The type of the innermost call is among those of the calls around it.
LEMMA ChainOuter ==
  ASSUME FlowTypes, stack # <<>>, Chain(stack)
  PROVE  /\ Level = TypeOf(Top) /\ Level \subseteq RootType
         /\ Chain(Outer) /\ NodeOf(Top).fields = TypeAt(Outer)
         /\ \A f \in Range(Outer) : Level \subseteq TypeOf(f)
<1>1. Outer \in Seq(Frames(prog)) /\ Top \in Frames(prog) /\ stack = Append(Outer, Top)  BY Split
<1>2. Chain(Append(Outer, Top))  BY <1>1
<1> DEFINE s == Outer
           f == Top
<1> HIDE DEF s, f
<1>3. /\ TypeAt(Append(s, f)) = TypeOf(f)
      /\ Chain(s) /\ NodeOf(f).fields = TypeAt(s) /\ TypeOf(f) \subseteq RootType
      /\ \A g \in Range(s) : TypeOf(f) \subseteq TypeOf(g)
  BY <1>1, <1>2, ChainAppend DEF s, f
<1> QED  BY <1>1, <1>3 DEF s, f, Level

LEMMA ChainNext ==
  ASSUME FlowTypes, UNCHANGED prog, NEW t, stack' = t
  PROVE  (Chain(stack)' <=> Chain(t)) /\ Level' = TypeAt(t)
<1>1. \A f : NodeOf(f)' = NodeOf(f) /\ TypeOf(f)' = TypeOf(f)  BY Constant
<1>2. RootType' = RootType  BY Constant
<1>3. Level' = TypeAt(t)  BY <1>1, <1>2 DEF Level, TypeAt
<1>4. Chain(stack)' <=> Chain(t)
  BY <1>1, <1>2 DEF Chain
<1> QED  BY <1>3, <1>4

\* The types of trees: a cast aside, what is called has the type of the caller.
LEMMA SubType ==
  ASSUME FlowTypes, stack # <<>>, Reconciler.kind # "cast" \/ Reconciler.flag,
         NEW i \in DOMAIN Reconciler.subs, Reconciler.subs[i] # 0
  PROVE  Tree[prog][Reconciler.subs[i]].fields = Reconciler.fields
<1>1. prog \in Programs /\ Top.node \in DOMAIN Tree[prog]  BY Current DEF FlowTypes, Frames
<1>2. Reconciler.subs[i] \in {Reconciler.subs[j] : j \in DOMAIN Reconciler.subs} \ {0}
  OBVIOUS
<1>3. \A m \in {Reconciler.subs[j] : j \in DOMAIN Reconciler.subs} \ {0} :
        Tree[prog][m].fields = Reconciler.fields
  BY <1>1, TypeAssumption DEF Reconciler
<1> QED  BY <1>2, <1>3

LEMMA AuthorType ==
  ASSUME FlowTypes, stack # <<>>, HasType(res, Reconciler.fields),
         NEW o \in Reconciler.does[res] \cup Reconciler.ends[res]
  PROVE  HasType(o.obj, Reconciler.fields)
BY Current, TypeAssumption DEF FlowTypes, Reconciler, Frames


-----------------------------------------------------------------------------
(* Changes: what a step does to the resource.                                *)

LEMMA TypeMeans ==
  ASSUME NEW obj \in Objects, NEW fields
  PROVE  /\ HasType(obj, fields) <=> \A k \in Keys : k \notin fields => obj[k] = Unset
         /\ Seen(fields, obj) \in Objects /\ HasType(Seen(fields, obj), fields)
<1>1. obj = [k \in Keys |-> obj[k]]  BY ObjectAssumption
<1>2. Seen(fields, obj) \in Objects  BY SeenType
<1>3. HasType(Seen(fields, obj), fields)  BY DEF HasType, Seen
<1>4. ASSUME \A k \in Keys : k \notin fields => obj[k] = Unset PROVE HasType(obj, fields)
  <2>1. Seen(fields, obj) = [k \in Keys |-> obj[k]]  BY <1>4 DEF Seen
  <2> QED  BY <1>1, <2>1 DEF HasType
<1>5. ASSUME HasType(obj, fields), NEW k \in Keys, k \notin fields PROVE obj[k] = Unset
  BY <1>5 DEF HasType, Seen
<1> QED  BY <1>2, <1>3, <1>4, <1>5

LEMMA SameObject ==
  ASSUME NEW a \in Objects, NEW b \in Objects, NEW fields,
         HasType(a, fields), HasType(b, fields), \A k \in fields : a[k] = b[k]
  PROVE  a = b
<1>1. a = [k \in Keys |-> a[k]] /\ b = [k \in Keys |-> b[k]]  BY ObjectAssumption
<1>2. \A k \in Keys : a[k] = b[k]  BY TypeMeans
<1> QED  BY <1>1, <1>2

LEMMA NodeTypes ==
  ASSUME FlowTypes, NEW f \in Frames(prog)
  PROVE  NodeOf(f) \in Node /\ NodeOf(f).fields \subseteq Keys
<1>1. f.node \in DOMAIN Tree[prog] /\ Tree[prog] \in Seq(Node)
  BY ProgramAssumption DEF Frames, FlowTypes
<1>2. NodeOf(f) \in Node  BY <1>1, ElementOfSeq, LenProperties DEF NodeOf
<1> QED  BY <1>2 DEF Node

\* An author's function, or nobody, changed the resource.
Advanced ==
  /\ HasType(res', Level) /\ HasType(story'.written, RootType)
  /\ \A k \in Keys \ Level : story'.written[k] = story.written[k]
  /\ "patch" \in story.raised => "patch" \in story'.raised
  /\ "patch" \notin story'.raised => \A k \in Level : res'[k] = story'.written[k]

Intact == Chain(stack) /\ ObjectsTyped /\ FieldsKept

LEMMA ObjectNext ==
  ASSUME FlowTypes, stack # <<>>, UNCHANGED prog, Intact,
         NEW t, stack' = t, NEW N \in SUBSET Frames(prog), Range(t) = Range(Outer) \cup N,
         Chain(t), HasType(res', TypeAt(t)), HasType(story'.written, RootType),
         \A k \in Keys \ Level : story'.written[k] = story.written[k],
         "patch" \in story.raised => "patch" \in story'.raised,
         "patch" \notin story'.raised => \A k \in TypeAt(t) : res'[k] = story'.written[k],
         \A f \in N : Casting(f) =>
           /\ HasType(f.saved, NodeOf(f).fields)
           /\ "patch" \notin story'.raised =>
                \A k \in NodeOf(f).fields \ TypeOf(f) : f.saved[k] = story'.written[k]
  PROVE  ObjectInv'
<1>1. /\ Range(stack) = Range(Outer) \cup {Top}
      /\ Range(Outer) \subseteq Frames(prog)
      /\ \A f \in Range(Outer) : Level \subseteq TypeOf(f)
  BY Split, ChainOuter DEF Intact
<1>2. Chain(stack)' /\ Level' = TypeAt(t)  BY ChainNext
<1>3. RootType' = RootType /\ \A f : /\ NodeOf(f)' = NodeOf(f) /\ TypeOf(f)' = TypeOf(f)
                                     /\ Casting(f)' <=> Casting(f)
  BY Constant
<1>4. ASSUME NEW f \in Range(t), Casting(f)
      PROVE  /\ HasType(f.saved, NodeOf(f).fields)
             /\ "patch" \notin story'.raised =>
                  \A k \in NodeOf(f).fields \ TypeOf(f) : f.saved[k] = story'.written[k]
  <2>1. CASE f \in N  BY <1>4, <2>1
  <2>2. CASE f \in Range(Outer)
    <3>1. HasType(f.saved, NodeOf(f).fields)
      BY <1>1, <1>4, <2>2 DEF Intact, ObjectsTyped, SavedOK
    <3>2. ASSUME "patch" \notin story'.raised, NEW k \in NodeOf(f).fields \ TypeOf(f)
          PROVE  f.saved[k] = story'.written[k]
      <4>1. f.saved[k] = story.written[k]
        BY <1>1, <1>4, <2>2, <3>2 DEF Intact, FieldsKept, SavedKept
      <4>2. k \in Keys \ Level  BY <1>1, <2>2, <3>2, NodeTypes
      <4> QED  BY <4>1, <4>2
    <3> QED  BY <3>1, <3>2
  <2> QED  BY <1>4, <2>1, <2>2
<1>5. ObjectsTyped'
  BY <1>2, <1>3, <1>4 DEF ObjectsTyped, SavedOK
<1>6. FieldsKept'
  BY <1>2, <1>3, <1>4 DEF FieldsKept, SavedKept
<1> QED  BY <1>2, <1>5, <1>6 DEF ObjectInv

LEMMA ReturnObject ==
  ASSUME FlowTypes, stack # <<>>, UNCHANGED prog, Intact, ~Casting(Top), Advanced, stack' = Outer
  PROVE  ObjectInv'
<1>1. /\ Chain(Outer) /\ TypeAt(Outer) = Level
      /\ Range(Outer) = Range(Outer) \cup {}
  BY ChainOuter DEF Intact, TypeOf
<1>2. {} \in SUBSET Frames(prog)  OBVIOUS
<1> QED  BY <1>1, <1>2, ObjectNext DEF Advanced

LEMMA BecomeObject ==
  ASSUME FlowTypes, stack # <<>>, UNCHANGED prog, Intact, ~Casting(Top), Advanced,
         NEW f \in Frames(prog), ~Casting(f), NodeOf(f).fields = NodeOf(Top).fields,
         stack' = Append(Outer, f)
  PROVE  ObjectInv'
<1>1. /\ Chain(Outer) /\ NodeOf(f).fields = TypeAt(Outer) /\ TypeOf(f) = NodeOf(f).fields
      /\ TypeOf(f) = Level
  BY ChainOuter DEF Intact, TypeOf
<1>2. Outer \in Seq(Frames(prog))  BY Split
<1> DEFINE t == Append(Outer, f)
<1>3. Chain(t) /\ TypeAt(t) = Level  BY <1>1, <1>2, ChainAppend
<1>4. Range(t) = Range(Outer) \cup {f}  BY <1>2, Pushed
<1>5. stack' = t /\ {f} \in SUBSET Frames(prog)  OBVIOUS
<1> HIDE DEF t
<1> QED  BY <1>3, <1>4, <1>5, ObjectNext DEF Advanced

LEMMA CallObject ==
  ASSUME FlowTypes, stack # <<>>, UNCHANGED prog, Intact, ~Casting(Top), Advanced,
         NEW f \in Frames(prog), ~Casting(f), NodeOf(f).fields = NodeOf(Top).fields,
         NEW g \in Frames(prog), ~Casting(g), NodeOf(g).fields = NodeOf(Top).fields,
         stack' = Outer \o <<f, g>>
  PROVE  ObjectInv'
<1>1. /\ Chain(Outer) /\ NodeOf(f).fields = TypeAt(Outer) /\ TypeOf(f) = NodeOf(f).fields
      /\ TypeOf(g) = NodeOf(g).fields /\ TypeOf(f) = Level /\ TypeOf(g) = Level
  BY ChainOuter DEF Intact, TypeOf
<1>2. Outer \in Seq(Frames(prog))  BY Split
<1> DEFINE u == Append(Outer, f)
           t == Append(u, g)
<1>3. Chain(u) /\ TypeAt(u) = Level  BY <1>1, <1>2, ChainAppend
<1>4. u \in Seq(Frames(prog))  BY <1>2
<1>5. Outer \o <<f, g>> = t /\ Range(t) = Range(Outer) \cup {f, g}
  <2>1. LET q == Outer \o <<f, g>> IN q = t /\ Range(q) = Range(Outer) \cup {f, g}
    BY <1>2, PushedTwice
  <2> QED  BY <2>1
<1> HIDE DEF u
<1>6. Chain(t) /\ TypeAt(t) = Level  BY <1>1, <1>3, <1>4, ChainAppend
<1>7. stack' = t /\ {f, g} \in SUBSET Frames(prog)  BY <1>5
<1> HIDE DEF t
<1> QED  BY <1>5, <1>6, <1>7, ObjectNext DEF Advanced


\* Nobody changed it.
LEMMA IdleAdvances ==
  ASSUME FlowTypes, stack # <<>>, Intact, UNCHANGED res, story'.written = story.written,
         "patch" \in story'.raised <=> "patch" \in story.raised
  PROVE  Advanced
BY DEF Intact, ObjectsTyped, FieldsKept, Advanced

LEMMA AuthorAdvances ==
  ASSUME FlowTypes, stack # <<>>, Intact, ~Casting(Top),
         NEW o \in Reconciler.does[res] \cup Reconciler.ends[res], res' = o.obj,
         story'.written = Applied(res, o.obj, story.written),
         story.raised \subseteq story'.raised
  PROVE  Advanced
<1>1. /\ Level = Reconciler.fields /\ Level \subseteq RootType
  BY ChainOuter DEF Intact, TypeOf, NodeOf, Reconciler
<1>2. /\ HasType(res, Level) /\ HasType(story.written, RootType)
      /\ res \in Objects /\ story.written \in Objects
  BY DEF Intact, ObjectsTyped, FlowTypes, Story
<1>3. HasType(o.obj, Level)  BY <1>1, <1>2, AuthorType
<1>4. o.obj \in Objects  BY Current DEF FlowTypes, Node, Outcome
<1>5. /\ story'.written \in Objects
      /\ \A k \in Keys : story'.written[k] = IF o.obj[k] # res[k] THEN o.obj[k] ELSE story.written[k]
  BY <1>2, <1>4, AppliedType DEF Applied
<1>6. \A k \in Keys : k \notin Level => o.obj[k] = Unset /\ res[k] = Unset
  BY <1>2, <1>3, <1>4, TypeMeans
<1>7. \A k \in Keys \ Level : story'.written[k] = story.written[k]  BY <1>5, <1>6
<1>8. HasType(story'.written, RootType)
  <2>1. \A k \in Keys : k \notin RootType => story.written[k] = Unset  BY <1>2, TypeMeans
  <2>2. \A k \in Keys : k \notin RootType => story'.written[k] = Unset  BY <1>1, <1>7, <2>1
  <2> QED  BY <1>5, <2>2, TypeMeans
<1>9. ASSUME "patch" \notin story'.raised, NEW k \in Level
      PROVE  res'[k] = story'.written[k]
  <2>1. res[k] = story.written[k]  BY <1>9 DEF Intact, FieldsKept
  <2>2. k \in Keys  BY <1>1, <1>9, Current DEF Node
  <2> QED  BY <1>5, <2>1, <2>2
<1> QED  BY <1>3, <1>7, <1>8, <1>9 DEF Advanced

LEMMA SameNode ==
  ASSUME FlowTypes, stack # <<>>, Reconciler.kind # "cast", NEW f, f.node = Top.node
  PROVE  ~Casting(f) /\ ~Casting(Top) /\ NodeOf(f).fields = NodeOf(Top).fields
BY DEF Casting, NodeOf, Reconciler

LEMMA SubFrame ==
  ASSUME FlowTypes, stack # <<>>, Reconciler.kind # "cast" \/ Reconciler.flag,
         NEW i \in DOMAIN Reconciler.subs, Reconciler.subs[i] # 0
  PROVE  LET g == NewFrame(Reconciler.subs[i])
         IN  g \in Frames(prog) /\ ~Casting(g) /\ NodeOf(g).fields = NodeOf(Top).fields
<1> DEFINE n == Reconciler.subs[i]
<1>1. n \in DOMAIN Tree[prog]  BY Current
<1>2. Tree[prog][n].fields = Reconciler.fields  BY SubType
<1> HIDE DEF n
<1>3. NewFrame(n) \in Frames(prog) /\ ~Casting(NewFrame(n)) /\ NewFrame(n).node = n
  BY <1>1, NewFrameOK DEF NewFrame
<1> QED  BY <1>2, <1>3 DEF n, NodeOf, Reconciler

LEMMA PanicObject ==
  ASSUME FlowTypes, Panic
  PROVE  ObjectInv'
BY DEF Panic, FlowTypes, Story, ObjectInv

\* Steps that neither change the resource nor fail to patch it.
LEMMA PassReturn ==
  ASSUME FlowTypes, stack # <<>>, UNCHANGED prog, Intact, ~Casting(Top),
         stack' = Outer, UNCHANGED res, story'.written = story.written,
         "patch" \in story'.raised <=> "patch" \in story.raised
  PROVE  ObjectInv'
BY IdleAdvances, ReturnObject

LEMMA PassBecome ==
  ASSUME FlowTypes, stack # <<>>, UNCHANGED prog, Intact, ~Casting(Top),
         Reconciler.kind # "cast" \/ Reconciler.flag,
         NEW i \in DOMAIN Reconciler.subs, Become(Reconciler.subs[i])
  PROVE  ObjectInv'
<1> DEFINE n == Reconciler.subs[i]
<1>1. CASE n = 0  BY <1>1, PanicObject DEF Become
<1>2. CASE n # 0
  <2>1. stack' = Append(Outer, NewFrame(n)) /\ UNCHANGED <<res, story>>
    BY <1>2 DEF Become
  <2>2. /\ NewFrame(n) \in Frames(prog) /\ ~Casting(NewFrame(n))
        /\ NodeOf(NewFrame(n)).fields = NodeOf(Top).fields
    BY <1>2, SubFrame
  <2>3. Advanced  BY <2>1, IdleAdvances
  <2> QED  BY <2>1, <2>2, <2>3, BecomeObject
<1> QED  BY <1>1, <1>2

LEMMA PassCall ==
  ASSUME FlowTypes, stack # <<>>, UNCHANGED prog, Intact, Reconciler.kind # "cast",
         NEW i \in DOMAIN Reconciler.subs,
         NEW f \in Frames(prog), f.node = Top.node, Call(f, Reconciler.subs[i])
  PROVE  ObjectInv'
<1> DEFINE n == Reconciler.subs[i]
<1>1. CASE n = 0  BY <1>1, PanicObject DEF Call, CallWith
<1>2. CASE n # 0
  <2>1. stack' = Outer \o <<f, NewFrame(n)>> /\ UNCHANGED <<res, story>>
    BY <1>2 DEF Call, CallWith
  <2>2. /\ NewFrame(n) \in Frames(prog) /\ ~Casting(NewFrame(n))
        /\ NodeOf(NewFrame(n)).fields = NodeOf(Top).fields
    BY <1>2, SubFrame
  <2>3. ~Casting(f) /\ ~Casting(Top) /\ NodeOf(f).fields = NodeOf(Top).fields  BY SameNode
  <2>4. Advanced  BY <2>1, IdleAdvances
  <2> QED  BY <2>1, <2>2, <2>3, <2>4, CallObject
<1> QED  BY <1>1, <1>2


LEMMA LoopObject ==
  ASSUME FlowTypes, stack # <<>>, UNCHANGED prog, Intact, Sequence \/ While
  PROVE  ObjectInv'
<1> DEFINE acc == IF Reconciler.kind = "sequence" THEN AggregateResults(ret.result, Top.acc)
                                                  ELSE AggregateResults(Top.acc, ret.result)
           f == [Top EXCEPT !.at = Top.at + 1, !.acc = acc]
           i == IF Reconciler.kind = "sequence" THEN Top.at + 1 ELSE 1
<1>1. Reconciler.kind \in {"sequence", "while"}  BY DEF Sequence, While
<1>2. ~Casting(Top)  BY <1>1, SameNode
<1>3. \/ stack' = Outer /\ UNCHANGED <<res, story>>
      \/ stack' = Outer /\ Raise({"limit"}) /\ UNCHANGED res
      \/ Call(f, Reconciler.subs[i]) /\ (Reconciler.kind = "sequence" => Top.at # Len(Reconciler.subs))
      \/ Panic
  BY DEF Sequence, While, Return
<1>4. CASE stack' = Outer /\ UNCHANGED <<res, story>>  BY <1>2, <1>4, PassReturn
<1>5. CASE stack' = Outer /\ Raise({"limit"}) /\ UNCHANGED res
  <2>1. story'.written = story.written /\ story'.raised = story.raised \cup {"limit"}
    BY <1>5 DEF Raise, FlowTypes, Story
  <2> QED  BY <1>2, <1>5, <2>1, PassReturn
<1>6. CASE Call(f, Reconciler.subs[i]) /\ (Reconciler.kind = "sequence" => Top.at # Len(Reconciler.subs))
  <2>1. Top \in Frame /\ Top \in Frames(prog) /\ ret.result \in Result /\ Top.at \in Nat
        /\ Top.err \in Err /\ Top.acc \in Result
    BY Current DEF FlowTypes, Frame
  <2>2. acc \in Result  BY <2>1, AggregateType
  <2>3. /\ Reconciler.kind = "sequence" => Top.at + 1 <= Len(Reconciler.subs)
        /\ i \in DOMAIN Reconciler.subs
    BY <1>1, <1>6, <2>1, Current DEF Fields
  <2> HIDE DEF acc
  <2>4. f \in Frame /\ f.node = Top.node /\ f.at = Top.at + 1
    <3>1. Top.at + 1 \in Nat  BY <2>1
    <3> QED  BY <2>1, <2>2, <3>1 DEF Frame
  <2>5. f \in Frames(prog)  BY <2>1, <2>3, <2>4, FrameMoves DEF Reconciler
  <2> HIDE DEF f, i
  <2> QED  BY <1>1, <1>6, <2>3, <2>4, <2>5, PassCall
<1> QED  BY <1>3, <1>4, <1>5, <1>6, PanicObject

LEMMA PassObject ==
  ASSUME FlowTypes, stack # <<>>, UNCHANGED prog, Intact, IfThen \/ OverrideSetup \/ WithConfig
  PROVE  ObjectInv'
<1>1. Reconciler.kind \in {"ifthen", "override", "config"}
  BY DEF IfThen, OverrideSetup, WithConfig
<1>2. /\ ~Casting(Top) /\ 1 \in DOMAIN Reconciler.subs
      /\ Reconciler.kind = "ifthen" => 2 \in DOMAIN Reconciler.subs
  BY <1>1, SameNode, Current DEF Fields
<1>3. \/ \E i \in DOMAIN Reconciler.subs : Become(Reconciler.subs[i])
      \/ stack' = Outer /\ UNCHANGED <<res, story>>
      \/ stack' = Outer /\ Raise({"fail"}) /\ UNCHANGED res
      \/ Panic
  BY <1>2 DEF IfThen, OverrideSetup, WithConfig, Return
<1>4. CASE stack' = Outer /\ Raise({"fail"}) /\ UNCHANGED res
  <2>1. story'.written = story.written /\ story'.raised = story.raised \cup {"fail"}
    BY <1>4 DEF Raise, FlowTypes, Story
  <2> QED  BY <1>2, <1>4, <2>1, PassReturn
<1> QED  BY <1>1, <1>2, <1>3, <1>4, PassReturn, PassBecome, PanicObject

\* Finally is called, or the TryCatch returns.
LEMMA LeaveObject ==
  ASSUME FlowTypes, stack # <<>>, UNCHANGED prog, Intact, Reconciler.kind = "trycatch",
         NEW r \in Result, NEW e \in Err, Leave(r, e), Advanced
  PROVE  ObjectInv'
<1> DEFINE f == [Top EXCEPT !.at = 2, !.acc = r, !.err = e]
           g == NewFrame(Reconciler.subs[2])
<1>1. ~Casting(Top) /\ 2 \in DOMAIN Reconciler.subs  BY SameNode, Current DEF Fields
<1>2. CASE Reconciler.subs[2] = 0  BY <1>1, <1>2, ReturnObject DEF Leave, Return
<1>3. CASE Reconciler.subs[2] # 0
  <2>1. stack' = Outer \o <<f, g>>  BY <1>3 DEF Leave
  <2>2. f \in Frames(prog) /\ f.node = Top.node  BY TopMoves, Current DEF Frame
  <2>3. g \in Frames(prog) /\ ~Casting(g) /\ NodeOf(g).fields = NodeOf(Top).fields
    BY <1>1, <1>3, SubFrame
  <2> HIDE DEF f, g
  <2>4. ~Casting(f) /\ NodeOf(f).fields = NodeOf(Top).fields  BY <2>2, SameNode
  <2> QED  BY <1>1, <2>1, <2>2, <2>3, <2>4, CallObject
<1> QED  BY <1>2, <1>3

LEMMA TryCatchObject ==
  ASSUME FlowTypes, stack # <<>>, UNCHANGED prog, Intact,
         Try \/ Propagate \/ Finally \/ \E o \in Reconciler.does[res] : Catch(o)
  PROVE  ObjectInv'
<1>1. Reconciler.kind = "trycatch"  BY DEF Try, Propagate, Finally, Catch
<1>2. /\ ~Casting(Top) /\ 1 \in DOMAIN Reconciler.subs /\ Top \in Frame /\ Top \in Frames(prog)
      /\ ret.result \in Result /\ ret.err \in Err
  BY <1>1, SameNode, Current DEF Fields, FlowTypes
<1>3. CASE Try
  <2> DEFINE f == [Top EXCEPT !.at = 1]
  <2>1. f \in Frame /\ f.node = Top.node  BY <1>2 DEF Frame
  <2>2. f \in Frames(prog)  BY <1>1, <1>2, <2>1, FrameMoves DEF Reconciler
  <2>3. Call(f, Reconciler.subs[1])  BY <1>3 DEF Try
  <2> HIDE DEF f
  <2> QED  BY <1>1, <1>2, <2>1, <2>2, <2>3, PassCall
<1>4. CASE Propagate
  <2>1. Advanced /\ Leave(ret.result, ret.err)  BY <1>4, IdleAdvances DEF Propagate
  <2> QED  BY <1>1, <1>2, <2>1, LeaveObject
<1>5. CASE Finally  BY <1>2, <1>5, PassReturn DEF Finally, Return
<1>6. ASSUME NEW o \in Reconciler.does[res], Catch(o) PROVE ObjectInv'
  <2>1. /\ res' = o.obj /\ story'.written = Applied(res, o.obj, story.written)
        /\ story.raised \subseteq story'.raised
    BY <1>6 DEF Catch, FlowTypes, Story
  <2>2. o.result \in Result /\ o.err \in Err  BY Current DEF FlowTypes, Node, Outcome
  <2>3. Advanced  BY <1>2, <2>1, AuthorAdvances
  <2> QED  BY <1>1, <1>6, <2>2, <2>3, LeaveObject DEF Catch
<1> QED  BY <1>3, <1>4, <1>5, <1>6

LEMMA SyncObject ==
  ASSUME FlowTypes, stack # <<>>, UNCHANGED prog, Intact, Sync \/ Finalize
  PROVE  ObjectInv'
<1>1. Reconciler.kind = "sync"  BY DEF Sync, Finalize
<1>2. ~Casting(Top) /\ Top \in Frame /\ Top \in Frames(prog)  BY <1>1, SameNode, Current
<1>3. ASSUME NEW o \in Reconciler.does[res] \cup Reconciler.ends[res], Does(o)
      PROVE  Advanced
  <2>1. /\ res' = o.obj /\ story'.written = Applied(res, o.obj, story.written)
        /\ story.raised \subseteq story'.raised
    BY <1>3 DEF Does, FlowTypes, Story
  <2> QED  BY <1>2, <2>1, AuthorAdvances
<1>4. CASE stack' = Outer /\ UNCHANGED <<res, story>>  BY <1>2, <1>4, PassReturn
<1>5. ASSUME NEW o \in Reconciler.does[res] \cup Reconciler.ends[res], Does(o), stack' = Outer
      PROVE  ObjectInv'
  BY <1>2, <1>3, <1>5, ReturnObject
<1>6. ASSUME NEW o \in Reconciler.does[res], Does(o),
             stack' = Append(Outer, [Top EXCEPT !.at = 1, !.acc = o.result])
      PROVE  ObjectInv'
  <2> DEFINE f == [Top EXCEPT !.at = 1, !.acc = o.result]
  <2>1. o.result \in Result  BY Current DEF FlowTypes, Node, Outcome
  <2>2. f \in Frame /\ f.node = Top.node  BY <1>2, <2>1 DEF Frame
  <2>3. f \in Frames(prog)  BY <1>1, <1>2, <2>2, FrameMoves DEF Reconciler
  <2>4. stack' = Append(Outer, f)  BY <1>6
  <2> HIDE DEF f
  <2>5. ~Casting(f) /\ NodeOf(f).fields = NodeOf(Top).fields  BY <1>1, <2>2, SameNode
  <2> QED  BY <1>2, <1>3, <1>6, <2>3, <2>4, <2>5, BecomeObject
<1>7. CASE Panic  BY <1>7, PanicObject
<1>8. CASE Sync  BY <1>5, <1>6, <1>7, <1>8 DEF Sync, Return
<1>9. CASE Finalize  BY <1>4, <1>5, <1>9 DEF Finalize, Return
<1> QED  BY <1>8, <1>9


LEMMA CastObject ==
  ASSUME FlowTypes, stack # <<>>, UNCHANGED prog, Intact, CastsNarrow, Cast
  PROVE  ObjectInv'
<1> DEFINE n == Reconciler.subs[1]
           f == [Top EXCEPT !.at = 1, !.saved = res]
           g == NewFrame(n)
<1>1. /\ Reconciler.kind = "cast" /\ Top.at = 0 /\ 1 \in DOMAIN Reconciler.subs
      /\ Top \in Frame /\ Top \in Frames(prog) /\ res \in Objects
  BY Current DEF Cast, Fields, FlowTypes
<1>2. ~Casting(Top) /\ Level = Reconciler.fields /\ Reconciler.fields \subseteq Keys
      /\ Chain(Outer) /\ Reconciler.fields = TypeAt(Outer)
  BY <1>1, ChainOuter, Current DEF Casting, Intact, TypeOf, NodeOf, Reconciler, Node
<1>3. CASE Reconciler.flag /\ Become(n)  BY <1>1, <1>2, <1>3, PassBecome
<1>4. CASE Return(NoResult, {"cast"}) /\ Raise({"cast"}) /\ UNCHANGED res
  <2>1. story'.written = story.written /\ story'.raised = story.raised \cup {"cast"}
    BY <1>4 DEF Raise, FlowTypes, Story
  <2> QED  BY <1>2, <1>4, <2>1, PassReturn DEF Return
<1>5. CASE n = 0 /\ CallWith(f, n, Seen(CastType, res))  BY <1>5, PanicObject DEF CallWith
<1>6. CASE n # 0 /\ ~Reconciler.flag /\ CallWith(f, n, Seen(CastType, res))
  <2>1. stack' = Outer \o <<f, g>> /\ res' = Seen(CastType, res) /\ UNCHANGED story
    BY <1>6 DEF CallWith
  <2>2. f \in Frame /\ f.node = Top.node /\ f.at = 1 /\ f.saved = res  BY <1>1 DEF Frame
  <2>3. f \in Frames(prog)  BY <1>1, <2>2, FrameMoves DEF Reconciler
  <2>4. n \in DOMAIN Tree[prog]  BY <1>1, <1>6, Current
  <2>5. g \in Frames(prog) /\ ~Casting(g) /\ g.node = n  BY <2>4, NewFrameOK DEF NewFrame
  <2>6. CastType \subseteq Reconciler.fields
    BY <1>1, <1>6 DEF CastsNarrow, CastType, FlowTypes, Reconciler, Frames
  <2> HIDE DEF f, g
  <2>7. /\ Casting(f) /\ TypeOf(f) = CastType /\ NodeOf(f) = Reconciler
        /\ TypeOf(g) = CastType /\ NodeOf(g).fields = CastType
    <3>1. NodeOf(f) = Reconciler /\ NodeOf(g) = Tree[prog][n]
      BY <2>2, <2>5 DEF NodeOf, Reconciler
    <3>2. Casting(f)  BY <1>1, <2>2, <3>1 DEF Casting
    <3>3. TypeOf(f) = CastType  BY <3>1, <3>2 DEF TypeOf, CastType
    <3>4. Tree[prog][n].fields = CastType  BY DEF CastType
    <3>5. TypeOf(g) = CastType  BY <2>5, <3>1, <3>4 DEF TypeOf
    <3> QED  BY <3>1, <3>2, <3>3, <3>4, <3>5
  <2> DEFINE u == Append(Outer, f)
             t == Append(u, g)
  <2>8. Outer \in Seq(Frames(prog)) /\ u \in Seq(Frames(prog))  BY <2>3, Split
  <2>9. Chain(u) /\ TypeAt(u) = CastType  BY <1>2, <2>3, <2>6, <2>7, <2>8, ChainAppend
  <2>10. Outer \o <<f, g>> = t /\ Range(t) = Range(Outer) \cup {f, g}
    <3>1. LET q == Outer \o <<f, g>> IN q = t /\ Range(q) = Range(Outer) \cup {f, g}
      BY <2>3, <2>5, <2>8, PushedTwice
    <3> QED  BY <3>1
  <2> HIDE DEF u
  <2>11. Chain(t) /\ TypeAt(t) = CastType  BY <2>5, <2>7, <2>8, <2>9, ChainAppend
  <2>12. stack' = t /\ {f, g} \in SUBSET Frames(prog)  BY <2>1, <2>3, <2>5, <2>10
  <2> HIDE DEF t
  <2>13. HasType(res', CastType) /\ HasType(res, Reconciler.fields)
    BY <1>1, <1>2, <2>1, TypeMeans DEF Intact, ObjectsTyped
  <2>14. ASSUME "patch" \notin story.raised, NEW k \in Reconciler.fields
         PROVE  /\ res[k] = story.written[k]
                /\ k \in CastType => res'[k] = story.written[k]
    <3>1. res[k] = story.written[k]  BY <1>2, <2>14 DEF Intact, FieldsKept
    <3>2. k \in CastType => res'[k] = res[k]  BY <1>2, <2>1 DEF Seen
    <3> QED  BY <3>1, <3>2
  <2>15. HasType(story'.written, RootType)  BY <2>1 DEF Intact, ObjectsTyped
  <2>16. "patch" \notin story'.raised => \A k \in TypeAt(t) : res'[k] = story'.written[k]
    BY <2>1, <2>6, <2>11, <2>14
  <2>17. \A h \in {f, g} : Casting(h) =>
           /\ HasType(h.saved, NodeOf(h).fields)
           /\ "patch" \notin story'.raised =>
                \A k \in NodeOf(h).fields \ TypeOf(h) : h.saved[k] = story'.written[k]
    BY <2>1, <2>2, <2>5, <2>7, <2>13, <2>14
  <2>18. UNCHANGED story  BY <2>1
  <2> QED  BY <2>10, <2>11, <2>12, <2>13, <2>15, <2>16, <2>17, <2>18, ObjectNext
<1> QED  BY <1>3, <1>4, <1>5, <1>6 DEF Cast

LEMMA CastBackObject ==
  ASSUME FlowTypes, stack # <<>>, UNCHANGED prog, Intact, CastsNarrow, CastBack
  PROVE  ObjectInv'
<1> DEFINE copy == Seen(CastType, Top.saved)
<1>1. /\ Reconciler.kind = "cast" /\ Top.at = 1 /\ stack' = Outer
      /\ Top \in Frame /\ Top \in Frames(prog) /\ Range(stack) = Range(Outer) \cup {Top}
      /\ res \in Objects /\ Top.saved \in Objects
  BY Current, Split DEF CastBack, Return, FlowTypes, Frame
<1>2. /\ Casting(Top) /\ NodeOf(Top) = Reconciler /\ TypeOf(Top) = CastType /\ Level = CastType
      /\ Reconciler.fields \subseteq Keys /\ Level \subseteq RootType
      /\ Chain(Outer) /\ TypeAt(Outer) = Reconciler.fields
  <2>1. NodeOf(Top) = Reconciler  BY DEF NodeOf, Reconciler
  <2>2. Casting(Top)  BY <1>1, <2>1 DEF Casting
  <2>3. TypeOf(Top) = CastType  BY <2>1, <2>2 DEF TypeOf, CastType
  <2>4. Reconciler.fields \subseteq Keys  BY Current DEF Node
  <2>5. /\ Level = TypeOf(Top) /\ Level \subseteq RootType
        /\ Chain(Outer) /\ NodeOf(Top).fields = TypeAt(Outer)
    BY ChainOuter DEF Intact
  <2> QED  BY <2>1, <2>2, <2>3, <2>4, <2>5
<1>3. /\ HasType(Top.saved, Reconciler.fields) /\ HasType(res, CastType)
      /\ HasType(story.written, RootType)
  BY <1>1, <1>2 DEF Intact, ObjectsTyped, SavedOK
<1>4. {} \in SUBSET Frames(prog) /\ Range(Outer) = Range(Outer) \cup {}  OBVIOUS
<1>5. CASE res' = Patch(copy) /\ UNCHANGED story
  <2>1. Applied(copy, res, Top.saved) \in Objects  BY <1>1, AppliedType
  <2>2. HasType(res', Reconciler.fields)
    BY <1>5, <2>1, TypeMeans DEF Patch
  <2>3. ASSUME "patch" \notin story.raised, NEW k \in Reconciler.fields
        PROVE  res'[k] = story.written[k]
    <3>1. k \in Keys  BY <1>2, <2>3
    <3>2. res'[k] = IF res[k] # copy[k] THEN res[k] ELSE Top.saved[k]
      BY <1>5, <2>3, <3>1 DEF Patch, Seen, Applied
    <3>3. CASE k \in CastType
      <4>1. copy[k] = Top.saved[k]  BY <3>1, <3>3 DEF Seen
      <4>2. res[k] = story.written[k]  BY <1>2, <2>3, <3>3 DEF Intact, FieldsKept
      <4> QED  BY <3>2, <4>1, <4>2
    <3>4. CASE k \notin CastType
      <4>1. copy[k] = Unset /\ res[k] = Unset
        BY <1>1, <1>3, <3>1, <3>4, TypeMeans DEF Seen
      <4>2. Top.saved[k] = story.written[k]
        BY <1>1, <1>2, <2>3, <3>4 DEF Intact, FieldsKept, SavedKept
      <4> QED  BY <3>2, <4>1, <4>2
    <3> QED  BY <3>3, <3>4
  <2> QED  BY <1>1, <1>2, <1>3, <1>4, <1>5, <2>2, <2>3, ObjectNext
<1>6. CASE Raise({"patch"}) /\ res' = Top.saved
  <2>1. story'.written = story.written /\ "patch" \in story'.raised
    BY <1>6 DEF Raise, FlowTypes, Story
  <2> QED  BY <1>1, <1>2, <1>3, <1>4, <1>6, <2>1, ObjectNext
<1> QED  BY <1>5, <1>6 DEF CastBack

LEMMA StillPanicked ==
  ASSUME FlowTypes, FlowStep, story.panicked
  PROVE  story'.panicked
<1>1. story \in Story /\ (UNCHANGED story \/ story'.panicked \/ \E c : Raise(c) \/ \E o : Does(o) \/ Catch(o))
  BY DEF FlowTypes, FlowStep, Sequence, IfThen, While, Try, Propagate, Finally, OverrideSetup,
         WithConfig, Cast, CastBack, Sync, Finalize, Become, Call, CallWith, Panic, Story
<1> QED  BY <1>1 DEF Raise, Does, Catch, Story

LEMMA FlowStepObject ==
  ASSUME FlowTypes, ObjectInv, CastsNarrow, FlowStep
  PROVE  ObjectInv'
<1>1. stack # <<>> /\ UNCHANGED prog  BY DEF FlowStep
<1>2. CASE story.panicked  BY <1>2, StillPanicked DEF ObjectInv
<1>3. CASE ~story.panicked
  <2>1. Intact  BY <1>3 DEF ObjectInv, Intact
  <2> QED
    BY <1>1, <2>1, LoopObject, PassObject, TryCatchObject, CastObject, CastBackObject, SyncObject
       DEF FlowStep
<1> QED  BY <1>2, <1>3


-----------------------------------------------------------------------------
(* Changes: the hosts.                                                       *)

LEMMA BlankType ==
  ASSUME NEW fields
  PROVE  HasType(Blank, fields)
<1>1. Blank \in Objects /\ \A k \in Keys : Blank[k] = Unset  BY ObjectAssumption DEF Blank
<1> QED  BY <1>1, TypeMeans

NoObjects == stack = <<>> /\ res = Blank /\ story = NoStory

LEMMA BlankObject == NoObjects => ObjectInv
<1> SUFFICES ASSUME NoObjects PROVE ObjectInv
  OBVIOUS
<1> USE DEF NoObjects
<1>1. Range(stack) = {} /\ Len(stack) = 0 /\ story.written = Blank  BY NoCalls DEF NoStory
<1>2. HasType(Blank, Level) /\ HasType(Blank, RootType)  BY BlankType
<1> QED  BY <1>1, <1>2 DEF ObjectInv, Chain, ObjectsTyped, FieldsKept

LEMMA StartObject ==
  ASSUME NEW p \in Programs, NEW obj \in Objects, NEW del, StartFlow(p, obj, del),
         HasType(obj, Tree[p][1].fields)
  PROVE  ObjectInv'
<1> DEFINE f == [node |-> 1, at |-> 0, acc |-> NoResult, err |-> {}, saved |-> Blank]
<1>1. stack' = <<f>> /\ prog' = p /\ res' = obj /\ story'.written = obj
  BY DEF StartFlow
<1>2. f.node = 1 /\ f.at = 0  OBVIOUS
<1> HIDE DEF f
<1>3. /\ ~Casting(f)' /\ NodeOf(f)' = Tree[p][1] /\ RootType' = Tree[p][1].fields
      /\ TypeOf(f)' = Tree[p][1].fields
  BY <1>1, <1>2 DEF Casting, NodeOf, RootType, TypeOf
<1>4. <<f>> = Append(<<>>, f) /\ <<>> \in Seq({f})  OBVIOUS
<1>5. Range(<<f>>) = {f}
  <2>1. LET t == Append(<<>>, f) IN Range(t) = Range(<<>>) \cup {f}  BY <1>4, Pushed
  <2> QED  BY <1>4, <2>1, NoCalls
<1>6. Level' = Tree[p][1].fields  BY <1>1, <1>3 DEF Level, TypeAt
<1>7. Chain(stack)'  BY <1>1, <1>3 DEF Chain
<1>8. ObjectsTyped' /\ FieldsKept'
  BY <1>1, <1>3, <1>5, <1>6 DEF ObjectsTyped, FieldsKept, SavedOK, SavedKept
<1> QED  BY <1>7, <1>8 DEF ObjectInv

LEMMA ObjectUnhosted ==
  ASSUME UNCHANGED flowVars, ObjectInv
  PROVE  ObjectInv'
<1>1. /\ UNCHANGED <<prog, stack, res, story>>  BY DEF flowVars
<1>2. \A f : /\ NodeOf(f)' = NodeOf(f) /\ TypeOf(f)' = TypeOf(f) /\ (Casting(f)' <=> Casting(f))
  BY <1>1 DEF NodeOf, TypeOf, Casting
<1>3. RootType' = RootType /\ Level' = Level  BY <1>1, <1>2 DEF RootType, Level, TypeAt
<1>4. Chain(stack)' <=> Chain(stack)  BY <1>1, <1>2, <1>3 DEF Chain
<1> QED
  BY <1>1, <1>2, <1>3, <1>4 DEF ObjectInv, ObjectsTyped, FieldsKept, SavedOK, SavedKept

\* What the tree left of the resource is what its authors wrote.
Carried == conf.host = "resource" /\ phase \in {"status", "done"} /\ "patch" \notin said.raised =>
             res = said.written

LEMMA BeginObject ==
  ASSUME Inv, OutcomeInv, ObjectInv, NEW o \in Fates, Begin(o)
  PROVE  ObjectInv' /\ Carried'
<1>1. /\ phase = "idle" /\ said = NoStory /\ res = Blank /\ UNCHANGED <<conf, said>>
  BY DEF Begin, OutcomeInv, Fresh
<1>2. CASE o = "rejected" \/ NothingToDo
  <2>1. UNCHANGED flowVars  BY <1>2 DEF Begin
  <2>2. res' = Blank /\ said'.written = Blank  BY <1>1, <2>1 DEF flowVars, NoStory
  <2> QED  BY <2>1, <2>2, ObjectUnhosted DEF Carried
<1>3. CASE ~(o = "rejected" \/ NothingToDo)
  <2> DEFINE obj == IF conf.host = "resource" THEN Defaulted[read'.body] ELSE read'.body
  <2>1. /\ phase' = "run" /\ read'.body = Seen(conf.fields, stored.body)
        /\ StartFlow(conf.tree, obj, stored.deleting)
    BY <1>3 DEF Begin
  <2>2. /\ read'.body \in Objects /\ HasType(read'.body, conf.fields)
    BY <2>1, TypeMeans DEF Inv, HostTypes, Stored
  <2>3. /\ obj \in Objects /\ HasType(obj, conf.fields) /\ conf.tree \in Programs
    BY <2>2, Constants, RequestsAssumption DEF Inv, HostTypes
  <2>4. Tree[conf.tree][1].fields = conf.fields  BY RequestsAssumption DEF Inv, HostTypes
  <2> HIDE DEF obj
  <2>5. ObjectInv'  BY <2>1, <2>3, <2>4, StartObject
  <2> QED  BY <2>1, <2>5 DEF Carried
<1> QED  BY <1>2, <1>3

LEMMA SendObject ==
  ASSUME Inv, Send
  PROVE  ObjectInv' /\ Carried'
<1>1. phase' = "hook" /\ StartFlow(conf.hook, Defaulted[call.body], FALSE)  BY DEF Send
<1>2. conf.hook \in Programs /\ Defaulted[call.body] \in Objects
  BY Constants DEF Inv, HostTypes, Sending
<1>3. Tree[conf.hook][1].fields = Keys  BY RequestsAssumption DEF Inv, HostTypes
<1>4. HasType(Defaulted[call.body], Keys)  BY <1>2, TypeMeans
<1> QED  BY <1>1, <1>2, <1>3, <1>4, StartObject DEF Carried

LEMMA EndTreeObject ==
  ASSUME Inv, ObjectInv, EndTree
  PROVE  ObjectInv' /\ Carried'
<1>1. stack = <<>> /\ said' = story /\ UNCHANGED <<flowVars, conf>>  BY DEF EndTree
<1>2. ObjectInv'  BY <1>1, ObjectUnhosted
<1>3. CASE story.panicked  BY <1>2, <1>3 DEF EndTree, Carried
<1>4. CASE ~story.panicked
  <2>1. HasType(res, RootType) /\ HasType(story.written, RootType)
        /\ ("patch" \notin story.raised => \A k \in RootType : res[k] = story.written[k])
    BY <1>1, <1>4 DEF ObjectInv, ObjectsTyped, FieldsKept, Level, TypeAt
  <2>2. "patch" \notin story.raised => res = story.written
    BY <2>1, SameObject DEF Inv, FlowTypes, Story
  <2> QED  BY <1>1, <1>2, <2>2 DEF Carried, flowVars
<1> QED  BY <1>3, <1>4

\* The inductive invariant: each call sees the fields of its type as the authors'
\* functions left them, and the others are saved by the casts around it.
THEOREM ObjectInvariant ==
  ASSUME CastsNarrow
  PROVE  Spec => [](ObjectInv /\ Carried)
<1>1. Init => ObjectInv /\ Carried
  BY BlankObject DEF Init, Carried, NoObjects
<1>2. Inv /\ OutcomeInv /\ ObjectInv /\ Carried /\ [Next]_vars => ObjectInv' /\ Carried'
  <2> SUFFICES ASSUME Inv, OutcomeInv, ObjectInv, Carried, [Next]_vars PROVE ObjectInv' /\ Carried'
    OBVIOUS
  <2>1. CASE Setup \/ Proceeds \/ Looks \/ UNCHANGED vars
    <3>1. UNCHANGED <<flowVars, conf, said>>
      BY <2>1 DEF Setup, Proceeds, Looks, vars, requestVars
    <3>2. ObjectInv'  BY <3>1, ObjectUnhosted
    <3>3. conf.host = "resource" /\ phase' \in {"status", "done"} => phase \in {"status", "done"}
      BY <2>1 DEF Setup, Proceeds, Looks, vars, requestVars, OutcomeInv, HostPhases
    <3> QED  BY <3>1, <3>2, <3>3 DEF Carried, flowVars
  <2>2. CASE Step
    <3>1. FlowStep /\ phase' \in {"run", "hook"}  BY <2>2 DEF Step, requestVars
    <3> QED  BY <3>1, FlowStepObject DEF Inv, Carried
  <2>3. CASE Ends
    <3>1. stack' = <<>> /\ res' = Blank /\ story' = NoStory  BY <2>3 DEF Ends, Blanked
    <3>2. NoObjects'  BY <3>1 DEF NoObjects
    <3>3. ObjectInv'  BY <3>2, BlankObject, PTL
    <3> QED  BY <2>3, <3>3 DEF Ends, Carried
  <2> QED
    BY <2>1, <2>2, <2>3, KindsOfSteps, BeginObject, SendObject, EndTreeObject
<1> QED  BY <1>1, <1>2, RequestsInvariant, OutcomeInvariant, PTL DEF Spec

\* Whatever a sub reconciler below any number of CastResources changes reaches the
\* resource that its ResourceReconciler writes, also when it returns an error, unless
\* the patch itself fails (cast.go), for every tree whose casts add no fields.
THEOREM ChangesAreKept ==
  ASSUME CastsNarrow
  PROVE  Spec => []ChangesKept
<1>1. ObjectInv /\ Carried => ChangesKept  BY DEF Carried, ChangesKept
<1> QED  BY <1>1, ObjectInvariant, PTL

-----------------------------------------------------------------------------
(* What the setup accepted does not call nil.                                *)

\* What SetupWithManager walks over, or, where an OverrideSetup hides a part from it,
\* the whole tree, is closed under calls and complete.
LEMMA SafeExists ==
  ASSUME NEW p \in Programs, SetupSucceeds(p), AuthorsPart(p)
  PROVE  Safe(p, SafeNodes(p))
<1>1. Tree[p] \in Seq(Node) /\ Tree[p] # <<>>  BY ProgramAssumption
<1>2. /\ DOMAIN Tree[p] = 1 .. Len(Tree[p]) /\ Len(Tree[p]) \in Nat \ {0}
      /\ \A n \in DOMAIN Tree[p] : Tree[p][n] \in Node
  BY <1>1, EmptySeq, LenProperties, ElementOfSeq
<1>3. ASSUME NEW n \in DOMAIN Tree[p] PROVE Given(Tree[p][n]) \subseteq DOMAIN Tree[p]
  <2>1. \A i \in DOMAIN Tree[p][n].subs : Tree[p][n].subs[i] \in {0} \cup n + 1 .. Len(Tree[p])
    BY ProgramAssumption
  <2> QED  BY <1>2, <2>1 DEF Given
<1>4. ASSUME NEW n \in DOMAIN Tree[p], Tree[p][n].kind = "sync" PROVE Given(Tree[p][n]) = {}
  <2>1. Len(Tree[p][n].subs) = 0  BY <1>4, ProgramAssumption DEF Fields
  <2>2. DOMAIN Tree[p][n].subs = {}  BY <1>2, <2>1, LenProperties DEF Node
  <2> QED  BY <2>2 DEF Given
<1>5. ASSUME NEW n \in DOMAIN Tree[p], Tree[p][n].kind = "sync", SetupNode(Tree[p][n]).valid
      PROVE  \A obj \in Objects : Tree[p][n].does[obj] # {}
  BY <1>5 DEF SetupNode, SetupSync, AuthorsPart
<1>6. CASE \E n \in DOMAIN Tree[p] : Tree[p][n].kind = "override"
  <2>1. \A n \in DOMAIN Tree[p] : SetupNode(Tree[p][n]).valid  BY <1>6 DEF AuthorsPart
  <2>2. Safe(p, DOMAIN Tree[p])  BY <1>2, <1>3, <1>5, <2>1 DEF Safe
  <2> QED  BY <2>2 DEF SafeNodes
<1>7. CASE \A n \in DOMAIN Tree[p] : Tree[p][n].kind # "override"
  <2>1. PICK reached \in SUBSET DOMAIN Tree[p] :
          /\ 1 \in reached
          /\ \A n \in reached : /\ SetupNode(Tree[p][n]).valid
                                /\ SetupNode(Tree[p][n]).next \subseteq reached
    BY DEF SetupSucceeds
  <2>2. ASSUME NEW n \in reached PROVE Given(Tree[p][n]) \subseteq reached
    <3>1. Tree[p][n].kind \in Kinds \ {"override"}  BY <1>2, <1>7, <2>1 DEF Node
    <3>2. CASE Tree[p][n].kind = "sync"  BY <1>4, <3>2
    <3>3. CASE Tree[p][n].kind # "sync"
      <4>1. SetupNode(Tree[p][n]).next = Given(Tree[p][n])
        BY <3>1, <3>3 DEF Kinds, SetupNode, SetupIfThen, SetupWhile, SetupTryCatch,
                          SetupSequence, SetupCast, SetupConfig
      <4> QED  BY <2>1, <4>1
    <3> QED  BY <3>2, <3>3
  <2>3. Safe(p, reached)  BY <1>5, <2>1, <2>2 DEF Safe
  <2> QED  BY <2>3 DEF SafeNodes
<1> QED  BY <1>6, <1>7

LEMMA SafeCalls ==
  ASSUME FlowTypes, stack # <<>>, NEW nodes, Safe(prog, nodes),
         \A f \in Range(stack) : f.node \in nodes
  PROVE  /\ Top.node \in nodes /\ \A f \in Range(Outer) : f.node \in nodes
         /\ \A i \in DOMAIN Reconciler.subs : Reconciler.subs[i] # 0 => Reconciler.subs[i] \in nodes
         /\ Reconciler.kind \in {"ifthen", "while", "trycatch", "cast", "config"} =>
              Reconciler.subs[1] # 0
         /\ Reconciler.kind \in {"ifthen", "while", "config"} => Reconciler.asks
         /\ Reconciler.kind = "sequence" =>
              \A i \in DOMAIN Reconciler.subs : Reconciler.subs[i] # 0
         /\ Reconciler.kind = "sync" => Reconciler.does[res] # {}
<1>1. Range(stack) = Range(Outer) \cup {Top}  BY Split
<1>2. Top.node \in nodes  BY <1>1
<1>3. SetupNode(Reconciler).valid /\ Given(Reconciler) \subseteq nodes
  BY <1>2 DEF Safe, Reconciler
<1>4. \A i \in DOMAIN Reconciler.subs : Reconciler.subs[i] # 0 => Reconciler.subs[i] \in nodes
  BY <1>3 DEF Given
<1>5. Reconciler.kind = "sync" => Reconciler.does[res] # {}
  BY <1>2 DEF Safe, Reconciler, FlowTypes
<1>6. Reconciler.kind \in {"ifthen", "while", "trycatch", "cast", "config"} => Reconciler.subs[1] # 0
  BY <1>3 DEF SetupNode, SetupIfThen, SetupWhile, SetupTryCatch, SetupCast, SetupConfig
<1>7. Reconciler.kind = "sequence" => \A i \in DOMAIN Reconciler.subs : Reconciler.subs[i] # 0
  BY <1>3 DEF SetupNode, SetupSequence
<1>8. Reconciler.kind \in {"ifthen", "while", "config"} => Reconciler.asks
  BY <1>3 DEF SetupNode, SetupIfThen, SetupWhile, SetupConfig
<1> QED  BY <1>1, <1>2, <1>4, <1>5, <1>6, <1>7, <1>8

SafeNext(nodes) == ~story'.panicked /\ \A f \in Range(stack') : f.node \in nodes

LEMMA SafeShapes ==
  ASSUME FlowTypes, stack # <<>>, NEW nodes, \A f \in Range(Outer) : f.node \in nodes,
         ~story'.panicked,
         \/ stack' = Outer
         \/ \E f : f.node \in nodes /\ stack' = Append(Outer, f)
         \/ \E f, g : f.node \in nodes /\ g.node \in nodes /\ stack' = Outer \o <<f, g>>
  PROVE  SafeNext(nodes)
<1>1. Outer \in Seq(Frames(prog))  BY Split
<1>2. CASE stack' = Outer  BY <1>2 DEF SafeNext
<1>3. ASSUME NEW f, f.node \in nodes, stack' = Append(Outer, f) PROVE SafeNext(nodes)
  <2>1. Outer \in Seq(Frames(prog) \cup {f})  BY <1>1, SeqMonotonic
  <2>2. Range(stack') = Range(Outer) \cup {f}  BY <1>3, <2>1, Pushed
  <2> QED  BY <1>3, <2>2 DEF SafeNext
<1>4. ASSUME NEW f, NEW g, f.node \in nodes, g.node \in nodes, stack' = Outer \o <<f, g>>
      PROVE  SafeNext(nodes)
  <2> DEFINE S == Frames(prog) \cup {f, g}
  <2>1. Outer \in Seq(S) /\ f \in S /\ g \in S  BY <1>1, SeqMonotonic
  <2> HIDE DEF S
  <2>2. LET t == Outer \o <<f, g>> IN Range(t) = Range(Outer) \cup {f, g}
    BY <2>1, PushedTwice
  <2> QED  BY <1>4, <2>2 DEF SafeNext
<1> QED  BY <1>2, <1>3, <1>4


LEMMA SafeStep ==
  ASSUME FlowTypes, FlowStep, ~story.panicked, NEW nodes, Safe(prog, nodes),
         \A f \in Range(stack) : f.node \in nodes
  PROVE  SafeNext(nodes)
<1>1. stack # <<>> /\ story \in Story  BY DEF FlowStep, FlowTypes
<1>2. /\ Top.node \in nodes /\ \A f \in Range(Outer) : f.node \in nodes
      /\ \A i \in DOMAIN Reconciler.subs : Reconciler.subs[i] # 0 => Reconciler.subs[i] \in nodes
      /\ Reconciler.kind \in {"ifthen", "while", "trycatch", "cast", "config"} =>
           Reconciler.subs[1] # 0
      /\ Reconciler.kind \in {"ifthen", "while", "config"} => Reconciler.asks
      /\ Reconciler.kind = "sequence" =>
           \A i \in DOMAIN Reconciler.subs : Reconciler.subs[i] # 0
      /\ Reconciler.kind = "sync" => Reconciler.does[res] # {}
  BY <1>1, SafeCalls
<1>3. Top \in Frame  BY <1>1, Current
<1>4. \A n : NewFrame(n).node = n  BY DEF NewFrame
<1>5. Reconciler.kind \in {"ifthen", "trycatch"} => {1, 2} \subseteq DOMAIN Reconciler.subs
  BY <1>1, Current DEF Fields
<1>6. Reconciler.kind \in {"while", "override", "cast", "config"} => 1 \in DOMAIN Reconciler.subs
  BY <1>1, Current DEF Fields
<1>7. ASSUME NEW r, NEW e, Return(r, e), UNCHANGED story PROVE SafeNext(nodes)
  BY <1>1, <1>2, <1>7, SafeShapes DEF Return
<1>8. ASSUME NEW r, NEW e, Return(r, e), NEW cause, Raise({cause}) PROVE SafeNext(nodes)
  <2>1. ~story'.panicked  BY <1>1, <1>8 DEF Raise, Story
  <2> QED  BY <1>1, <1>2, <1>8, <2>1, SafeShapes DEF Return
<1>9. ASSUME NEW i \in DOMAIN Reconciler.subs, Reconciler.subs[i] # 0, Become(Reconciler.subs[i])
      PROVE  SafeNext(nodes)
  <2>1. stack' = Append(Outer, NewFrame(Reconciler.subs[i])) /\ UNCHANGED story
    BY <1>9 DEF Become
  <2>2. NewFrame(Reconciler.subs[i]).node \in nodes  BY <1>2, <1>4, <1>9
  <2> QED  BY <1>1, <1>2, <2>1, <2>2, SafeShapes
<1>10. ASSUME NEW i \in DOMAIN Reconciler.subs, Reconciler.subs[i] # 0, NEW f, f.node = Top.node,
              stack' = Outer \o <<f, NewFrame(Reconciler.subs[i])>>, ~story'.panicked
       PROVE  SafeNext(nodes)
  <2>1. NewFrame(Reconciler.subs[i]).node \in nodes /\ f.node \in nodes  BY <1>2, <1>4, <1>10
  <2> QED  BY <1>1, <1>2, <1>10, <2>1, SafeShapes
<1>11. CASE Sequence
  <2> DEFINE f == [Top EXCEPT !.at = Top.at + 1,
                              !.acc = AggregateResults(ret.result, Top.acc)]
             i == Top.at + 1
  <2>1. CASE ret.err # {} \/ Top.at = Len(Reconciler.subs)
    BY <1>7, <1>11, <2>1 DEF Sequence
  <2>2. CASE ret.err = {} /\ Top.at # Len(Reconciler.subs)
    <3>1. i \in DOMAIN Reconciler.subs /\ Reconciler.subs[i] # 0
      BY <1>1, <1>2, <1>11, <2>2, Current DEF Sequence, Frame
    <3>2. stack' = Outer \o <<f, NewFrame(Reconciler.subs[i])>> /\ UNCHANGED story
      BY <1>11, <2>2, <3>1 DEF Sequence, Call, CallWith
    <3>3. f.node = Top.node  BY <1>3 DEF Frame
    <3> HIDE DEF f, i
    <3> QED  BY <1>10, <3>1, <3>2, <3>3
  <2> QED  BY <2>1, <2>2
<1>12. CASE While
  <2> DEFINE f == [Top EXCEPT !.at = Top.at + 1,
                              !.acc = AggregateResults(Top.acc, ret.result)]
  <2>1. Reconciler.subs[1] # 0 /\ 1 \in DOMAIN Reconciler.subs  BY <1>2, <1>6, <1>12 DEF While
  <2>2. \/ \E r, e : Return(r, e) /\ UNCHANGED story
        \/ \E r, e : Return(r, e) /\ Raise({"limit"})
        \/ Call(f, Reconciler.subs[1])
    BY <1>2, <1>12 DEF While
  <2>3. CASE Call(f, Reconciler.subs[1])
    <3>1. stack' = Outer \o <<f, NewFrame(Reconciler.subs[1])>> /\ UNCHANGED story
      BY <2>1, <2>3 DEF Call, CallWith
    <3>2. f.node = Top.node  BY <1>3 DEF Frame
    <3> HIDE DEF f
    <3> QED  BY <1>10, <2>1, <3>1, <3>2
  <2> QED  BY <1>7, <1>8, <2>2, <2>3
<1>13. CASE IfThen \/ OverrideSetup \/ WithConfig
  BY <1>2, <1>5, <1>6, <1>7, <1>8, <1>9, <1>13 DEF IfThen, OverrideSetup, WithConfig
<1>14. ASSUME NEW r, NEW e, Leave(r, e), Reconciler.kind = "trycatch", ~story'.panicked
       PROVE  SafeNext(nodes)
  <2> DEFINE f == [Top EXCEPT !.at = 2, !.acc = r, !.err = e]
  <2>1. f.node = Top.node  BY <1>3 DEF Frame
  <2>2. CASE Reconciler.subs[2] = 0
    BY <1>1, <1>2, <1>14, <2>2, SafeShapes DEF Leave, Return
  <2>3. CASE Reconciler.subs[2] # 0
    <3>1. stack' = Outer \o <<f, NewFrame(Reconciler.subs[2])>>  BY <1>14, <2>3 DEF Leave
    <3> HIDE DEF f
    <3> QED  BY <1>5, <1>10, <1>14, <2>1, <2>3, <3>1
  <2> QED  BY <2>2, <2>3
<1>15. CASE Try
  <2> DEFINE f == [Top EXCEPT !.at = 1]
  <2>1. Reconciler.subs[1] # 0 /\ 1 \in DOMAIN Reconciler.subs  BY <1>2, <1>5, <1>15 DEF Try
  <2>2. stack' = Outer \o <<f, NewFrame(Reconciler.subs[1])>> /\ UNCHANGED story
    BY <1>15, <2>1 DEF Try, Call, CallWith
  <2>3. f.node = Top.node  BY <1>3 DEF Frame
  <2> HIDE DEF f
  <2> QED  BY <1>10, <2>1, <2>2, <2>3
<1>16. CASE Propagate \/ Finally  BY <1>7, <1>14, <1>16 DEF Propagate, Finally
<1>17. ASSUME NEW o \in Reconciler.does[res], Catch(o) PROVE SafeNext(nodes)
  <2>1. ~story'.panicked  BY <1>1, <1>17 DEF Catch, Story
  <2> QED  BY <1>14, <1>17, <2>1 DEF Catch
<1>18. CASE Cast
  <2> DEFINE f == [Top EXCEPT !.at = 1, !.saved = res]
  <2>1. Reconciler.subs[1] # 0 /\ 1 \in DOMAIN Reconciler.subs  BY <1>2, <1>6, <1>18 DEF Cast
  <2>2. CASE CallWith(f, Reconciler.subs[1], Seen(CastType, res))
    <3>1. stack' = Outer \o <<f, NewFrame(Reconciler.subs[1])>> /\ UNCHANGED story
      BY <2>1, <2>2 DEF CallWith
    <3>2. f.node = Top.node  BY <1>3 DEF Frame
    <3> HIDE DEF f
    <3> QED  BY <1>10, <2>1, <3>1, <3>2
  <2> QED  BY <1>8, <1>9, <1>18, <2>1, <2>2 DEF Cast
<1>19. CASE CastBack  BY <1>7, <1>8, <1>19 DEF CastBack
<1>20. CASE Sync \/ Finalize
  <2>1. Reconciler.does[res] # {}  BY <1>2, <1>20 DEF Sync, Finalize
  <2>2. CASE \E r, e : Return(r, e) /\ UNCHANGED story  BY <1>7, <2>2
  <2>3. ASSUME NEW o, Does(o), \/ stack' = Outer
                               \/ stack' = Append(Outer, [Top EXCEPT !.at = 1, !.acc = o.result])
        PROVE  SafeNext(nodes)
    <3>1. ~story'.panicked  BY <1>1, <2>3 DEF Does, Story
    <3>2. [Top EXCEPT !.at = 1, !.acc = o.result].node = Top.node  BY <1>3 DEF Frame
    <3> QED  BY <1>1, <1>2, <2>3, <3>1, <3>2, SafeShapes
  <2> QED  BY <1>20, <2>1, <2>2, <2>3 DEF Sync, Finalize, Return
<1> QED
  BY <1>11, <1>12, <1>13, <1>15, <1>16, <1>17, <1>18, <1>19, <1>20 DEF FlowStep

\* A manager that could be set up does not die of a nil sub reconciler or a nil Sync
\* (validate, and SetupWithManager walking the tree), for every tree whose author
\* keeps to what is asked: what the setup does not see is complete.
THEOREM SetupPreventsPanics == Spec => []NeverPanics
<1> DEFINE J == SetUp /\ Steady /\ NeverPanics
<1>1. Init => J
  BY DEF Init, SetUp, Steady, NeverPanics
<1>2. Inv /\ J /\ [Next]_vars => J'
  <2> SUFFICES ASSUME Inv, J, [Next]_vars PROVE J'
    OBVIOUS
  <2>1. CASE Setup
    <3>1. phase' \in {"idle", "refused"} /\ UNCHANGED conf
          /\ (phase' = "idle" => SetupSucceeds(conf.tree))
      BY <2>1 DEF Setup, SetupResource, SetupAggregate
    <3> QED  BY <3>1 DEF SetUp, Steady, NeverPanics
  <2>2. CASE Step
    <3>1. /\ phase \in {"run", "hook"} /\ FlowStep /\ UNCHANGED <<phase, conf, prog>>
      BY <2>2 DEF Step, FlowStep, requestVars
    <3>2. SetUp' /\ NeverPanics'  BY <3>1 DEF SetUp, NeverPanics
    <3>3. ASSUME AuthorsPart(conf.tree), phase = "run" PROVE SafeNext(SafeNodes(conf.tree))
      <4>1. conf.tree \in Programs  BY Constants DEF Inv
      <4>2. Safe(conf.tree, SafeNodes(conf.tree))  BY <3>3, <4>1, SafeExists DEF SetUp
      <4>3. prog = conf.tree /\ ~story.panicked
            /\ \A f \in Range(stack) : f.node \in SafeNodes(conf.tree)
        BY <3>3 DEF Steady
      <4> QED  BY <3>1, <4>2, <4>3, SafeStep DEF Inv
    <3> QED  BY <3>1, <3>2, <3>3 DEF Steady, SafeNext
  <2>3. ASSUME NEW o \in Fates, Begin(o) PROVE J'
    <3>1. UNCHANGED conf /\ phase = "idle" /\ SetUp' /\ NeverPanics'
      BY <2>3 DEF Begin, Answer, SetUp, NeverPanics
    <3>2. ASSUME phase' = "run", AuthorsPart(conf.tree) PROVE Steady'
      <4> DEFINE f == [node |-> 1, at |-> 0, acc |-> NoResult, err |-> {}, saved |-> Blank]
      <4>1. prog' = conf.tree /\ stack' = <<f>> /\ ~story'.panicked
        BY <2>3, <3>2 DEF Begin, Answer, StartFlow
      <4>2. f.node = 1  OBVIOUS
      <4> HIDE DEF f
      <4>3. Range(<<f>>) = {f}
        <5>1. <<f>> = Append(<<>>, f) /\ <<>> \in Seq({f})  OBVIOUS
        <5>2. LET t == Append(<<>>, f) IN Range(t) = Range(<<>>) \cup {f}  BY <5>1, Pushed
        <5> QED  BY <5>1, <5>2, NoCalls
      <4>4. 1 \in SafeNodes(conf.tree)
        BY <3>1, <3>2, SafeExists, Constants DEF Safe, SetUp, Inv
      <4> QED  BY <3>1, <4>1, <4>2, <4>3, <4>4 DEF Steady
    <3> QED  BY <3>1, <3>2 DEF Steady
  <2>4. CASE EndTree
    <3>1. UNCHANGED conf /\ phase = "run"
          /\ (IF story.panicked THEN phase' = "crashed" ELSE phase' \in {"status", "done", "desire"})
      BY <2>4 DEF EndTree, EndResource, EndAggregate, Answer
    <3> QED  BY <3>1 DEF SetUp, Steady, NeverPanics
  <2>5. CASE Send \/ Proceeds \/ Ends
    <3>1. UNCHANGED conf /\ phase' \notin {"run", "crashed"} /\ phase \notin {"new", "refused"}
      BY <2>5 DEF Send, Proceeds, Ends, Answer
    <3> QED  BY <2>5, <3>1 DEF SetUp, Steady, NeverPanics
  <2>6. CASE Looks \/ UNCHANGED vars
    <3>1. UNCHANGED <<conf, phase, prog, story, stack>>
      BY <2>6 DEF Looks, vars, requestVars, flowVars
    <3> QED  BY <3>1 DEF SetUp, Steady, NeverPanics
  <2> QED  BY <2>1, <2>2, <2>3, <2>4, <2>5, <2>6, KindsOfSteps
<1> QED  BY <1>1, <1>2, RequestsInvariant, PTL DEF Spec

-----------------------------------------------------------------------------
(* The mutation cache: what is stored, read, sent and remembered.            *)

Own == CHOOSE own \in SUBSET Keys : OwnFields(conf, own)
Admissible == {Blank} \cup UNION {AdmissionBy(conf.hook, obj) : obj \in Objects}
Desired == conf.wants \ {NoObject}

\* Everything stored was admitted, and everything read was stored.
StoredAdmitted == /\ stored.body \in Admissible
                  /\ \E b \in Admissible : read.body = Seen(conf.fields, b)

\* What was not there when it was read is there only once it was created.
StillAbsent == phase \in {"run", "desire"} /\ ~read.there => ~stored.there

\* An update differs from what is desired in the webhook's fields only.
UpdateSent ==
  call.verb = "update" /\ phase \in {"send", "hook"} =>
    call.goal \in Desired /\ Same(call.body, call.goal, Own) /\ (phase = "hook" => ~conf.duck)

\* And so does what is remembered of it.
MemoTrue ==
  memo.known =>
    /\ stored.there /\ ~conf.duck
    /\ memo.base = memo.goal /\ memo.goal \in Desired
    /\ memo.to \in Admissible /\ Same(memo.to, memo.goal, Own)

\* The webhook's function is about to be called, or has returned.
HookRuns ==
  phase = "hook" =>
    /\ prog = conf.hook /\ ~deleting
    /\ IF stack = <<>> THEN Admits => Admitted \in AdmissionBy(conf.hook, call.body)
       ELSE /\ stack = <<NewFrame(1)>> /\ res = Defaulted[call.body] /\ ~story.panicked

CacheInv == Desiring(conf) =>
  phase # "status" /\ StoredAdmitted /\ StillAbsent /\ UpdateSent /\ MemoTrue /\ HookRuns

\* Without DesiredResource there are no updates: what is desired is what was read.
NoUpdates == ~Desiring(conf) => ~memo.known /\ call.verb # "update"

LEMMA OwnIs ==
  ASSUME Polite(conf)
  PROVE  OwnFields(conf, Own)
BY DEF Own, Polite

LEMMA ConfKept ==
  ASSUME UNCHANGED conf
  PROVE  Own' = Own /\ Admissible' = Admissible /\ Desired' = Desired
BY DEF Own, Admissible, Desired

LEMMA AdmissionType ==
  ASSUME HostTypes, NEW obj \in Objects
  PROVE  AdmissionBy(conf.hook, obj) \subseteq Admissible \cap Objects
<1>1. AdmissionBy(conf.hook, obj) \subseteq Admissible  BY DEF Admissible
<1>2. Tree[conf.hook] \in Seq(Node) /\ Tree[conf.hook] # <<>> /\ Defaulted[obj] \in Objects
  BY Constants, ProgramAssumption
<1>3. Tree[conf.hook][1] \in Node  BY <1>2, EmptySeq, LenProperties
<1>4. Tree[conf.hook][1].does[Defaulted[obj]] \in SUBSET Outcome  BY <1>2, <1>3 DEF Node
<1>5. AdmissionBy(conf.hook, obj) \subseteq Objects
  BY <1>4 DEF AdmissionBy, Mutated, Outcome
<1> QED  BY <1>1, <1>5

LEMMA PatchedSame ==
  ASSUME HostTypes, MemoTrue, NEW obj \in Objects
  PROVE  Same(Patched(obj), obj, Own)
<1>1. CASE ~Fits(obj)  BY <1>1 DEF Patched, Same
<1>2. CASE Fits(obj)
  <2>1. memo.known /\ \A k \in Keys \ Own : memo.to[k] = memo.base[k]
    BY <1>2 DEF Fits, MemoTrue, Same
  <2>2. Patched(obj) = [k \in Keys |-> IF memo.to[k] # memo.base[k] THEN memo.to[k] ELSE obj[k]]
    BY <1>2 DEF Patched, Applied
  <2> QED  BY <2>1, <2>2 DEF Same
<1> QED  BY <1>1, <1>2

\* Everybody's writes but the creation.
LEMMA StoreKeeps ==
  ASSUME Inv, UNCHANGED conf, NEW new, Store(new), new.body \in Admissible,
         new.there => stored.there, StoredAdmitted, MemoTrue
  PROVE  /\ StoredAdmitted' /\ MemoTrue' /\ read'.there = read.there
         /\ stored'.there => stored.there
<1>1. Own' = Own /\ Admissible' = Admissible /\ Desired' = Desired  BY ConfKept
<1>2. stored' = new /\ read' = [read EXCEPT !.current = read.current /\ new = stored]
      /\ memo' = IF stored.there /\ new.there THEN memo ELSE NoMemo
  BY DEF Store
<1>3. read'.there = read.there /\ read'.body = read.body  BY <1>2 DEF Inv, HostTypes, Read
<1>4. StoredAdmitted'  BY <1>1, <1>2, <1>3 DEF StoredAdmitted
<1>5. MemoTrue'
  <2>1. CASE stored.there /\ new.there  BY <1>1, <1>2, <2>1 DEF MemoTrue, Same
  <2>2. CASE ~(stored.there /\ new.there)  BY <1>2, <2>2 DEF MemoTrue, NoMemo
  <2> QED  BY <2>1, <2>2
<1> QED  BY <1>2, <1>3, <1>4, <1>5

\* The request goes on without a write.
LEMMA GoOnCache ==
  ASSUME UNCHANGED <<conf, stored, memo, read>>, StoredAdmitted, MemoTrue
  PROVE  StoredAdmitted' /\ MemoTrue'
BY ConfKept DEF StoredAdmitted, MemoTrue, Same

Ctx == Inv /\ CacheInv /\ Desiring(conf) /\ Polite(conf)

LEMMA BeginCache ==
  ASSUME Ctx, NEW o \in Fates, Begin(o)
  PROVE  CacheInv'
<1>1. /\ UNCHANGED <<conf, stored, want, memo, call, said>> /\ phase = "idle"
      /\ StoredAdmitted /\ MemoTrue
  BY DEF Begin, Ctx, CacheInv
<1>2. CASE o = "rejected" \/ NothingToDo
  <2>1. phase' = "done" /\ UNCHANGED read  BY <1>2 DEF Begin, Answer
  <2> QED
    BY <1>1, <2>1, GoOnCache DEF CacheInv, StillAbsent, UpdateSent, HookRuns
<1>3. CASE ~(o = "rejected" \/ NothingToDo)
  <2>1. /\ phase' = "run"
        /\ read' = [there |-> stored.there, body |-> Seen(conf.fields, stored.body), current |-> TRUE]
    BY <1>3 DEF Begin
  <2>2. StoredAdmitted' /\ MemoTrue'
    BY <1>1, <2>1, ConfKept DEF StoredAdmitted, MemoTrue, Same
  <2> QED  BY <1>1, <2>1, <2>2 DEF CacheInv, StillAbsent, UpdateSent, HookRuns
<1> QED  BY <1>2, <1>3

\* The webhook runs its only function.
LEMMA HookStep ==
  ASSUME Ctx, phase = "hook", Step
  PROVE  HookRuns'
<1>1. /\ FlowStep /\ stack # <<>> /\ UNCHANGED <<prog, deleting, phase, conf, call>>
  BY DEF Step, FlowStep, requestVars
<1>2. /\ prog = conf.hook /\ ~deleting /\ stack = <<NewFrame(1)>>
      /\ res = Defaulted[call.body] /\ ~story.panicked
  BY <1>1 DEF Ctx, CacheInv, HookRuns
<1>3. Len(stack) = 1 /\ stack[1] = NewFrame(1)  BY <1>2
<1>4. Top = NewFrame(1) /\ Outer = <<>>  BY <1>3 DEF Top, Outer
<1>5. Reconciler = Tree[conf.hook][1] /\ Reconciler.kind = "sync"
  BY <1>2, <1>4 DEF Reconciler, NewFrame, Ctx, Polite, OneSync
<1>6. Sync
  BY <1>1, <1>2, <1>5 DEF FlowStep, Sequence, IfThen, While, Try, Propagate, Catch, Finally,
                         OverrideSetup, WithConfig, Cast, CastBack, Finalize
<1>7. CASE Panic
  <2>1. stack' = <<>> /\ story'.panicked  BY <1>7 DEF Panic, Ctx, Inv, FlowTypes, Story
  <2> QED  BY <1>1, <1>2, <2>1 DEF HookRuns, Admits
<1>8. ASSUME NEW o \in Reconciler.does[res], Does(o), Return(o.result, o.err)
      PROVE  HookRuns'
  <2>1. stack' = <<>> /\ ret'.err = o.err /\ res' = o.obj
    BY <1>4, <1>8 DEF Return, Does
  <2>2. Admitted' = Mutated(call.body, o.obj)  BY <1>1, <2>1 DEF Admitted, Mutated
  <2>3. ASSUME o.err = {} PROVE Mutated(call.body, o.obj) \in AdmissionBy(conf.hook, call.body)
    BY <1>2, <1>5, <1>8, <2>3 DEF AdmissionBy
  <2> QED  BY <1>1, <1>2, <2>1, <2>2, <2>3 DEF HookRuns, Admits
<1> QED  BY <1>2, <1>6, <1>7, <1>8 DEF Sync

LEMMA StepCache ==
  ASSUME Ctx, Step
  PROVE  CacheInv'
<1>1. UNCHANGED <<conf, stored, want, memo, phase, read, call>> /\ StoredAdmitted /\ MemoTrue
      /\ phase \in {"run", "hook"}
  BY DEF Step, requestVars, Ctx, CacheInv
<1>2. HookRuns'
  <2>1. CASE phase = "hook"  BY <2>1, HookStep
  <2>2. CASE phase # "hook"  BY <1>1, <2>2 DEF HookRuns
  <2> QED  BY <2>1, <2>2
<1> QED
  BY <1>1, <1>2, GoOnCache, ConfKept DEF Ctx, CacheInv, StillAbsent, UpdateSent, Same

LEMMA EndTreeCache ==
  ASSUME Ctx, EndTree
  PROVE  CacheInv'
<1>1. /\ UNCHANGED <<conf, stored, memo, read, call>> /\ phase = "run" /\ conf.host = "aggregate"
      /\ StoredAdmitted /\ MemoTrue /\ StillAbsent
  BY DEF EndTree, Ctx, CacheInv, Desiring
<1>2. phase' \in {"crashed", "done", "desire"}
  BY <1>1 DEF EndTree, EndAggregate, Answer
<1> QED  BY <1>1, <1>2, GoOnCache DEF CacheInv, StillAbsent, UpdateSent, HookRuns

LEMMA DesireCache ==
  ASSUME Ctx, NEW o \in Fates, Desire(o)
  PROVE  CacheInv'
<1>1. /\ UNCHANGED <<conf, stored, memo, read, flowVars, want>> /\ phase = "desire"
      /\ StoredAdmitted /\ MemoTrue /\ conf.given /\ HostTypes
  BY DEF Desire, Ctx, CacheInv, Desiring, Inv
<1>2. CASE phase' = "done"
  BY <1>1, <1>2, GoOnCache DEF CacheInv, StillAbsent, UpdateSent, HookRuns
<1>3. CASE phase' # "done"
  <2>1. /\ phase' = "send"
        /\ call' = [verb |-> NextCall, goal |-> Goal,
                    body |-> CASE NextCall = "delete" -> Blank
                               [] NextCall = "create" -> Goal
                               [] NextCall = "update" -> Patched(Goal)]
    BY <1>3 DEF Desire, Answer
  <2>2. ASSUME call'.verb = "update"
        PROVE  call'.goal \in Desired /\ Same(call'.body, call'.goal, Own)
    <3>1. NextCall = "update" /\ call'.goal = Goal /\ call'.body = Patched(Goal)  BY <2>1, <2>2
    <3>2. Goal # NoObject /\ Goal = want  BY <1>1, <3>1 DEF NextCall, Goal
    <3>3. Goal \in Objects  BY <3>2, GoalType DEF Ctx
    <3> QED  BY <1>1, <3>1, <3>2, <3>3, PatchedSame DEF HostTypes, Desired
  <2> QED
    BY <1>1, <2>1, <2>2, GoOnCache, ConfKept
       DEF CacheInv, StillAbsent, UpdateSent, HookRuns, Same
<1> QED  BY <1>2, <1>3

\* A write of the worker other than its creations and updates, or of somebody else.
LEMMA StoreCache ==
  ASSUME Ctx, NEW new, Store(new), new.body \in Admissible, new.there => stored.there,
         UNCHANGED <<flowVars, conf, call>>, UNCHANGED phase \/ phase' = "done"
  PROVE  CacheInv'
<1>1. StoredAdmitted /\ MemoTrue /\ phase # "status" /\ StillAbsent /\ UpdateSent /\ HookRuns
      /\ UNCHANGED <<prog, deleting, stack, ret, res, story>>
  BY DEF Ctx, CacheInv, flowVars
<1>2. /\ StoredAdmitted' /\ MemoTrue' /\ read'.there = read.there
      /\ stored'.there => stored.there
  BY <1>1, StoreKeeps DEF Ctx
<1>3. StillAbsent'  BY <1>1, <1>2 DEF StillAbsent
<1>4. UpdateSent'  BY <1>1, ConfKept DEF UpdateSent, Same
<1>5. HookRuns'  BY <1>1 DEF HookRuns, Admits, Admitted, Mutated
<1> QED  BY <1>1, <1>2, <1>3, <1>4, <1>5 DEF CacheInv

LEMMA BlankAdmissible == Blank \in Admissible
BY DEF Admissible

LEMMA SendDeleteCache ==
  ASSUME Ctx, NEW o \in Fates, SendDelete(o)
  PROVE  CacheInv'
<1>1. UNCHANGED <<flowVars, conf, call>> /\ phase' = "done"  BY DEF SendDelete, Answer
<1>2. CASE UNCHANGED <<stored, memo, read, queued>>
  <2>1. StoredAdmitted' /\ MemoTrue'  BY <1>1, <1>2, GoOnCache DEF Ctx, CacheInv
  <2> QED  BY <1>1, <2>1 DEF CacheInv, StillAbsent, UpdateSent, HookRuns
<1>3. CASE ~UNCHANGED <<stored, memo, read, queued>>
  <2> DEFINE new == IF stored.held THEN [stored EXCEPT !.deleting = TRUE] ELSE Gone
  <2>1. stored.there /\ Store(new)  BY <1>3 DEF SendDelete
  <2>2. new.body \in Admissible
    BY BlankAdmissible DEF Gone, Ctx, CacheInv, StoredAdmitted, Inv, HostTypes, Stored
  <2> HIDE DEF new
  <2> QED  BY <1>1, <2>1, <2>2, StoreCache
<1> QED  BY <1>2, <1>3

LEMMA SendCache ==
  ASSUME Ctx, Send
  PROVE  CacheInv'
<1>1. /\ UNCHANGED <<conf, stored, memo, read, call>> /\ phase = "send" /\ phase' = "hook"
      /\ StartFlow(conf.hook, Defaulted[call.body], FALSE) /\ Serves(call.verb)
      /\ StoredAdmitted /\ MemoTrue /\ UpdateSent
  BY DEF Send, Ctx, CacheInv
<1>2. call.verb = "update" => ~conf.duck  BY <1>1 DEF Serves
<1>3. UpdateSent'  BY <1>1, <1>2, ConfKept DEF UpdateSent, Same
<1>4. stack' = <<NewFrame(1)>> /\ stack' # <<>>  BY <1>1 DEF StartFlow, NewFrame
<1>5. NewFrame(1)' = NewFrame(1)  BY DEF NewFrame
<1>6. HookRuns'  BY <1>1, <1>4, <1>5 DEF HookRuns, StartFlow
<1> QED  BY <1>1, <1>3, <1>6, GoOnCache DEF CacheInv, StillAbsent

LEMMA WriteCache ==
  ASSUME Ctx, NEW o \in Fates, Write(o)
  PROVE  CacheInv'
<1>1. /\ UNCHANGED <<conf, call>> /\ phase = "hook" /\ phase' = "done" /\ stack = <<>>
      /\ StoredAdmitted /\ MemoTrue /\ UpdateSent /\ HookRuns /\ HostTypes
  BY DEF Write, Answer, Ctx, CacheInv, Inv
<1>2. CASE UNCHANGED <<stored, memo, read, queued>>
  <2>1. StoredAdmitted' /\ MemoTrue'  BY <1>1, <1>2, GoOnCache
  <2> QED  BY <1>1, <2>1 DEF CacheInv, StillAbsent, UpdateSent, HookRuns
<1>3. CASE ~UNCHANGED <<stored, memo, read, queued>>
  <2> DEFINE new == IF call.verb = "create"
                      THEN [there |-> TRUE, deleting |-> FALSE, held |-> FALSE, body |-> Admitted]
                      ELSE [stored EXCEPT !.body = Admitted]
  <2>1. /\ Admits /\ IF call.verb = "create" THEN ~stored.there ELSE stored.there
        /\ stored' = new
        /\ read' = [read EXCEPT !.current = read.current /\ new = stored]
        /\ memo' = IF o = "ok" /\ call.verb = "update" THEN Capture ELSE memo
    BY <1>3 DEF Write
  <2>2. Admitted \in AdmissionBy(conf.hook, call.body) /\ call.body \in Objects
    BY <1>1, <2>1 DEF HookRuns, HostTypes, Sending
  <2>3. Admitted \in Admissible  BY <1>1, <2>2, AdmissionType
  <2>4. stored'.body = Admitted /\ stored'.there /\ read'.body = read.body
    BY <1>1, <2>1 DEF HostTypes, Stored, Read
  <2>5. Own' = Own /\ Admissible' = Admissible /\ Desired' = Desired  BY <1>1, ConfKept
  <2>6. StoredAdmitted'  BY <1>1, <2>3, <2>4, <2>5 DEF StoredAdmitted
  <2>7. ASSUME memo' = memo PROVE MemoTrue'
    BY <1>1, <2>4, <2>5, <2>7 DEF MemoTrue, Same
  <2>8. ASSUME call.verb = "update", memo' = Capture PROVE MemoTrue'
    <3>1. call.goal \in Desired /\ Same(call.body, call.goal, Own) /\ ~conf.duck
      BY <1>1, <2>8 DEF UpdateSent
    <3>2. OwnFields(conf, Own)  BY OwnIs DEF Ctx
    <3>3. Same(Admitted, call.body, Own)
      BY <2>2, <3>1, <3>2 DEF OwnFields, Desired
    <3>4. Same(Admitted, call.goal, Own)  BY <3>1, <3>3 DEF Same
    <3>5. memo' = [known |-> TRUE, goal |-> call.goal, base |-> call.goal, to |-> Admitted]
      BY <2>8 DEF Capture
    <3> QED
      BY <1>1, <2>3, <2>4, <2>5, <3>1, <3>4, <3>5 DEF MemoTrue, Same
  <2>9. MemoTrue'
    <3>1. memo' = memo \/ (call.verb = "update" /\ memo' = Capture)  BY <2>1
    <3> QED  BY <2>7, <2>8, <3>1
  <2> QED  BY <1>1, <2>6, <2>9 DEF CacheInv, StillAbsent, UpdateSent, HookRuns
<1> QED  BY <1>2, <1>3

LEMMA BlankedCache ==
  ASSUME Ctx, Blanked, UNCHANGED <<conf, stored>>, phase' = "idle", memo' \in {memo, NoMemo}
  PROVE  CacheInv'
<1>1. read'.body = Blank /\ Seen(conf.fields, Blank) = Blank
  BY DEF Blanked, NothingRead, Seen, Blank
<1>2. Own' = Own /\ Admissible' = Admissible /\ Desired' = Desired  BY ConfKept
<1>3. StoredAdmitted'  BY <1>1, <1>2, BlankAdmissible DEF StoredAdmitted, Ctx, CacheInv
<1>4. MemoTrue'  BY <1>2 DEF MemoTrue, Same, NoMemo, Ctx, CacheInv
<1> QED  BY <1>3, <1>4 DEF CacheInv, StillAbsent, UpdateSent, HookRuns

LEMMA OthersCache ==
  ASSUME Ctx, Others
  PROVE  CacheInv'
<1>1. StoredAdmitted /\ MemoTrue /\ StillAbsent /\ UpdateSent /\ HookRuns /\ phase # "status"
      /\ stored \in Stored /\ HostTypes
  BY DEF Ctx, CacheInv, Inv, HostTypes
<1>2. CASE ChangeWant \/ Expire
  <2>1. /\ UNCHANGED <<conf, stored, read, phase, call, flowVars>> /\ memo' \in {memo, NoMemo}
    BY <1>2 DEF ChangeWant, Expire, requestVars
  <2>2. MemoTrue'  BY <1>1, <2>1, ConfKept DEF MemoTrue, Same, NoMemo
  <2>3. StoredAdmitted'  BY <1>1, <2>1, ConfKept DEF StoredAdmitted
  <2>4. UpdateSent'  BY <1>1, <2>1, ConfKept DEF UpdateSent, Same
  <2>5. HookRuns'  BY <1>1, <2>1 DEF HookRuns, Admits, Admitted, Mutated, flowVars
  <2> QED  BY <1>1, <2>1, <2>2, <2>3, <2>4, <2>5 DEF CacheInv, StillAbsent
<1>3. CASE Edit
  <2>1. PICK obj \in Objects : \E body \in Admission(obj) :
          stored.there /\ Store([stored EXCEPT !.body = body])
    BY <1>3 DEF Edit, Ctx, Desiring
  <2>2. PICK body \in AdmissionBy(conf.hook, obj) :
          stored.there /\ Store([stored EXCEPT !.body = body])
    BY <2>1 DEF Admission
  <2> DEFINE new == [stored EXCEPT !.body = body]
  <2>3. new.body = body /\ body \in Admissible  BY <1>1, <2>2, AdmissionType DEF Stored
  <2>4. Store(new) /\ stored.there  BY <2>2
  <2>5. UNCHANGED <<flowVars, conf, call, phase>>  BY <1>3 DEF Edit
  <2> HIDE DEF new
  <2> QED  BY <2>3, <2>4, <2>5, StoreCache
<1>4. CASE Delete
  <2> DEFINE new == [stored EXCEPT !.deleting = TRUE]
  <2>1. new.body = stored.body /\ Store(new) /\ stored.there  BY <1>1, <1>4 DEF Delete, Stored
  <2>2. UNCHANGED <<flowVars, conf, call, phase>>  BY <1>4 DEF Delete
  <2> HIDE DEF new
  <2> QED  BY <1>1, <2>1, <2>2, StoreCache DEF StoredAdmitted
<1>5. CASE Release
  <2> DEFINE new == [stored EXCEPT !.held = FALSE]
  <2>1. new.body = stored.body /\ Store(new) /\ new.there = stored.there
    BY <1>1, <1>5 DEF Release, Stored
  <2>2. UNCHANGED <<flowVars, conf, call, phase>>  BY <1>5 DEF Release
  <2> HIDE DEF new
  <2> QED  BY <1>1, <2>1, <2>2, StoreCache DEF StoredAdmitted
<1>6. CASE Vanish
  <2>1. Store(Gone) /\ Gone.body = Blank /\ ~Gone.there /\ UNCHANGED <<flowVars, conf, call, phase>>
    BY <1>6 DEF Vanish, Gone
  <2> QED  BY <2>1, StoreCache, BlankAdmissible
<1>7. CASE Restart  BY <1>7, BlankedCache DEF Restart
<1> QED  BY <1>2, <1>3, <1>4, <1>5, <1>6, <1>7 DEF Others

LEMMA CacheNext ==
  ASSUME Inv, CacheInv, Desiring(conf), Polite(conf), Next
  PROVE  CacheInv'
<1> Ctx  BY DEF Ctx
<1>1. CASE Setup
  <2>1. UNCHANGED <<conf, stored, memo, read, call>> /\ phase' \in {"idle", "refused"}
    BY <1>1 DEF Setup
  <2> QED
    BY <2>1, GoOnCache DEF Ctx, CacheInv, StillAbsent, UpdateSent, HookRuns
<1>2. CASE Unsupported
  <2>1. UNCHANGED <<conf, stored, memo, read, call>> /\ phase' = "done"
    BY <1>2 DEF Unsupported, Answer
  <2> QED
    BY <2>1, GoOnCache DEF Ctx, CacheInv, StillAbsent, UpdateSent, HookRuns
<1>3. ASSUME NEW o \in Fates, WriteStatus(o) PROVE CacheInv'
  BY <1>3 DEF WriteStatus, Ctx, CacheInv
<1>4. CASE Forget  BY <1>4, BlankedCache DEF Forget
<1> QED
  BY <1>1, <1>2, <1>3, <1>4, BeginCache, StepCache, EndTreeCache, DesireCache, SendDeleteCache,
     SendCache, WriteCache, OthersCache DEF Next, Worker

LEMMA CacheInit ==
  ASSUME Init
  PROVE  CacheInv /\ NoUpdates
<1>1. stored.body = Blank /\ read.body = Blank /\ ~memo.known /\ phase = "new" /\ call.verb = "none"
  <2>1. stored = Gone \/ stored.body = Blank  BY DEF Init
  <2> QED  BY <2>1 DEF Init, Gone, NothingRead, NoMemo, NoCall
<1>2. Seen(conf.fields, Blank) = Blank  BY DEF Seen, Blank
<1>3. StoredAdmitted  BY <1>1, <1>2, BlankAdmissible DEF StoredAdmitted
<1> QED
  BY <1>1, <1>3 DEF CacheInv, NoUpdates, StillAbsent, UpdateSent, MemoTrue, HookRuns

LEMMA CacheStutter ==
  ASSUME CacheInv, UNCHANGED vars
  PROVE  CacheInv'
<1>1. UNCHANGED <<conf, stored, memo, read, phase, call, prog, deleting, stack, ret, res, story>>
  BY DEF vars, flowVars, requestVars
<1>2. Own' = Own /\ Admissible' = Admissible /\ Desired' = Desired  BY <1>1, ConfKept
<1> QED
  BY <1>1, <1>2 DEF CacheInv, StoredAdmitted, StillAbsent, UpdateSent, MemoTrue, HookRuns,
                    Same, Desiring, Admits, Admitted, Mutated

LEMMA SameConf ==
  ASSUME Next
  PROVE  UNCHANGED conf
BY DEF Next, Worker, Others, Setup, Begin, Step, EndTree, WriteStatus, Desire, SendDelete,
       Unsupported, Send, Write, Forget, ChangeWant, Edit, Delete, Release, Vanish, Expire,
       Restart

\* Where the desired resource is not given, what was read is desired.
LEMMA NoUpdatesNext ==
  ASSUME Inv, HostPhases, NoUpdates, Next
  PROVE  NoUpdates'
<1>1. UNCHANGED conf  BY SameConf
<1> SUFFICES ASSUME ~Desiring(conf) PROVE ~memo'.known /\ call'.verb # "update"
  BY <1>1 DEF NoUpdates, Desiring
<1>2. ~memo.known /\ call.verb # "update"  BY DEF NoUpdates
<1>3. ~NoMemo.known /\ NoCall.verb # "update"  BY DEF NoMemo, NoCall
<1>4. ASSUME NEW o \in Fates, Desire(o) PROVE ~memo'.known /\ call'.verb # "update"
  <2>1. phase = "desire" /\ UNCHANGED memo  BY <1>4 DEF Desire
  <2>2. ~conf.given
    BY <2>1, Constants DEF HostPhases, Desiring, Inv, HostTypes, Configuration, Hosts
  <2>3. Goal = res /\ Goal # NoObject
    BY <2>2, RequestsAssumption DEF Goal, Inv, FlowTypes
  <2>4. NextCall # "update"  BY <1>2, <2>3 DEF NextCall, InSync, Patched, Fits
  <2>5. call' = call \/ call'.verb = NextCall  BY <1>4 DEF Desire
  <2> QED  BY <1>2, <2>1, <2>4, <2>5
<1>5. ASSUME NEW o \in Fates, WriteStatus(o) \/ SendDelete(o) \/ Write(o)
      PROVE  ~memo'.known /\ call'.verb # "update"
  BY <1>2, <1>3, <1>5 DEF WriteStatus, SendDelete, Write, Store
<1>6. ASSUME Setup \/ Step \/ EndTree \/ Unsupported \/ Send \/ Forget
             \/ \E o \in Fates : Begin(o)
      PROVE  ~memo'.known /\ call'.verb # "update"
  BY <1>2, <1>3, <1>6
     DEF Setup, Step, EndTree, Unsupported, Send, Forget, Begin, Blanked, requestVars
<1>7. ASSUME Others PROVE ~memo'.known /\ call'.verb # "update"
  BY <1>2, <1>3, <1>7
     DEF Others, ChangeWant, Edit, Delete, Release, Vanish, Expire, Restart, Blanked, Store,
         requestVars
<1> QED  BY <1>4, <1>5, <1>6, <1>7 DEF Next, Worker

\* The inductive invariant: what is remembered of an update is what the webhook makes
\* of anything that is desired and stored like that.
THEOREM CacheInvariant ==
  ASSUME AllPolite
  PROVE  Spec => [](CacheInv /\ NoUpdates)
<1>1. Init => CacheInv /\ NoUpdates  BY CacheInit
<1>2. Inv /\ OutcomeInv /\ CacheInv /\ NoUpdates /\ [Next]_vars => (CacheInv /\ NoUpdates)'
  <2> SUFFICES ASSUME Inv, OutcomeInv, CacheInv, NoUpdates, [Next]_vars
               PROVE  CacheInv' /\ NoUpdates'
    OBVIOUS
  <2>1. CASE UNCHANGED vars
    <3>1. UNCHANGED <<memo, call, conf>>  BY <2>1 DEF vars, requestVars
    <3> QED  BY <2>1, <3>1, CacheStutter DEF NoUpdates, Desiring
  <2>2. CASE Next
    <3>1. NoUpdates'  BY <2>2, NoUpdatesNext DEF OutcomeInv
    <3>2. UNCHANGED conf  BY <2>2, SameConf
    <3>3. CASE Desiring(conf)
      <4>1. Polite(conf)  BY <3>3 DEF AllPolite, Inv, HostTypes
      <4> QED  BY <2>2, <3>1, <3>3, <4>1, CacheNext
    <3>4. CASE ~Desiring(conf)  BY <3>1, <3>2, <3>4 DEF CacheInv, Desiring
    <3> QED  BY <3>3, <3>4
  <2> QED  BY <2>1, <2>2
<1> QED  BY <1>1, <1>2, RequestsInvariant, OutcomeInvariant, PTL DEF Spec

LEMMA DesireStep ==
  ASSUME Next, phase = "desire", phase' \in {"send", "done"}
  PROVE  \E o \in Fates : Desire(o)
BY DEF Next, Worker, Others, Setup, Step, EndTree, Unsupported, Send, Forget, Begin, WriteStatus,
       SendDelete, Write, ChangeWant, Edit, Delete, Release, Vanish, Expire, Restart,
       requestVars

LEMMA WholeObject ==
  ASSUME NEW obj \in Objects
  PROVE  Seen(Keys, obj) = obj
BY ObjectAssumption DEF Seen

\* An update that would change nothing is sent once for what is desired, and not again
\* while the ResourceManager's cache remembers it, for every webhook that keeps to its
\* fields, after edits, failed calls and changes of what is desired.
THEOREM IdleUpdatesHappenOnce ==
  ASSUME AllPolite
  PROVE  Spec => IdleOnce
<1> DEFINE P == phase = "desire" /\ phase' = "send" /\ memo.known /\ memo.goal = Goal /\ ~conf.counts =>
                  res \notin {Seen(conf.fields, o) : o \in Admission(Goal)}
<1>1. ASSUME Inv, CacheInv, NoUpdates, Next PROVE P
  <2> SUFFICES ASSUME phase = "desire", phase' = "send", memo.known, memo.goal = Goal, ~conf.counts,
                      NEW o \in Admission(Goal), res = Seen(conf.fields, o)
               PROVE  FALSE
    OBVIOUS
  <2>1. Desiring(conf) /\ Polite(conf)
    BY <1>1 DEF NoUpdates, AllPolite, Inv, HostTypes
  <2>2. /\ stored.there /\ ~conf.duck /\ memo.base = Goal /\ Goal \in Desired
        /\ memo.to \in Admissible /\ Same(memo.to, Goal, Own) /\ StillAbsent
    BY <1>1, <2>1 DEF CacheInv, MemoTrue
  <2>3. OwnFields(conf, Own)  BY <2>1, OwnIs
  <2>4. AdmissionBy(conf.hook, Goal) = {memo.to}
    BY <2>2, <2>3 DEF OwnFields, Desired, Admissible
  <2>5. memo.to \in Objects /\ Goal \in Objects /\ conf.fields = Keys
    BY <1>1, <2>2, GoalType, RequestsAssumption DEF Desired, Inv, HostTypes, Memo
  <2>6. res = memo.to  BY <2>4, <2>5, WholeObject DEF Admission
  <2>7. Patched(Goal) = memo.to
    <3>1. Fits(Goal)  BY <2>2 DEF Fits
    <3>2. Patched(Goal) = [k \in Keys |-> memo.to[k]]  BY <2>2, <3>1 DEF Patched, Applied
    <3> QED  BY <2>5, <3>2, ObjectAssumption
  <2>8. read.there /\ Goal # NoObject  BY <2>2, <2>5, RequestsAssumption DEF StillAbsent
  <2>9. NextCall = "none"  BY <2>6, <2>7, <2>8 DEF NextCall, InSync
  <2>10. PICK f \in Fates : Desire(f)  BY <1>1, DesireStep
  <2> QED  BY <2>9, <2>10 DEF Desire, Answer
<1>2. ASSUME UNCHANGED vars PROVE P
  BY <1>2 DEF vars, requestVars
<1>3. Inv /\ CacheInv /\ NoUpdates /\ [Next]_vars => [P]_vars  BY <1>1, <1>2
<1> QED  BY <1>3, RequestsInvariant, CacheInvariant, PTL DEF Spec, IdleOnce

-----------------------------------------------------------------------------
(* A tree that only looks at the resource leaves it as it was read.          *)

\* What a step of the tree adds to the calls, besides those that go on.
LEMMA NewCasts ==
  ASSUME FlowTypes, FlowStep, NEW f \in Range(stack'), Casting(f)
  PROVE  \/ f \in Range(Outer)
         \/ Cast /\ f.node = Top.node /\ f.saved = res /\ Reconciler.subs[1] # 0
<1>1. stack # <<>> /\ Outer \in Seq(Frames(prog))
  BY Split DEF FlowStep
<1>2. Top \in Frame  BY <1>1, Current
<1>3. \A n : ~Casting(NewFrame(n))  BY DEF Casting, NewFrame
<1>4. CASE stack' = Outer  BY <1>4
<1>5. ASSUME NEW g, stack' = Append(Outer, g), ~Casting(g) PROVE f \in Range(Outer)
  <2>1. Outer \in Seq(Frames(prog) \cup {g})  BY <1>1, SeqMonotonic
  <2>2. Range(stack') = Range(Outer) \cup {g}  BY <1>5, <2>1, Pushed
  <2> QED  BY <1>5, <2>2
<1>6. ASSUME NEW g, NEW h, stack' = Outer \o <<g, h>>, ~Casting(h)
      PROVE  f \in Range(Outer) \/ f = g
  <2> DEFINE S == Frames(prog) \cup {g, h}
  <2>1. Outer \in Seq(S) /\ g \in S /\ h \in S  BY <1>1, SeqMonotonic
  <2> HIDE DEF S
  <2>2. LET t == Outer \o <<g, h>> IN Range(t) = Range(Outer) \cup {g, h}
    BY <2>1, PushedTwice
  <2> QED  BY <1>6, <2>2
<1>7. ASSUME Panic PROVE FALSE
  <2>1. Range(stack') = {}  BY <1>7, NoCalls DEF Panic
  <2> QED  BY <2>1
<1>8. ASSUME NEW n, Become(n) PROVE f \in Range(Outer)
  <2>1. Panic \/ stack' = Append(Outer, NewFrame(n))  BY <1>8 DEF Become
  <2> QED  BY <1>3, <1>5, <1>7, <2>1
<1>9. ASSUME NEW g, NEW n, NEW obj, CallWith(g, n, obj) PROVE f \in Range(Outer) \/ f = g
  <2>1. Panic \/ stack' = Outer \o <<g, NewFrame(n)>>  BY <1>9 DEF CallWith
  <2> QED  BY <1>3, <1>6, <1>7, <2>1
<1>10. ASSUME NEW g, g.node = Top.node, f = g, Reconciler.kind # "cast" PROVE FALSE
  BY <1>10 DEF Casting, NodeOf, Reconciler
<1>11. ASSUME NEW r, NEW e, Leave(r, e), Reconciler.kind = "trycatch" PROVE f \in Range(Outer)
  <2> DEFINE g == [Top EXCEPT !.at = 2, !.acc = r, !.err = e]
  <2>1. g.node = Top.node  BY <1>2 DEF Frame
  <2>2. stack' = Outer \/ stack' = Outer \o <<g, NewFrame(Reconciler.subs[2])>>
    BY <1>11 DEF Leave, Return
  <2> HIDE DEF g
  <2> QED  BY <1>3, <1>4, <1>6, <1>10, <1>11, <2>1, <2>2
<1>12. CASE Sequence
  <2> DEFINE g == [Top EXCEPT !.at = Top.at + 1, !.acc = AggregateResults(ret.result, Top.acc)]
  <2>1. g.node = Top.node  BY <1>2 DEF Frame
  <2>2. stack' = Outer \/ CallWith(g, Reconciler.subs[Top.at + 1], res)
    BY <1>12 DEF Sequence, Return, Call
  <2>3. Reconciler.kind # "cast"  BY <1>12 DEF Sequence
  <2> HIDE DEF g
  <2> QED  BY <1>4, <1>9, <1>10, <2>1, <2>2, <2>3
<1>13. CASE While
  <2> DEFINE g == [Top EXCEPT !.at = Top.at + 1, !.acc = AggregateResults(Top.acc, ret.result)]
  <2>1. g.node = Top.node  BY <1>2 DEF Frame
  <2>2. stack' = Outer \/ CallWith(g, Reconciler.subs[1], res)
    BY <1>7, <1>13 DEF While, Return, Call
  <2>3. Reconciler.kind # "cast"  BY <1>13 DEF While
  <2> HIDE DEF g
  <2> QED  BY <1>4, <1>9, <1>10, <2>1, <2>2, <2>3
<1>14. CASE Try
  <2> DEFINE g == [Top EXCEPT !.at = 1]
  <2>1. g.node = Top.node  BY <1>2 DEF Frame
  <2>2. CallWith(g, Reconciler.subs[1], res) /\ Reconciler.kind # "cast"
    BY <1>14 DEF Try, Call
  <2> HIDE DEF g
  <2> QED  BY <1>9, <1>10, <2>1, <2>2
<1>15. CASE Propagate \/ Finally \/ \E o \in Reconciler.does[res] : Catch(o)
  BY <1>4, <1>11, <1>15 DEF Propagate, Finally, Catch, Return
<1>16. CASE IfThen \/ OverrideSetup \/ WithConfig
  BY <1>4, <1>7, <1>8, <1>16 DEF IfThen, OverrideSetup, WithConfig, Return
<1>17. CASE Cast
  <2> DEFINE g == [Top EXCEPT !.at = 1, !.saved = res]
  <2>1. g.node = Top.node /\ g.saved = res  BY <1>2 DEF Frame
  <2>2. \/ stack' = Outer \/ Become(Reconciler.subs[1])
        \/ CallWith(g, Reconciler.subs[1], Seen(CastType, res))
    BY <1>17 DEF Cast, Return
  <2>3. CASE CallWith(g, Reconciler.subs[1], Seen(CastType, res))
    <3>1. CASE Reconciler.subs[1] = 0  BY <1>7, <2>3, <3>1 DEF CallWith
    <3> HIDE DEF g
    <3> QED  BY <1>9, <1>17, <2>1, <2>3, <3>1
  <2> HIDE DEF g
  <2> QED  BY <1>4, <1>8, <2>2, <2>3
<1>18. CASE CastBack  BY <1>4, <1>18 DEF CastBack, Return
<1>19. CASE Sync \/ Finalize
  <2>1. Reconciler.kind # "cast"  BY <1>19 DEF Sync, Finalize
  <2>2. CASE stack' = Outer  BY <1>4, <2>2
  <2>3. ASSUME NEW o, stack' = Append(Outer, [Top EXCEPT !.at = 1, !.acc = o.result])
        PROVE  f \in Range(Outer)
    <3> DEFINE g == [Top EXCEPT !.at = 1, !.acc = o.result]
    <3>1. g.node = Top.node /\ stack' = Append(Outer, g)  BY <1>2, <2>3 DEF Frame
    <3> HIDE DEF g
    <3>2. ~Casting(g)  BY <2>1, <3>1 DEF Casting, NodeOf, Reconciler
    <3> QED  BY <1>5, <3>1, <3>2
  <2> QED  BY <1>7, <1>19, <2>2, <2>3 DEF Sync, Finalize, Return
<1> QED
  BY <1>12, <1>13, <1>14, <1>15, <1>16, <1>17, <1>18, <1>19, <1>1 DEF FlowStep

\* What was written is what was there, and copies are copies of it.
Untouched ==
  /\ story.written = read.body /\ "patch" \notin story.raised
  /\ \A f \in Range(stack) : Casting(f) => \A k \in TypeOf(f) : f.saved[k] = story.written[k]

\* There is nothing to patch back.
LEMMA SameCopy ==
  ASSUME FlowTypes, stack # <<>>, Intact, Untouched, Reconciler.kind = "cast", Top.at = 1
  PROVE  res = Seen(CastType, Top.saved)
<1>1. /\ Top \in Frame /\ Range(stack) = Range(Outer) \cup {Top}
      /\ Top.saved \in Objects /\ res \in Objects
  BY Current, Split DEF FlowTypes, Frame
<1>2. Casting(Top) /\ TypeOf(Top) = CastType /\ Level = CastType
  <2>1. NodeOf(Top) = Reconciler  BY DEF NodeOf, Reconciler
  <2>2. Casting(Top)  BY <2>1 DEF Casting
  <2>3. TypeOf(Top) = CastType  BY <2>1, <2>2 DEF TypeOf, CastType
  <2> QED  BY <2>2, <2>3, ChainOuter DEF Intact
<1>3. HasType(res, CastType) /\ \A k \in CastType : res[k] = story.written[k]
  BY <1>2 DEF Intact, ObjectsTyped, FieldsKept, Untouched
<1>4. \A k \in CastType : Top.saved[k] = story.written[k]  BY <1>1, <1>2 DEF Untouched
<1>5. /\ Seen(CastType, Top.saved) \in Objects
      /\ HasType(Seen(CastType, Top.saved), CastType)
  BY <1>1, TypeMeans
<1>6. \A k \in Keys \cap CastType : Seen(CastType, Top.saved)[k] = res[k]
  BY <1>3, <1>4 DEF Seen
<1>7. \A k \in Keys : Seen(CastType, Top.saved)[k] = res[k]
  BY <1>1, <1>3, <1>5, <1>6, TypeMeans
<1> QED  BY <1>1, <1>5, <1>7, ObjectAssumption

LEMMA LookStory ==
  ASSUME FlowTypes, FlowStep, Intact, Untouched, OnlyLooks(prog)
  PROVE  /\ story'.panicked \/ "patch" \notin story'.raised
         /\ story'.written = story.written
<1>1. stack # <<>> /\ story \in Story /\ res \in Objects  BY DEF FlowStep, FlowTypes
<1>2. ASSUME NEW o \in Reconciler.does[res] \cup Reconciler.ends[res],
             story'.written = Applied(res, o.obj, story.written),
             story'.raised = story.raised \cup o.err
      PROVE  "patch" \notin story'.raised /\ story'.written = story.written
  <2>1. Reconciler = Tree[prog][Top.node] /\ Top.node \in DOMAIN Tree[prog]
    BY <1>1, Current DEF Reconciler, Frames
  <2>2. o.obj = res /\ "patch" \notin o.err  BY <1>1, <1>2, <2>1 DEF OnlyLooks
  <2>3. Applied(res, res, story.written) = [k \in Keys |-> story.written[k]]  BY DEF Applied
  <2>4. story.written \in Objects  BY <1>1 DEF Story
  <2> QED  BY <1>2, <2>2, <2>3, <2>4, ObjectAssumption DEF Untouched
<1>3. ASSUME NEW o \in Reconciler.does[res] \cup Reconciler.ends[res], Does(o) \/ Catch(o)
      PROVE  "patch" \notin story'.raised /\ story'.written = story.written
  <2>1. /\ story'.written = Applied(res, o.obj, story.written)
        /\ story'.raised = story.raised \cup o.err
    BY <1>1, <1>3 DEF Does, Catch, Story
  <2> QED  BY <1>2, <2>1
<1>4. ASSUME NEW cause, cause # "patch", Raise({cause})
      PROVE  "patch" \notin story'.raised /\ story'.written = story.written
  BY <1>1, <1>4 DEF Raise, Untouched, Story
<1>5. CASE Panic  BY <1>1, <1>5 DEF Panic, Story
<1>6. CASE UNCHANGED story  BY <1>6 DEF Untouched
<1>7. CASE CastBack
  <2>1. Reconciler.kind = "cast" /\ Top.at = 1  BY <1>7 DEF CastBack
  <2>2. res = Seen(CastType, Top.saved)  BY <1>1, <2>1, SameCopy
  <2>3. UNCHANGED story  BY <1>7, <2>2 DEF CastBack
  <2> QED  BY <1>6, <2>3
<1>8. CASE IfThen \/ OverrideSetup \/ WithConfig \/ Cast
  BY <1>4, <1>5, <1>6, <1>8 DEF IfThen, OverrideSetup, WithConfig, Cast, Become, CallWith
<1>9. CASE Sequence \/ While \/ Try \/ Propagate \/ Finally
  BY <1>4, <1>5, <1>6, <1>9 DEF Sequence, While, Try, Propagate, Finally, Call, CallWith
<1>10. CASE Sync \/ Finalize \/ \E o \in Reconciler.does[res] : Catch(o)
  BY <1>3, <1>5, <1>6, <1>10 DEF Sync, Finalize
<1> QED  BY <1>7, <1>8, <1>9, <1>10 DEF FlowStep

LEMMA LookStep ==
  ASSUME FlowTypes, FlowStep, Intact, Untouched, OnlyLooks(prog), CastsNarrow, read' = read
  PROVE  story'.panicked \/ Untouched'
<1>1. stack # <<>> /\ UNCHANGED prog /\ Range(stack) = Range(Outer) \cup {Top}
  BY Split DEF FlowStep
<1>2. /\ story'.panicked \/ "patch" \notin story'.raised
      /\ story'.written = story.written
  BY LookStory
<1>3. \A f : (Casting(f)' <=> Casting(f)) /\ TypeOf(f)' = TypeOf(f)  BY <1>1, Constant
<1>4. ASSUME NEW f \in Range(stack'), Casting(f), NEW k \in TypeOf(f)
      PROVE  f.saved[k] = story.written[k]
  <2>1. CASE f \in Range(Outer)  BY <1>1, <1>4, <2>1 DEF Untouched
  <2>2. CASE Cast /\ f.node = Top.node /\ f.saved = res /\ Reconciler.subs[1] # 0
    <3>1. Reconciler.kind = "cast" /\ Top.at = 0  BY <2>2 DEF Cast
    <3>2. NodeOf(f) = Reconciler /\ NodeOf(Top) = Reconciler  BY <2>2 DEF NodeOf, Reconciler
    <3>3. Level = Reconciler.fields
      BY <1>1, <3>1, <3>2, ChainOuter DEF Intact, TypeOf, Casting
    <3>4. TypeOf(f) = CastType  BY <1>4, <3>2 DEF TypeOf, CastType
    <3>5. Reconciler.subs[1] # 0  BY <2>2
    <3>6. Top.node \in DOMAIN Tree[prog] /\ prog \in Programs
      BY <1>1, Current DEF Frames, FlowTypes
    <3>7. CastType \subseteq Reconciler.fields
      BY <3>1, <3>5, <3>6 DEF CastsNarrow, CastType, Reconciler
    <3> QED  BY <1>4, <2>2, <3>3, <3>4, <3>7 DEF Intact, FieldsKept, Untouched
  <2> QED  BY <1>4, <2>1, <2>2, NewCasts
<1> QED  BY <1>2, <1>3, <1>4 DEF Untouched

\* What the tree left of the resource is what was read.
LookInv == Desiring(conf) =>
  /\ phase = "run" => prog = conf.tree /\ (story.panicked \/ Untouched)
  /\ phase = "desire" => res = read.body

LEMMA BeginLook ==
  ASSUME Inv, Desiring(conf), NEW o \in Fates, Begin(o)
  PROVE  LookInv'
<1>1. CASE o = "rejected" \/ NothingToDo
  <2>1. phase' = "done"  BY <1>1 DEF Begin, Answer
  <2> QED  BY <2>1 DEF LookInv
<1>2. CASE ~(o = "rejected" \/ NothingToDo)
  <2>1. phase' = "run" /\ UNCHANGED conf /\ StartFlow(conf.tree, read'.body, stored.deleting)
    BY <1>2 DEF Begin, Desiring
  <2> DEFINE f == [node |-> 1, at |-> 0, acc |-> NoResult, err |-> {}, saved |-> Blank]
  <2>2. /\ prog' = conf.tree /\ stack' = <<f>> /\ story'.written = read'.body
        /\ story'.raised = {}
    BY <2>1 DEF StartFlow
  <2>3. f.at = 0  OBVIOUS
  <2> HIDE DEF f
  <2>4. <<f>> = Append(<<>>, f) /\ <<>> \in Seq({f})  OBVIOUS
  <2>5. Range(<<f>>) = {f}
    <3>1. LET t == Append(<<>>, f) IN Range(t) = Range(<<>>) \cup {f}  BY <2>4, Pushed
    <3> QED  BY <2>4, <3>1, NoCalls
  <2>6. ~Casting(f)'  BY <2>3 DEF Casting
  <2> QED  BY <2>1, <2>2, <2>5, <2>6 DEF LookInv, Untouched
<1> QED  BY <1>1, <1>2

LEMMA EndTreeLook ==
  ASSUME Inv, ObjectInv, LookInv, Desiring(conf), EndTree
  PROVE  LookInv'
<1>1. /\ stack = <<>> /\ phase = "run" /\ UNCHANGED <<flowVars, conf, read>>
      /\ phase' \in {"crashed", "done", "desire"} /\ (phase' = "desire" => ~story.panicked)
  BY DEF EndTree, EndAggregate, Answer, Desiring
<1>2. ASSUME ~story.panicked PROVE res = read.body
  <2>1. HasType(res, RootType) /\ HasType(story.written, RootType)
        /\ \A k \in RootType : res[k] = story.written[k]
    BY <1>1, <1>2 DEF ObjectInv, ObjectsTyped, FieldsKept, Level, TypeAt, LookInv, Untouched
  <2>2. res = story.written  BY <2>1, SameObject DEF Inv, FlowTypes, Story
  <2> QED  BY <1>1, <1>2, <2>2 DEF LookInv, Untouched
<1> QED  BY <1>1, <1>2 DEF LookInv, flowVars

LEMMA LookNext ==
  ASSUME Inv, ObjectInv, LookInv, Desiring(conf), OnlyLooks(conf.tree), CastsNarrow, Next
  PROVE  LookInv'
<1>1. ASSUME UNCHANGED <<flowVars, conf, phase>>, read'.body = read.body PROVE LookInv'
  <2>1. UNCHANGED <<prog, stack, res, story>>  BY <1>1 DEF flowVars
  <2>2. \A f : (Casting(f)' <=> Casting(f)) /\ TypeOf(f)' = TypeOf(f)
    BY <2>1 DEF Casting, TypeOf, NodeOf
  <2>3. Untouched' <=> Untouched  BY <1>1, <2>1, <2>2 DEF Untouched
  <2> QED  BY <1>1, <2>1, <2>3 DEF LookInv
<1>2. ASSUME NEW new, Store(new) PROVE read'.body = read.body
  BY <1>2 DEF Store, Inv, HostTypes, Read
<1>3. CASE ChangeWant \/ Edit \/ Delete \/ Release \/ Vanish \/ Expire
  BY <1>1, <1>2, <1>3 DEF ChangeWant, Edit, Delete, Release, Vanish, Expire, requestVars
<1>4. CASE Step
  <2>1. FlowStep /\ UNCHANGED <<prog, conf, phase, read>> /\ phase \in {"run", "hook"}
    BY <1>4 DEF Step, FlowStep, requestVars
  <2>2. CASE phase = "run" /\ ~story.panicked
    <3>1. Intact /\ Untouched /\ OnlyLooks(prog)
      BY <2>2 DEF ObjectInv, Intact, LookInv
    <3>2. story'.panicked \/ Untouched'  BY <2>1, <3>1, LookStep DEF Inv
    <3> QED  BY <2>1, <2>2, <3>2 DEF LookInv
  <2>3. CASE phase = "run" /\ story.panicked
    <3>1. story'.panicked  BY <2>1, <2>3, StillPanicked DEF Inv
    <3> QED  BY <2>1, <2>3, <3>1 DEF LookInv
  <2>4. CASE phase = "hook"  BY <2>1, <2>4 DEF LookInv
  <2> QED  BY <2>1, <2>2, <2>3, <2>4
<1>5. CASE phase' \notin {"run", "desire"}  BY <1>5 DEF LookInv
<1>6. ASSUME NEW o \in Fates, WriteStatus(o) \/ Desire(o) \/ SendDelete(o) \/ Write(o)
      PROVE  phase' \notin {"run", "desire"}
  BY <1>6 DEF WriteStatus, Desire, SendDelete, Write, Answer
<1>7. ASSUME Setup \/ Unsupported \/ Send \/ Forget \/ Restart
      PROVE  phase' \notin {"run", "desire"}
  BY <1>7 DEF Setup, Unsupported, Send, Forget, Restart, Answer
<1> QED
  BY <1>3, <1>4, <1>5, <1>6, <1>7, BeginLook, EndTreeLook DEF Next, Worker, Others

\* An update is skipped only if it would change nothing: what is stored is what the
\* webhook makes of what is desired.  For every webhook that keeps to its fields, every
\* tree that only looks at the resource, whatever is remembered or forgotten.
THEOREM SkippingIsHarmless ==
  ASSUME AllPolite, AllLook, CastsNarrow
  PROVE  Spec => SkipIsHarmless
<1> DEFINE P == phase = "desire" /\ phase' = "done" /\ answer'.err = {} /\ conf.given =>
                  Goal = NoObject \/ res \in {Seen(conf.fields, o) : o \in Admission(Goal)}
<1>1. Init => LookInv  BY DEF Init, LookInv
<1>2. Inv /\ ObjectInv /\ LookInv /\ [Next]_vars => LookInv'
  <2> SUFFICES ASSUME Inv, ObjectInv, LookInv, [Next]_vars PROVE LookInv'
    OBVIOUS
  <2>1. CASE UNCHANGED vars
    <3>1. UNCHANGED <<prog, stack, res, story, conf, phase, read>>
      BY <2>1 DEF vars, flowVars, requestVars
    <3>2. \A f : (Casting(f)' <=> Casting(f)) /\ TypeOf(f)' = TypeOf(f)
      BY <3>1 DEF Casting, TypeOf, NodeOf
    <3> QED  BY <3>1, <3>2 DEF LookInv, Untouched
  <2>2. CASE Next
    <3>1. UNCHANGED conf  BY <2>2, SameConf
    <3>2. CASE ~Desiring(conf)  BY <3>1, <3>2 DEF LookInv
    <3>3. CASE Desiring(conf)
      <4>1. OnlyLooks(conf.tree)  BY <3>3 DEF AllLook, Inv, HostTypes
      <4> QED  BY <2>2, <3>3, <4>1, LookNext
    <3> QED  BY <3>2, <3>3
  <2> QED  BY <2>1, <2>2
<1>3. ASSUME Inv, HostPhases, CacheInv, LookInv, Next PROVE P
  <2> SUFFICES ASSUME phase = "desire", phase' = "done", answer'.err = {}, conf.given,
                      Goal # NoObject
               PROVE  res \in {Seen(conf.fields, o) : o \in Admission(Goal)}
    OBVIOUS
  <2>1. Desiring(conf)
    BY Constants, <1>3 DEF HostPhases, Desiring, Inv, HostTypes, Configuration, Hosts
  <2>2. OwnFields(conf, Own)  BY <1>3, <2>1, OwnIs DEF AllPolite, Inv, HostTypes
  <2>3. PICK f \in Fates : Desire(f)  BY <1>3, DesireStep
  <2>4. NextCall = "none"  BY <2>3 DEF Desire, Answer
  <2>5. Patched(Goal) = res  BY <2>4 DEF NextCall, InSync
  <2>6. res = read.body  BY <1>3, <2>1 DEF LookInv
  <2>7. PICK b \in Admissible : res = Seen(conf.fields, b)
    BY <1>3, <2>1, <2>6 DEF CacheInv, StoredAdmitted
  <2>8. Goal \in Objects /\ Goal \in Desired
    BY <1>3, GoalType DEF Goal, Desired, Inv, HostTypes
  <2>9. Same(res, Goal, Own)
    BY <1>3, <2>1, <2>5, <2>8, PatchedSame DEF CacheInv, Inv
  <2>10. Same(b, Goal, Own)
    <3>1. \A k \in Keys \ Own : k \in conf.fields  BY <2>2 DEF OwnFields
    <3>2. \A k \in Keys \ Own : res[k] = b[k]  BY <2>7, <3>1 DEF Seen
    <3> QED  BY <2>9, <3>2 DEF Same
  <2>11. AdmissionBy(conf.hook, Goal) = {b}
    BY <2>2, <2>8, <2>10 DEF OwnFields, Desired, Admissible
  <2> QED  BY <2>7, <2>11 DEF Admission
<1>4. ASSUME UNCHANGED vars PROVE P
  BY <1>4 DEF vars, requestVars
<1>5. Inv /\ HostPhases /\ CacheInv /\ LookInv /\ [Next]_vars => [P]_vars  BY <1>3, <1>4
<1>6. OutcomeInv => HostPhases  BY DEF OutcomeInv
<1> QED
  BY <1>1, <1>2, <1>5, <1>6, RequestsInvariant, OutcomeInvariant, ObjectInvariant,
     CacheInvariant, PTL DEF Spec, SkipIsHarmless

=============================================================================
