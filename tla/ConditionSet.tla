---------------------------- MODULE ConditionSet ----------------------------
(***************************************************************************)
(* src/apis: the conditions of a reconciled resource, marked one by one by *)
(* the sub reconcilers, and the happy condition that sums them up; and how *)
(* ResourceReconciler decides whether the status changed at all.           *)
(*                                                                         *)
(* The list of conditions is kept sorted and has one entry per type: it is *)
(* a function of the type.  Of a transition time only one thing matters:   *)
(* whether it is the time of the request under way.                        *)
(***************************************************************************)
EXTENDS Integers, Sequences

CONSTANTS
  Types,        \* condition types
  Happy,        \* the happy type: Ready or Succeeded
  Dependents,   \* the terminal subconditions
  Reasons,      \* reasons (and messages) the sub reconcilers give
  HappyReason,  \* the reason of a true happy condition
  Initializing, \* the reason of an initialized condition
  Unset,        \* there is no such condition
  MaxMarks      \* bound on the calls of one request

\* newConditionSet drops the happy type and duplicates from the dependents.
ASSUME ConditionAssumption ==
  /\ Happy \in Types
  /\ Dependents \subseteq Types \ {Happy}
  /\ Dependents # {}
  /\ MaxMarks \in Nat

VARIABLES
  stored,   \* the conditions as read from the API server
  conds,    \* the conditions in memory
  script,   \* the calls a request makes while the world stands still
  step,     \* how many of them the request under way has made, or -1
  settled,  \* requests completed since the world changed, up to Enough
  wrote     \* the last request wrote the status

vars == <<stored, conds, script, step, settled, wrote>>

Statuses == {"True", "False", "Unknown"}
AllReasons == Reasons \cup {HappyReason, Initializing}
Condition == [status : Statuses, reason : AllReasons, now : BOOLEAN]
Conditions == [Types -> Condition \cup {Unset}]

ASSUME UnsetAssumption == Unset \notin Condition

\* The subconditions a reconciler marks or clears; the happy one follows from them.
Calls == [op : {"MarkTrue", "MarkFalse", "MarkUnknown", "ClearCondition"},
          type : Types \ {Happy}, reason : Reasons]

Terminal == Dependents \cup {Happy}
Enough == 3

Is(c, t, status) == c[t] # Unset /\ c[t].status = status

\* SetCondition: an unchanged condition keeps its transition time.
SetCondition(c, t, status, reason) ==
  IF c[t] # Unset /\ c[t].status = status /\ c[t].reason = reason
    THEN c
    ELSE [c EXCEPT ![t] = [status |-> status, reason |-> reason, now |-> TRUE]]

MarkTrue_Any(c, t, reason) ==
  LET marked == SetCondition(c, t, "True", reason)
  IN  IF \E d \in Dependents : Is(marked, d, "True")
        THEN SetCondition(marked, Happy, "True", HappyReason)
        ELSE marked
MarkTrue(c, t, reason) ==
  LET marked == SetCondition(c, t, "True", reason)
  IN  IF \A d \in Dependents : Is(marked, d, "True")
        THEN SetCondition(marked, Happy, "True", HappyReason)
        ELSE marked

\* A failed dependent trumps an unknown one.
MarkUnknown(c, t, reason) ==
  LET marked == SetCondition(c, t, "Unknown", reason)
  IN  IF \E d \in Dependents : Is(marked, d, "False")
        THEN IF Is(marked, Happy, "False") THEN marked
                                           ELSE SetCondition(marked, Happy, "False", reason)
        ELSE IF t \in Dependents THEN SetCondition(marked, Happy, "Unknown", reason)
                                 ELSE marked

MarkFalse(c, t, reason) ==
  LET marked == SetCondition(c, t, "False", reason)
  IN  IF t \in Dependents THEN SetCondition(marked, Happy, "False", reason) ELSE marked

\* Terminal conditions cannot be cleared: an error, and no change.
ClearCondition_Any(c, t) == [c EXCEPT ![t] = Unset]
ClearCondition(c, t) == IF t \in Terminal THEN c ELSE [c EXCEPT ![t] = Unset]

Do(c, call) ==
  CASE call.op = "MarkTrue"       -> MarkTrue(c, call.type, call.reason)
    [] call.op = "MarkUnknown"    -> MarkUnknown(c, call.type, call.reason)
    [] call.op = "MarkFalse"      -> MarkFalse(c, call.type, call.reason)
    [] call.op = "ClearCondition" -> ClearCondition(c, call.type)

\* A true happy condition vouches for the dependents that are not set.
InitializeConditions(c) ==
  LET init(status) == [status |-> status, reason |-> Initializing, now |-> TRUE]
      rest == IF Is(c, Happy, "True") THEN "True" ELSE "Unknown"
  IN  [t \in Types |-> CASE c[t] # Unset                      -> c[t]
                         [] c[t] = Unset /\ t = Happy         -> init("Unknown")
                         [] c[t] = Unset /\ t \in Dependents  -> init(rest)
                         [] OTHER                             -> Unset]

\* syncLastTransitionTime: a condition that ends up as it was has not changed.
SyncLastTransitionTime_Never(proposed, original) == proposed
SyncLastTransitionTime(proposed, original) ==
  [t \in Types |->
     IF /\ proposed[t] # Unset /\ original[t] # Unset
        /\ proposed[t].status = original[t].status
        /\ proposed[t].reason = original[t].reason
       THEN original[t]
       ELSE proposed[t]]

\* What was written in this request is of the past in the next.
Aged(c) == [t \in Types |-> IF c[t] = Unset THEN Unset ELSE [c[t] EXCEPT !.now = FALSE]]

\* During a request no terminal condition is missing.
TypeOK ==
  /\ stored \in Conditions /\ conds \in Conditions
  /\ script \in Seq(Calls)
  /\ step \in Nat \cup {-1} /\ step <= Len(script)
  /\ settled \in 0..Enough
  /\ wrote \in BOOLEAN
  /\ step >= 0 => \A t \in Terminal : conds[t] # Unset

\* A new resource, or one that was happy before the controller was upgraded to
\* a version with more dependents.
Fresh == [t \in Types |-> Unset]
Upgraded(known) ==
  [t \in Types |->
     IF t = Happy THEN [status |-> "True", reason |-> HappyReason, now |-> FALSE]
     ELSE IF t \in known THEN [status |-> "True", reason |-> Initializing, now |-> FALSE]
     ELSE Unset]

Init ==
  /\ stored \in {Fresh} \cup {Upgraded(known) : known \in SUBSET Dependents}
  /\ conds = stored
  /\ script = <<>>
  /\ step = -1
  /\ settled = 0
  /\ wrote = FALSE

\* The sub reconcilers find the world changed and may make other calls.
WorldChanges ==
  /\ step = -1 /\ settled > 0
  /\ settled' = 0
  /\ UNCHANGED <<stored, conds, script, step, wrote>>

Begin ==
  /\ step = -1
  /\ conds' = InitializeConditions(stored)
  /\ script' = IF settled = 0 THEN <<>> ELSE script
  /\ step' = 0
  /\ UNCHANGED <<stored, settled, wrote>>

\* The sub reconcilers are deterministic: in the same world, the same calls.
Mark(call) ==
  /\ step >= 0
  /\ IF settled = 0
       THEN Len(script) < MaxMarks /\ script' = Append(script, call)
       ELSE step < Len(script) /\ call = script[step + 1] /\ UNCHANGED script
  /\ conds' = Do(conds, call)
  /\ step' = step + 1
  /\ UNCHANGED <<stored, settled, wrote>>

\* The status is written if it differs from what was read, also when a sub
\* reconciler failed; the write may be refused.
End(failed, refused) ==
  LET synced == SyncLastTransitionTime(conds, stored)
      after == IF refused THEN stored ELSE Aged(synced)
  IN  /\ step >= 0
      /\ step < Len(script) => failed
      /\ refused => synced # stored
      /\ wrote' = (synced # stored)
      /\ stored' = after /\ conds' = after
      /\ step' = -1
      /\ settled' = IF refused \/ failed THEN 0
                    ELSE IF settled < Enough THEN settled + 1 ELSE settled
      /\ UNCHANGED script

Next ==
  \/ WorldChanges
  \/ Begin
  \/ \E call \in Calls : Mark(call)
  \/ \E failed, refused \in BOOLEAN : End(failed, refused)

Spec == Init /\ [][Next]_vars

-----------------------------------------------------------------------------
(* Properties *)

\* After any sequence of calls, over any number of requests, the happy condition
\* is true if and only if all dependents are, and false if any of them is.  (It
\* may be false when none is: MarkTrue does not look for what made it so.)
Tracks(c) ==
  /\ Is(c, Happy, "True") <=> \A d \in Dependents : Is(c, d, "True")
  /\ (\E d \in Dependents : Is(c, d, "False")) => Is(c, Happy, "False")
HappyTracks == step >= 0 => Tracks(conds)

\* Once the world stands still the status does too, from the third request on:
\* each write wakes the reconciler again, and a difference that never goes away
\* would make it spin.  (syncLastTransitionTime, resource.go:370-373)
StatusSettles == settled = Enough => ~wrote
=============================================================================
