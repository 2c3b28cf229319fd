------------------------ MODULE ConditionSetProofs -------------------------
(***************************************************************************)
(* For all condition types, reasons and lengths of a request: the happy    *)
(* condition follows its dependents, and the status settles.  The first    *)
(* invariant adds to HappyTracks what is known of the stored conditions: a *)
(* dependent that a newer version of the controller added may be missing   *)
(* there.  The second compares a request with the same calls made again.   *)
(***************************************************************************)
EXTENDS ConditionSet, TLAPS

\* What a happy condition stored by an earlier version still vouches for.
Vouched(c) ==
  /\ Is(c, Happy, "True") => \A d \in Dependents : c[d] = Unset \/ Is(c, d, "True")
  /\ (\A d \in Dependents : Is(c, d, "True")) => Is(c, Happy, "True")
  /\ (\E d \in Dependents : Is(c, d, "False")) => Is(c, Happy, "False")

\* What holds of the conditions while a request is under way.
Sound(c) ==
  /\ c \in Conditions
  /\ \A t \in Terminal : c[t] # Unset
  /\ Tracks(c)

TracksInv ==
  /\ TypeOK
  /\ Vouched(stored)
  /\ HappyTracks

-----------------------------------------------------------------------------
(* What the operations on conditions do. *)

\* A condition has one of three statuses, or is missing.
LEMMA StatusOf ==
  ASSUME NEW c \in Conditions, NEW t \in Types, c[t] # Unset
  PROVE  c[t] \in Condition /\ c[t].status \in Statuses
BY DEF Conditions, Condition

\* What SetCondition builds is a condition.
LEMMA Built ==
  ASSUME NEW status \in Statuses, NEW reason \in AllReasons, NEW now \in BOOLEAN
  PROVE  /\ [status |-> status, reason |-> reason, now |-> now] \in Condition
         /\ [status |-> status, reason |-> reason, now |-> now] # Unset
<1>1. [status |-> status, reason |-> reason, now |-> now] \in Condition
  BY Zenon DEF Condition
<1> QED
  BY <1>1, UnsetAssumption

\* SetCondition sets the status of one condition and leaves the others alone.
LEMMA Sets ==
  ASSUME NEW c \in Conditions, NEW t \in Types, NEW status \in Statuses,
         NEW reason \in AllReasons
  PROVE  LET new == SetCondition(c, t, status, reason)
         IN  /\ new \in Conditions
             /\ new[t] # Unset /\ new[t].status = status
             /\ \A u \in Types : u # t => new[u] = c[u]
<1> DEFINE r == [status |-> status, reason |-> reason, now |-> TRUE]
<1>1. r \in Condition /\ r # Unset
  BY Built
<1>2. CASE c[t] # Unset /\ c[t].status = status /\ c[t].reason = reason
  BY <1>2 DEF SetCondition
<1>3. CASE ~(c[t] # Unset /\ c[t].status = status /\ c[t].reason = reason)
  <2>1. SetCondition(c, t, status, reason) = [c EXCEPT ![t] = r]
    BY <1>3 DEF SetCondition
  <2> HIDE DEF r
  <2>2. [c EXCEPT ![t] = r] \in Conditions
    BY <1>1 DEF Conditions
  <2>3. [c EXCEPT ![t] = r][t] = r /\ \A u \in Types : u # t => [c EXCEPT ![t] = r][u] = c[u]
    BY DEF Conditions
  <2>4. r.status = status
    BY DEF r
  <2> QED
    BY <1>1, <2>1, <2>2, <2>3, <2>4
<1> QED
  BY <1>2, <1>3

\* MarkTrue keeps the happy condition in step with the dependents.
LEMMA MarkTrueIsSound ==
  ASSUME NEW c, Sound(c), NEW t \in Types \ {Happy}, NEW reason \in AllReasons
  PROVE  Sound(MarkTrue(c, t, reason))
<1> DEFINE m == SetCondition(c, t, "True", reason)
           h == SetCondition(m, Happy, "True", HappyReason)
<1>0. /\ Happy \in Types /\ Dependents \subseteq Types \ {Happy}
      /\ HappyReason \in AllReasons /\ "True" \in Statuses
  BY ConditionAssumption DEF AllReasons, Statuses
<1>1. /\ m \in Conditions /\ m[t] # Unset /\ m[t].status = "True"
      /\ \A u \in Types : u # t => m[u] = c[u]
  BY <1>0, Sets DEF Sound
<1> HIDE DEF m
<1>2. /\ h \in Conditions /\ h[Happy] # Unset /\ h[Happy].status = "True"
      /\ \A u \in Types : u # Happy => h[u] = m[u]
  BY <1>0, <1>1, Sets
<1> HIDE DEF h
<1>3. CASE \A d \in Dependents : Is(m, d, "True")
  <2>1. MarkTrue(c, t, reason) = h
    BY <1>3 DEF MarkTrue, m, h
  <2> QED
    BY <1>0, <1>1, <1>2, <1>3, <2>1 DEF Sound, Tracks, Terminal, Is
<1>4. CASE ~(\A d \in Dependents : Is(m, d, "True"))
  <2>1. MarkTrue(c, t, reason) = m
    BY <1>4 DEF MarkTrue, m
  <2>2. ~Is(m, Happy, "True")
    BY <1>0, <1>1, <1>4 DEF Sound, Tracks, Is
  <2> QED
    BY <1>0, <1>1, <1>4, <2>1, <2>2 DEF Sound, Tracks, Terminal, Is
<1> QED
  BY <1>3, <1>4

\* So does MarkUnknown.
LEMMA MarkUnknownIsSound ==
  ASSUME NEW c, Sound(c), NEW t \in Types \ {Happy}, NEW reason \in AllReasons
  PROVE  Sound(MarkUnknown(c, t, reason))
<1> DEFINE m == SetCondition(c, t, "Unknown", reason)
           f == SetCondition(m, Happy, "False", reason)
           u == SetCondition(m, Happy, "Unknown", reason)
<1>0. /\ Happy \in Types /\ Dependents \subseteq Types \ {Happy}
      /\ "Unknown" \in Statuses /\ "False" \in Statuses
  BY ConditionAssumption DEF Statuses
<1>1. /\ m \in Conditions /\ m[t] # Unset /\ m[t].status = "Unknown"
      /\ \A x \in Types : x # t => m[x] = c[x]
  BY <1>0, Sets DEF Sound
<1> HIDE DEF m
<1>2. /\ f \in Conditions /\ f[Happy] # Unset /\ f[Happy].status = "False"
      /\ \A x \in Types : x # Happy => f[x] = m[x]
  BY <1>0, <1>1, Sets
<1>3. /\ u \in Conditions /\ u[Happy] # Unset /\ u[Happy].status = "Unknown"
      /\ \A x \in Types : x # Happy => u[x] = m[x]
  BY <1>0, <1>1, Sets
<1> HIDE DEF f, u
<1>4. CASE \E d \in Dependents : Is(m, d, "False")
  <2>1. MarkUnknown(c, t, reason) = IF Is(m, Happy, "False") THEN m ELSE f
    BY <1>4 DEF MarkUnknown, m, f
  <2> QED
    BY <1>0, <1>1, <1>2, <1>4, <2>1 DEF Sound, Tracks, Terminal, Is
<1>5. CASE ~(\E d \in Dependents : Is(m, d, "False")) /\ t \in Dependents
  <2>1. MarkUnknown(c, t, reason) = u
    BY <1>5 DEF MarkUnknown, m, u
  <2> QED
    BY <1>0, <1>1, <1>3, <1>5, <2>1 DEF Sound, Tracks, Terminal, Is
<1>6. CASE ~(\E d \in Dependents : Is(m, d, "False")) /\ t \notin Dependents
  <2>1. MarkUnknown(c, t, reason) = m
    BY <1>6 DEF MarkUnknown, m
  <2> QED
    BY <1>0, <1>1, <1>6, <2>1 DEF Sound, Tracks, Terminal, Is
<1> QED
  BY <1>4, <1>5, <1>6

\* So does MarkFalse.
LEMMA MarkFalseIsSound ==
  ASSUME NEW c, Sound(c), NEW t \in Types \ {Happy}, NEW reason \in AllReasons
  PROVE  Sound(MarkFalse(c, t, reason))
<1> DEFINE m == SetCondition(c, t, "False", reason)
           f == SetCondition(m, Happy, "False", reason)
<1>0. /\ Happy \in Types /\ Dependents \subseteq Types \ {Happy}
      /\ "Unknown" \in Statuses /\ "False" \in Statuses
  BY ConditionAssumption DEF Statuses
<1>1. /\ m \in Conditions /\ m[t] # Unset /\ m[t].status = "False"
      /\ \A x \in Types : x # t => m[x] = c[x]
  BY <1>0, Sets DEF Sound
<1> HIDE DEF m
<1>2. /\ f \in Conditions /\ f[Happy] # Unset /\ f[Happy].status = "False"
      /\ \A x \in Types : x # Happy => f[x] = m[x]
  BY <1>0, <1>1, Sets
<1> HIDE DEF f
<1>3. CASE t \in Dependents
  <2>1. MarkFalse(c, t, reason) = f
    BY <1>3 DEF MarkFalse, m, f
  <2> QED
    BY <1>0, <1>1, <1>2, <1>3, <2>1 DEF Sound, Tracks, Terminal, Is
<1>4. CASE t \notin Dependents
  <2>1. MarkFalse(c, t, reason) = m
    BY <1>4 DEF MarkFalse, m
  <2> QED
    BY <1>0, <1>1, <1>4, <2>1 DEF Sound, Tracks, Terminal, Is
<1> QED
  BY <1>3, <1>4

\* ClearCondition touches no terminal condition.
LEMMA ClearConditionIsSound ==
  ASSUME NEW c, Sound(c), NEW t \in Types
  PROVE  Sound(ClearCondition(c, t))
<1>1. CASE t \in Terminal
  BY <1>1 DEF ClearCondition
<1>2. CASE t \notin Terminal
  <2>1. ClearCondition(c, t) = [c EXCEPT ![t] = Unset]
    BY <1>2 DEF ClearCondition
  <2>2. [c EXCEPT ![t] = Unset] \in Conditions
    BY DEF Sound, Conditions
  <2>3. \A u \in Terminal : [c EXCEPT ![t] = Unset][u] = c[u]
    BY <1>2, ConditionAssumption DEF Sound, Conditions, Terminal
  <2> QED
    BY <2>1, <2>2, <2>3 DEF Sound, Tracks, Terminal, Is
<1> QED
  BY <1>1, <1>2

\* InitializeConditions fills what is missing in line with the happy condition.
LEMMA InitializeIsSound ==
  ASSUME NEW c \in Conditions, Vouched(c)
  PROVE  Sound(InitializeConditions(c))
<1> DEFINE init(status) == [status |-> status, reason |-> Initializing, now |-> TRUE]
           rest == IF Is(c, Happy, "True") THEN "True" ELSE "Unknown"
           i == InitializeConditions(c)
<1>0. Happy \in Types /\ Dependents \subseteq Types \ {Happy} /\ Dependents # {}
  BY ConditionAssumption
<1>1. \A s \in Statuses : init(s) \in Condition /\ init(s) # Unset /\ init(s).status = s
  BY Built DEF AllReasons
<1>2. i = [t \in Types |-> CASE c[t] # Unset                      -> c[t]
                             [] c[t] = Unset /\ t = Happy         -> init("Unknown")
                             [] c[t] = Unset /\ t \in Dependents  -> init(rest)
                             [] OTHER                             -> Unset]
  BY DEF InitializeConditions
<1> HIDE DEF init, i
<1>3. rest \in Statuses /\ "Unknown" \in Statuses
  BY DEF Statuses
<1>4. i[Happy] = IF c[Happy] # Unset THEN c[Happy] ELSE init("Unknown")
  BY <1>0, <1>2
<1>5. \A d \in Dependents : i[d] = IF c[d] # Unset THEN c[d] ELSE init(rest)
  BY <1>0, <1>2
<1>6. i \in Conditions
  <2>1. \A t \in Types : i[t] \in Condition \cup {Unset}
    BY <1>1, <1>2, <1>3 DEF Conditions
  <2> QED
    BY <1>2, <2>1 DEF Conditions
<1>7. \A t \in Terminal : i[t] # Unset
  BY <1>0, <1>1, <1>3, <1>4, <1>5 DEF Terminal
<1>8. Tracks(i)
  <2>1. CASE Is(c, Happy, "True")
    BY <1>0, <1>1, <1>3, <1>4, <1>5, <2>1 DEF Tracks, Vouched, Is
  <2>2. CASE ~Is(c, Happy, "True")
    <3>1. ~Is(i, Happy, "True")
      BY <1>1, <1>3, <1>4, <2>2 DEF Is
    <3>2. PICK d \in Dependents : ~Is(c, d, "True")
      BY <2>2 DEF Vouched
    <3>3. ~Is(i, d, "True")
      BY <1>1, <1>3, <1>5, <2>2, <3>2 DEF Is
    <3>4. \A e \in Dependents : Is(i, e, "False") => Is(c, e, "False")
      BY <1>1, <1>3, <1>5, <2>2 DEF Is
    <3>5. Is(c, Happy, "False") => Is(i, Happy, "False")
      BY <1>4 DEF Is
    <3> QED
      BY <3>1, <3>3, <3>4, <3>5 DEF Tracks, Vouched
  <2> QED
    BY <2>1, <2>2
<1> QED
  BY <1>6, <1>7, <1>8 DEF Sound, i

\* syncLastTransitionTime and the end of a request change no status.
LEMMA AgedKeepsStatus ==
  ASSUME NEW p \in Conditions, NEW o \in Conditions
  PROVE  LET a == Aged(SyncLastTransitionTime(p, o))
         IN  /\ a \in Conditions
             /\ \A t \in Types : a[t] = Unset <=> p[t] = Unset
             /\ \A t \in Types : p[t] # Unset => a[t].status = p[t].status
<1> DEFINE s == SyncLastTransitionTime(p, o)
           a == Aged(s)
<1>1. s = [t \in Types |-> IF /\ p[t] # Unset /\ o[t] # Unset
                              /\ p[t].status = o[t].status
                              /\ p[t].reason = o[t].reason
                             THEN o[t] ELSE p[t]]
  BY DEF SyncLastTransitionTime
<1>2. a = [t \in Types |-> IF s[t] = Unset THEN Unset ELSE [s[t] EXCEPT !.now = FALSE]]
  BY DEF Aged
<1> HIDE DEF s, a
<1>3. ASSUME NEW t \in Types
      PROVE  /\ s[t] \in Condition \cup {Unset}
             /\ s[t] = Unset <=> p[t] = Unset
             /\ p[t] # Unset => s[t].status = p[t].status
  BY <1>1 DEF Conditions
<1>4. ASSUME NEW t \in Types
      PROVE  /\ a[t] \in Condition \cup {Unset}
             /\ a[t] = Unset <=> s[t] = Unset
             /\ s[t] # Unset => a[t].status = s[t].status
  <2>1. CASE s[t] = Unset
    BY <1>2, <2>1
  <2>2. CASE s[t] # Unset
    <3>1. a[t] = [s[t] EXCEPT !.now = FALSE]
      BY <1>2, <2>2
    <3>2. s[t] \in Condition
      BY <1>3, <2>2
    <3> QED
      BY <2>2, <3>1, <3>2, UnsetAssumption DEF Condition
  <2> QED
    BY <2>1, <2>2
<1>5. a \in Conditions
  BY <1>2, <1>4 DEF Conditions
<1> QED
  BY <1>3, <1>4, <1>5 DEF a, s

-----------------------------------------------------------------------------
(* The invariant. *)

\* TracksInv holds initially and is kept by every step.
THEOREM TracksInvariant == Spec => []TracksInv
<1>0. Happy \in Types /\ Dependents \subseteq Types \ {Happy} /\ Dependents # {}
  BY ConditionAssumption
<1>1. Init => TracksInv
  <2> SUFFICES ASSUME Init PROVE TracksInv
    OBVIOUS
  <2>1. Fresh \in Conditions
    BY DEF Fresh, Conditions
  <2>2. ASSUME NEW known \in SUBSET Dependents
        PROVE  Upgraded(known) \in Conditions /\ Vouched(Upgraded(known))
    <3>1. \A r \in {HappyReason, Initializing} :
            /\ [status |-> "True", reason |-> r, now |-> FALSE] \in Condition
            /\ [status |-> "True", reason |-> r, now |-> FALSE] # Unset
      BY Built DEF AllReasons, Statuses
    <3>2. Upgraded(known) \in Conditions
      BY <3>1 DEF Upgraded, Conditions
    <3>3. Is(Upgraded(known), Happy, "True")
      BY <1>0, <3>1 DEF Upgraded, Is
    <3>4. \A d \in Dependents : \/ Upgraded(known)[d] = Unset
                                \/ Is(Upgraded(known), d, "True")
      BY <1>0, <3>1 DEF Upgraded, Is
    <3> QED
      BY <3>2, <3>3, <3>4 DEF Vouched, Is
  <2>3. Vouched(Fresh)
    BY <1>0 DEF Fresh, Vouched, Is
  <2>4. stored \in Conditions /\ Vouched(stored)
    BY <2>1, <2>2, <2>3 DEF Init
  <2>5. script \in Seq(Calls) /\ Len(script) = 0
    BY DEF Init
  <2>6. settled \in 0..Enough /\ step \in Nat \cup {-1} /\ step <= Len(script) /\ ~(step >= 0)
    BY <2>5 DEF Init, Enough
  <2>7. conds \in Conditions /\ wrote \in BOOLEAN
    BY <2>4 DEF Init
  <2> QED
    BY <2>4, <2>5, <2>6, <2>7 DEF TracksInv, TypeOK, HappyTracks
<1>2. TracksInv /\ [Next]_vars => TracksInv'
  <2> SUFFICES ASSUME TracksInv, [Next]_vars PROVE TracksInv'
    OBVIOUS
  <2> USE DEF TracksInv, TypeOK, Enough
  <2>1. CASE WorldChanges
    BY <2>1 DEF WorldChanges, HappyTracks
  <2>2. CASE Begin
    <3>1. Sound(conds')
      BY <2>2, InitializeIsSound DEF Begin
    <3>2. script' \in Seq(Calls) /\ step' <= Len(script')
      BY <2>2 DEF Begin
    <3> QED
      BY <2>2, <3>1, <3>2 DEF Begin, Sound, HappyTracks
  <2>3. ASSUME NEW call \in Calls, Mark(call) PROVE TracksInv'
    <3>1. Sound(conds)
      BY <2>3 DEF Mark, Sound, HappyTracks
    <3>2. call.type \in Types \ {Happy} /\ call.reason \in AllReasons
      BY DEF Calls, AllReasons
    <3>3. call.op \in {"MarkTrue", "MarkFalse", "MarkUnknown", "ClearCondition"}
      BY DEF Calls
    <3>4. Sound(Do(conds, call))
      <4>1. CASE call.op = "MarkTrue"
        BY <3>1, <3>2, <4>1, MarkTrueIsSound DEF Do
      <4>2. CASE call.op = "MarkFalse"
        BY <3>1, <3>2, <4>2, MarkFalseIsSound DEF Do
      <4>3. CASE call.op = "MarkUnknown"
        BY <3>1, <3>2, <4>3, MarkUnknownIsSound DEF Do
      <4>4. CASE call.op = "ClearCondition"
        BY <3>1, <3>2, <4>4, ClearConditionIsSound DEF Do
      <4> QED
        BY <3>3, <4>1, <4>2, <4>3, <4>4
    <3>5. script' \in Seq(Calls) /\ step' <= Len(script')
      BY <2>3 DEF Mark
    <3> QED
      BY <2>3, <3>4, <3>5 DEF Mark, Sound, HappyTracks
  <2>4. ASSUME NEW failed \in BOOLEAN, NEW refused \in BOOLEAN, End(failed, refused)
        PROVE  TracksInv'
    <3> DEFINE a == Aged(SyncLastTransitionTime(conds, stored))
    <3>1. Sound(conds)
      BY <2>4 DEF End, Sound, HappyTracks
    <3>2. /\ a \in Conditions
          /\ \A t \in Types : a[t] = Unset <=> conds[t] = Unset
          /\ \A t \in Types : conds[t] # Unset => a[t].status = conds[t].status
      BY AgedKeepsStatus
    <3> HIDE DEF a
    <3>3. Vouched(a)
      BY <1>0, <3>1, <3>2 DEF Sound, Tracks, Vouched, Is, Terminal
    <3>4. stored' \in {a, stored} /\ conds' = stored'
      BY <2>4 DEF End, a
    <3>5. settled' \in 0..3 /\ wrote' \in BOOLEAN /\ step' = -1 /\ script' = script
      BY <2>4 DEF End
    <3> QED
      BY <3>2, <3>3, <3>4, <3>5 DEF HappyTracks
  <2>5. CASE UNCHANGED vars
    BY <2>5 DEF vars, HappyTracks, Vouched, Tracks, Is
  <2> QED
    BY <2>1, <2>2, <2>3, <2>4, <2>5 DEF Next
<1> QED
  BY <1>1, <1>2, PTL DEF Spec

\* No operation breaks a condition, and a request never misses a terminal one.
THEOREM ConditionsTypeCorrect == Spec => []TypeOK
BY TracksInvariant, PTL DEF TracksInv

\* The happy condition is true exactly if all dependents are, and false if one is.
THEOREM HappyFollows == Spec => []HappyTracks
BY TracksInvariant, PTL DEF TracksInv

-----------------------------------------------------------------------------
(* The status settles.  What a condition other than the happy one is worth *)
(* after some calls depends on the last of them that touched it, and else  *)
(* on what was stored.  What the happy condition is worth depends on the   *)
(* last call that made it follow its dependents.  So from the second time  *)
(* that all calls are made the dependents come and go in the same way, and *)
(* the third time all conditions end up as they were.                      *)

\* What comparing two conditions is about: not when they changed.
Value(status, reason) == [set |-> TRUE, status |-> status, reason |-> reason]
Missing == [set |-> FALSE, status |-> "Unknown", reason |-> Initializing]
Worth(x) == IF x = Unset THEN Missing ELSE Value(x.status, x.reason)

Touches(call, t) == call.type = t /\ (call.op = "ClearCondition" => t \notin Terminal)

\* What a call makes of the condition it touches.
Given(call) ==
  CASE call.op = "MarkTrue"       -> Value("True", call.reason)
    [] call.op = "MarkUnknown"    -> Value("Unknown", call.reason)
    [] call.op = "MarkFalse"      -> Value("False", call.reason)
    [] call.op = "ClearCondition" -> Missing

\* The first k calls of s left t alone, or the last that did not made it v.
Untouched(s, k, t) == \A i \in 1..k : ~Touches(s[i], t)
LastGiven(s, k, t, v) ==
  \E i \in 1..k : /\ Touches(s[i], t) /\ Given(s[i]) = v
                  /\ \A j \in i + 1 .. k : ~Touches(s[j], t)

\* After the first k calls of s, starting from b, the condition t is worth v.
Shows(s, b, k, t, v) == LastGiven(s, k, t, v) \/ (Untouched(s, k, t) /\ v = Worth(b[t]))

ShowsStatus(s, b, k, t, status) == \E v : Shows(s, b, k, t, v) /\ v.set /\ v.status = status

\* The k-th call of s, starting from b, makes the happy condition v.
Sums(s, b, k, v) ==
  \/ /\ s[k].op = "MarkTrue" /\ v = Value("True", HappyReason)
     /\ \A d \in Dependents : ShowsStatus(s, b, k, d, "True")
  \/ /\ s[k].op = "MarkUnknown" /\ s[k].type \in Dependents /\ v = Value("Unknown", s[k].reason)
     /\ ~\E d \in Dependents : ShowsStatus(s, b, k, d, "False")
  \/ s[k].op = "MarkFalse" /\ s[k].type \in Dependents /\ v = Value("False", s[k].reason)

NoSum(s, b, k) == \A i \in 1..k : ~\E v : Sums(s, b, i, v)
LastSum(s, b, k, v) ==
  \E i \in 1..k : Sums(s, b, i, v) /\ \A j \in i + 1 .. k : ~\E w : Sums(s, b, j, w)

\* A request under way: what the calls so far made of the conditions, which in the
\* first request began with missing ones.
Replayed ==
  step >= 0 =>
    /\ settled = 0 => step = Len(script)
    /\ \A t \in Types \ {Happy} :
         \/ LastGiven(script, step, t, Worth(conds[t]))
         \/ Untouched(script, step, t) /\ (settled > 0 => Worth(conds[t]) = Worth(stored[t]))
    /\ settled > 0 => \/ LastSum(script, stored, step, Worth(conds[Happy]))
                      \/ /\ NoSum(script, stored, step)
                         /\ Worth(conds[Happy]) = Worth(stored[Happy])

\* What completed requests leave behind.
Repeatable ==
  /\ settled > 0 =>
       /\ \A t \in Terminal : stored[t] # Unset
       /\ \A t \in Types \ {Happy} : Shows(script, stored, Len(script), t, Worth(stored[t]))
  /\ settled > 1 => \/ NoSum(script, stored, Len(script))
                    \/ LastSum(script, stored, Len(script), Worth(stored[Happy]))


\* Equally worth: the same as far as syncLastTransitionTime cares.
LEMMA WorthSame ==
  ASSUME NEW x \in Condition \cup {Unset}, NEW y \in Condition \cup {Unset}
  PROVE  Worth(x) = Worth(y) <=> \/ x = Unset /\ y = Unset
                                 \/ /\ x # Unset /\ y # Unset
                                    /\ x.status = y.status /\ x.reason = y.reason
BY DEF Worth, Missing, Value

\* SetCondition makes a condition worth what it is told.
LEMMA SetWorth ==
  ASSUME NEW c \in Conditions, NEW t \in Types, NEW status \in Statuses,
         NEW reason \in AllReasons
  PROVE  LET new == SetCondition(c, t, status, reason)
         IN  /\ new \in Conditions
             /\ Worth(new[t]) = Value(status, reason)
             /\ \A u \in Types : u # t => new[u] = c[u]
<1> DEFINE r == [status |-> status, reason |-> reason, now |-> TRUE]
<1>1. r \in Condition /\ r # Unset
  BY Built
<1>2. CASE c[t] # Unset /\ c[t].status = status /\ c[t].reason = reason
  BY <1>2 DEF SetCondition, Worth, Is
<1>3. CASE ~(c[t] # Unset /\ c[t].status = status /\ c[t].reason = reason)
  <2>1. SetCondition(c, t, status, reason) = [c EXCEPT ![t] = r]
    BY <1>3 DEF SetCondition
  <2>2. r.status = status /\ r.reason = reason  OBVIOUS
  <2> HIDE DEF r
  <2>3. /\ [c EXCEPT ![t] = r] \in Conditions /\ [c EXCEPT ![t] = r][t] = r
        /\ \A u \in Types : u # t => [c EXCEPT ![t] = r][u] = c[u]
    BY <1>1 DEF Conditions
  <2> QED  BY <1>1, <2>1, <2>2, <2>3 DEF Worth, Is
<1> QED  BY <1>2, <1>3

\* A call gives what it touches a worth, and leaves alone what it does not.
LEMMA DoTouches ==
  ASSUME NEW c \in Conditions, NEW call \in Calls, NEW t \in Types \ {Happy}
  PROVE  /\ Do(c, call) \in Conditions
         /\ Touches(call, t) => Worth(Do(c, call)[t]) = Given(call)
         /\ ~Touches(call, t) => Worth(Do(c, call)[t]) = Worth(c[t])
<1>1. /\ Happy \in Types /\ call.type \in Types \ {Happy} /\ call.reason \in AllReasons
      /\ call.op \in {"MarkTrue", "MarkFalse", "MarkUnknown", "ClearCondition"}
      /\ HappyReason \in AllReasons /\ {"True", "False", "Unknown"} \subseteq Statuses
  BY ConditionAssumption DEF Calls, AllReasons, Statuses
<1>2. ASSUME NEW status \in Statuses, NEW new \in Conditions, NEW m \in Conditions,
             m = SetCondition(c, call.type, status, call.reason),
             new = m \/ \E any \in Statuses, reason \in AllReasons :
                          new = SetCondition(m, Happy, any, reason),
             Do(c, call) = new, Given(call) = Value(status, call.reason),
             call.op # "ClearCondition"
      PROVE  /\ Do(c, call) \in Conditions
             /\ Touches(call, t) => Worth(Do(c, call)[t]) = Given(call)
             /\ ~Touches(call, t) => Worth(Do(c, call)[t]) = Worth(c[t])
  <2>1. new[t] = m[t]
    <3>1. ASSUME NEW any \in Statuses, NEW reason \in AllReasons
          PROVE  SetCondition(m, Happy, any, reason)[t] = m[t]
      BY <1>1, SetWorth
    <3> QED  BY <1>2, <3>1
  <2>2. /\ Worth(m[call.type]) = Value(status, call.reason)
        /\ \A u \in Types : u # call.type => m[u] = c[u]
    <3>1. ASSUME NEW x \in Types, NEW r \in AllReasons
          PROVE  LET s == SetCondition(c, x, status, r)
                 IN  Worth(s[x]) = Value(status, r) /\ \A u \in Types : u # x => s[u] = c[u]
      BY SetWorth
    <3> QED  BY <1>1, <1>2, <3>1
  <2>3. t # call.type => m[t] = c[t]  BY <2>2
  <2> QED  BY <1>2, <2>1, <2>2, <2>3 DEF Touches
<1>3. ASSUME NEW status \in Statuses, NEW any \in Statuses, NEW reason \in AllReasons
      PROVE  LET m == SetCondition(c, call.type, status, call.reason)
             IN  m \in Conditions /\ SetCondition(m, Happy, any, reason) \in Conditions
  BY <1>1, SetWorth
<1>4. CASE call.op = "MarkTrue"
  <2> DEFINE m == SetCondition(c, call.type, "True", call.reason)
             h == SetCondition(m, Happy, "True", HappyReason)
  <2>1. Do(c, call) \in {m, h} /\ Given(call) = Value("True", call.reason)
    BY <1>4 DEF Do, MarkTrue, Given
  <2>2. m \in Conditions /\ h \in Conditions  BY <1>1, <1>3
  <2> QED  BY <1>1, <1>2, <1>4, <2>1, <2>2
<1>5. CASE call.op = "MarkUnknown"
  <2> DEFINE m == SetCondition(c, call.type, "Unknown", call.reason)
             f == SetCondition(m, Happy, "False", call.reason)
             u == SetCondition(m, Happy, "Unknown", call.reason)
  <2>1. Do(c, call) \in {m, f, u} /\ Given(call) = Value("Unknown", call.reason)
    BY <1>5 DEF Do, MarkUnknown, Given
  <2>2. m \in Conditions /\ f \in Conditions /\ u \in Conditions  BY <1>1, <1>3
  <2> QED  BY <1>1, <1>2, <1>5, <2>1, <2>2
<1>6. CASE call.op = "MarkFalse"
  <2> DEFINE m == SetCondition(c, call.type, "False", call.reason)
             f == SetCondition(m, Happy, "False", call.reason)
  <2>1. Do(c, call) \in {m, f} /\ Given(call) = Value("False", call.reason)
    BY <1>6 DEF Do, MarkFalse, Given
  <2>2. m \in Conditions /\ f \in Conditions  BY <1>1, <1>3
  <2> QED  BY <1>1, <1>2, <1>6, <2>1, <2>2
<1>7. CASE call.op = "ClearCondition"
  <2>1. Do(c, call) = IF call.type \in Terminal THEN c ELSE [c EXCEPT ![call.type] = Unset]
    BY <1>7 DEF Do, ClearCondition
  <2>2. Given(call) = Missing /\ Worth(Unset) = Missing  BY <1>7 DEF Given, Worth
  <2> QED  BY <1>1, <1>7, <2>1, <2>2 DEF Touches, Conditions
<1> QED  BY <1>1, <1>4, <1>5, <1>6, <1>7

\* A condition shows one worth.
LEMMA LastOnce ==
  ASSUME NEW s, NEW k \in Nat, NEW t, NEW v, LastGiven(s, k, t, v)
  PROVE  ~Untouched(s, k, t) /\ \A w : LastGiven(s, k, t, w) => w = v
<1>1. PICK i \in 1..k : /\ Touches(s[i], t) /\ Given(s[i]) = v
                        /\ \A j \in i + 1 .. k : ~Touches(s[j], t)
  BY DEF LastGiven
<1>2. ASSUME NEW w, LastGiven(s, k, t, w) PROVE w = v
  <2>1. PICK j \in 1..k : /\ Touches(s[j], t) /\ Given(s[j]) = w
                          /\ \A l \in j + 1 .. k : ~Touches(s[l], t)
    BY <1>2 DEF LastGiven
  <2>2. ~(i < j) /\ ~(j < i)  BY <1>1, <2>1
  <2>3. i = j  BY <2>2
  <2> QED  BY <1>1, <2>1, <2>3
<1> QED  BY <1>1, <1>2 DEF Untouched

LEMMA ShowsOnce ==
  ASSUME NEW s, NEW b, NEW k \in Nat, NEW t, NEW v, Shows(s, b, k, t, v),
         NEW w, Shows(s, b, k, t, w)
  PROVE  v = w
BY LastOnce DEF Shows

\* One call more.
LEMMA OneMore ==
  ASSUME NEW s, NEW k \in Nat, NEW t
  PROVE  /\ Touches(s[k + 1], t) => LastGiven(s, k + 1, t, Given(s[k + 1]))
         /\ ~Touches(s[k + 1], t) =>
              /\ \A v : LastGiven(s, k, t, v) => LastGiven(s, k + 1, t, v)
              /\ Untouched(s, k, t) => Untouched(s, k + 1, t)
<1>1. ASSUME Touches(s[k + 1], t) PROVE LastGiven(s, k + 1, t, Given(s[k + 1]))
  <2>1. k + 1 \in 1 .. k + 1 /\ \A j \in k + 1 + 1 .. k + 1 : ~Touches(s[j], t)  OBVIOUS
  <2> QED  BY <1>1, <2>1 DEF LastGiven
<1>2. ASSUME ~Touches(s[k + 1], t), NEW v, LastGiven(s, k, t, v)
      PROVE  LastGiven(s, k + 1, t, v)
  <2>1. PICK i \in 1..k : /\ Touches(s[i], t) /\ Given(s[i]) = v
                          /\ \A j \in i + 1 .. k : ~Touches(s[j], t)
    BY <1>2 DEF LastGiven
  <2>2. \A j \in i + 1 .. k + 1 : j \in i + 1 .. k \/ j = k + 1  OBVIOUS
  <2>3. i \in 1 .. k + 1  OBVIOUS
  <2> QED  BY <1>2, <2>1, <2>2, <2>3 DEF LastGiven
<1>3. ASSUME ~Touches(s[k + 1], t), Untouched(s, k, t) PROVE Untouched(s, k + 1, t)
  <2>1. \A j \in 1 .. k + 1 : j \in 1 .. k \/ j = k + 1  OBVIOUS
  <2> QED  BY <1>3, <2>1 DEF Untouched
<1> QED  BY <1>1, <1>2, <1>3

\* Only the first k calls count.
LEMMA OnlyFirst ==
  ASSUME NEW s, NEW q, NEW k \in Nat, \A i \in 1..k : s[i] = q[i], NEW t
  PROVE  /\ \A v : LastGiven(s, k, t, v) => LastGiven(q, k, t, v)
         /\ Untouched(s, k, t) => Untouched(q, k, t)
<1>1. ASSUME NEW v, LastGiven(s, k, t, v) PROVE LastGiven(q, k, t, v)
  <2>1. PICK i \in 1..k : /\ Touches(s[i], t) /\ Given(s[i]) = v
                          /\ \A j \in i + 1 .. k : ~Touches(s[j], t)
    BY <1>1 DEF LastGiven
  <2>2. \A j \in i + 1 .. k : j \in 1..k  OBVIOUS
  <2> QED  BY <2>1, <2>2 DEF LastGiven
<1> QED  BY <1>1 DEF Untouched

\* What a call makes of the happy condition is one thing.
LEMMA SumOnce ==
  ASSUME NEW s, NEW b, NEW k, NEW v, Sums(s, b, k, v), NEW w, Sums(s, b, k, w)
  PROVE  v = w
BY DEF Sums

LEMMA LastSumOnce ==
  ASSUME NEW s, NEW b, NEW k \in Nat, NEW v, LastSum(s, b, k, v)
  PROVE  ~NoSum(s, b, k) /\ \A w : LastSum(s, b, k, w) => w = v
<1>1. PICK i \in 1..k : Sums(s, b, i, v) /\ \A j \in i + 1 .. k : ~\E w : Sums(s, b, j, w)
  BY DEF LastSum
<1>2. ASSUME NEW w, LastSum(s, b, k, w) PROVE w = v
  <2>1. PICK j \in 1..k : Sums(s, b, j, w) /\ \A l \in j + 1 .. k : ~\E u : Sums(s, b, l, u)
    BY <1>2 DEF LastSum
  <2>2. ~(i < j) /\ ~(j < i)  BY <1>1, <2>1
  <2>3. i = j  BY <2>2
  <2> QED  BY <1>1, <2>1, <2>3, SumOnce
<1> QED  BY <1>1, <1>2 DEF NoSum

LEMMA OneMoreSum ==
  ASSUME NEW s, NEW b, NEW k \in Nat
  PROVE  /\ \A v : Sums(s, b, k + 1, v) => LastSum(s, b, k + 1, v)
         /\ (~\E v : Sums(s, b, k + 1, v)) =>
              /\ \A v : LastSum(s, b, k, v) => LastSum(s, b, k + 1, v)
              /\ NoSum(s, b, k) => NoSum(s, b, k + 1)
<1>1. ASSUME NEW v, Sums(s, b, k + 1, v) PROVE LastSum(s, b, k + 1, v)
  <2>1. k + 1 \in 1 .. k + 1 /\ \A j \in k + 1 + 1 .. k + 1 : FALSE  OBVIOUS
  <2> QED  BY <1>1, <2>1 DEF LastSum
<1>2. ASSUME ~\E v : Sums(s, b, k + 1, v), NEW v, LastSum(s, b, k, v)
      PROVE  LastSum(s, b, k + 1, v)
  <2>1. PICK i \in 1..k : Sums(s, b, i, v) /\ \A j \in i + 1 .. k : ~\E w : Sums(s, b, j, w)
    BY <1>2 DEF LastSum
  <2>2. \A j \in i + 1 .. k + 1 : j \in i + 1 .. k \/ j = k + 1  OBVIOUS
  <2>3. i \in 1 .. k + 1  OBVIOUS
  <2> QED  BY <1>2, <2>1, <2>2, <2>3 DEF LastSum
<1>3. ASSUME ~\E v : Sums(s, b, k + 1, v), NoSum(s, b, k) PROVE NoSum(s, b, k + 1)
  <2>1. \A j \in 1 .. k + 1 : j \in 1 .. k \/ j = k + 1  OBVIOUS
  <2> QED  BY <1>3, <2>1 DEF NoSum
<1> QED  BY <1>1, <1>2, <1>3

\* Where a run starts matters up to worth, and not for the happy condition.
LEMMA SameStart ==
  ASSUME NEW s, NEW b, NEW q, \A t \in Types \ {Happy} : Worth(b[t]) = Worth(q[t])
  PROVE  /\ \A k, t, v : t \in Types \ {Happy} => (Shows(s, b, k, t, v) <=> Shows(s, q, k, t, v))
         /\ \A k, v : Sums(s, b, k, v) <=> Sums(s, q, k, v)
         /\ \A k, v : LastSum(s, b, k, v) <=> LastSum(s, q, k, v)
         /\ \A k : NoSum(s, b, k) <=> NoSum(s, q, k)
<1>1. ASSUME NEW k, NEW t \in Types \ {Happy}, NEW v
      PROVE  Shows(s, b, k, t, v) <=> Shows(s, q, k, t, v)
  BY DEF Shows
<1>2. ASSUME NEW k, NEW d \in Dependents, NEW status
      PROVE  ShowsStatus(s, b, k, d, status) <=> ShowsStatus(s, q, k, d, status)
  BY <1>1, ConditionAssumption DEF ShowsStatus
<1>3. ASSUME NEW k, NEW v PROVE Sums(s, b, k, v) <=> Sums(s, q, k, v)
  BY <1>2 DEF Sums
<1>4. ASSUME NEW k, NEW v PROVE LastSum(s, b, k, v) <=> LastSum(s, q, k, v)
  BY <1>3 DEF LastSum
<1>5. ASSUME NEW k PROVE NoSum(s, b, k) <=> NoSum(s, q, k)
  BY <1>3 DEF NoSum
<1> QED  BY <1>1, <1>3, <1>4, <1>5

\* A call makes the happy condition what Sums says, and else leaves it alone: as a
\* dependent that is false makes it false at once, MarkUnknown finds it so.
LEMMA DoSums ==
  ASSUME NEW c, Sound(c), NEW s, NEW b, NEW k \in Nat, s[k] \in Calls,
         \A t \in Types \ {Happy} : Shows(s, b, k, t, Worth(Do(c, s[k])[t]))
  PROVE  /\ \A v : Sums(s, b, k, v) => Worth(Do(c, s[k])[Happy]) = v
         /\ (~\E v : Sums(s, b, k, v)) => Worth(Do(c, s[k])[Happy]) = Worth(c[Happy])
<1> DEFINE call == s[k]
           new == Do(c, call)
<1>1. /\ Happy \in Types /\ call.type \in Types \ {Happy} /\ call.reason \in AllReasons
      /\ call.op \in {"MarkTrue", "MarkFalse", "MarkUnknown", "ClearCondition"}
      /\ HappyReason \in AllReasons /\ {"True", "False", "Unknown"} \subseteq Statuses
      /\ Dependents \subseteq Types \ {Happy} /\ c \in Conditions
  BY ConditionAssumption DEF Calls, AllReasons, Statuses, Sound
<1>2. ASSUME NEW d \in Dependents, NEW status
      PROVE  ShowsStatus(s, b, k, d, status) <=> Is(new, d, status)
  <2>1. Shows(s, b, k, d, Worth(new[d]))  BY <1>1
  <2>2. \A v : Shows(s, b, k, d, v) => v = Worth(new[d])  BY <2>1, ShowsOnce
  <2>3. Worth(new[d]).set /\ Worth(new[d]).status = status <=> Is(new, d, status)
    BY DEF Worth, Missing, Value, Is
  <2> QED  BY <2>1, <2>2, <2>3 DEF ShowsStatus
<1>3. ASSUME NEW x \in Conditions, NEW t \in Types, NEW status \in Statuses, NEW r \in AllReasons
      PROVE  /\ SetCondition(x, t, status, r) \in Conditions
             /\ Worth(SetCondition(x, t, status, r)[t]) = Value(status, r)
             /\ \A u \in Types : u # t => SetCondition(x, t, status, r)[u] = x[u]
  BY SetWorth
<1>4. CASE call.op = "MarkTrue"
  <2> DEFINE m == SetCondition(c, call.type, "True", call.reason)
             h == SetCondition(m, Happy, "True", HappyReason)
  <2>1. new = IF \A d \in Dependents : Is(m, d, "True") THEN h ELSE m
    BY <1>4 DEF Do, MarkTrue
  <2>2. m \in Conditions /\ m[Happy] = c[Happy]  BY <1>1, <1>3
  <2> HIDE DEF m, new
  <2>3. Worth(h[Happy]) = Value("True", HappyReason) /\ \A d \in Dependents : h[d] = m[d]
    BY <1>1, <1>3, <2>2
  <2> HIDE DEF h
  <2>4. (\A d \in Dependents : Is(m, d, "True")) <=> \A d \in Dependents : Is(new, d, "True")
    BY <2>1, <2>3 DEF Is
  <2>5. \A v : Sums(s, b, k, v) <=>
          v = Value("True", HappyReason) /\ \A d \in Dependents : Is(new, d, "True")
    BY <1>2, <1>4 DEF Sums
  <2> QED  BY <2>1, <2>2, <2>3, <2>4, <2>5 DEF new
<1>5. CASE call.op = "MarkUnknown"
  <2> DEFINE m == SetCondition(c, call.type, "Unknown", call.reason)
             f == SetCondition(m, Happy, "False", call.reason)
             u == SetCondition(m, Happy, "Unknown", call.reason)
  <2>1. new = IF \E d \in Dependents : Is(m, d, "False")
                THEN IF Is(m, Happy, "False") THEN m ELSE f
                ELSE IF call.type \in Dependents THEN u ELSE m
    BY <1>5 DEF Do, MarkUnknown
  <2>2. /\ m \in Conditions /\ m[Happy] = c[Happy]
        /\ Worth(m[call.type]) = Value("Unknown", call.reason)
        /\ \A t \in Types : t # call.type => m[t] = c[t]
    <3>1. /\ m \in Conditions /\ Worth(m[call.type]) = Value("Unknown", call.reason)
          /\ \A t \in Types : t # call.type => m[t] = c[t]
      <4>1. PICK x \in Types, w \in AllReasons : x = call.type /\ w = call.reason  BY <1>1
      <4>2. m = SetCondition(c, x, "Unknown", w)  BY <4>1
      <4>3. /\ m \in Conditions /\ Worth(m[x]) = Value("Unknown", w)
            /\ \A t \in Types : t # x => m[t] = c[t]
        BY <1>1, <1>3, <4>2
      <4> QED  BY <4>1, <4>3
    <3> QED  BY <1>1, <3>1
  <2> HIDE DEF m, new
  <2>3. /\ Worth(u[Happy]) = Value("Unknown", call.reason)
        /\ \A d \in Dependents : u[d] = m[d] /\ f[d] = m[d]
    BY <1>1, <1>3, <2>2
  <2> HIDE DEF u, f
  <2>4. (\E d \in Dependents : Is(m, d, "False")) => Is(m, Happy, "False")
    <3> SUFFICES ASSUME NEW d \in Dependents, Is(m, d, "False") PROVE Is(m, Happy, "False")
      OBVIOUS
    <3>1. d # call.type  BY <2>2 DEF Is, Worth, Value, Missing
    <3>2. Is(c, d, "False")  BY <1>1, <2>2, <3>1 DEF Is
    <3>3. Is(c, Happy, "False")  BY <3>2 DEF Sound, Tracks
    <3> QED  BY <2>2, <3>3 DEF Is
  <2>5. (\E d \in Dependents : Is(m, d, "False")) <=> \E d \in Dependents : Is(new, d, "False")
    BY <2>1, <2>3 DEF Is
  <2>6. \A v : Sums(s, b, k, v) <=>
          /\ call.type \in Dependents
          /\ v = Value("Unknown", call.reason)
          /\ ~\E d \in Dependents : Is(new, d, "False")
    BY <1>2, <1>5 DEF Sums
  <2> QED  BY <2>1, <2>2, <2>3, <2>4, <2>5, <2>6 DEF new
<1>6. CASE call.op = "MarkFalse"
  <2> DEFINE m == SetCondition(c, call.type, "False", call.reason)
             f == SetCondition(m, Happy, "False", call.reason)
  <2>1. new = IF call.type \in Dependents THEN f ELSE m  BY <1>6 DEF Do, MarkFalse
  <2>2. m \in Conditions /\ m[Happy] = c[Happy]  BY <1>1, <1>3
  <2> HIDE DEF m
  <2>3. Worth(f[Happy]) = Value("False", call.reason)  BY <1>1, <1>3, <2>2
  <2>4. \A v : Sums(s, b, k, v) <=> call.type \in Dependents /\ v = Value("False", call.reason)
    BY <1>6 DEF Sums
  <2> HIDE DEF f, new
  <2> QED  BY <2>1, <2>2, <2>3, <2>4 DEF new
<1>7. CASE call.op = "ClearCondition"
  <2>1. new[Happy] = c[Happy]
    BY <1>1, <1>7 DEF Do, ClearCondition, Conditions
  <2>2. \A v : ~Sums(s, b, k, v)  BY <1>7 DEF Sums
  <2> QED  BY <2>1, <2>2
<1> QED  BY <1>1, <1>4, <1>5, <1>6, <1>7

\* The end of a request changes nothing's worth, and nothing at all if nothing
\* ended up worth another than what was stored.
LEMMA SyncedWorth ==
  ASSUME NEW p \in Conditions, NEW o \in Conditions
  PROVE  /\ \A t \in Types : Worth(Aged(SyncLastTransitionTime(p, o))[t]) = Worth(p[t])
         /\ (\A t \in Types : Worth(p[t]) = Worth(o[t])) => SyncLastTransitionTime(p, o) = o
<1> DEFINE s == SyncLastTransitionTime(p, o)
           a == Aged(s)
<1>1. s = [t \in Types |-> IF /\ p[t] # Unset /\ o[t] # Unset
                              /\ p[t].status = o[t].status
                              /\ p[t].reason = o[t].reason
                             THEN o[t] ELSE p[t]]
  BY DEF SyncLastTransitionTime
<1>2. a = [t \in Types |-> IF s[t] = Unset THEN Unset ELSE [s[t] EXCEPT !.now = FALSE]]
  BY DEF Aged
<1> HIDE DEF s, a
<1>3. ASSUME NEW t \in Types
      PROVE  s[t] \in Condition \cup {Unset} /\ Worth(s[t]) = Worth(p[t])
  BY <1>1 DEF Conditions, Worth
<1>4. ASSUME NEW t \in Types PROVE Worth(a[t]) = Worth(s[t])
  <2>1. CASE s[t] = Unset  BY <1>2, <2>1
  <2>2. CASE s[t] # Unset
    <3>1. a[t] = [s[t] EXCEPT !.now = FALSE] /\ s[t] \in Condition  BY <1>2, <1>3, <2>2
    <3>2. a[t] \in Condition /\ a[t].status = s[t].status /\ a[t].reason = s[t].reason
      BY <3>1 DEF Condition
    <3> QED  BY <2>2, <3>2, UnsetAssumption DEF Worth
  <2> QED  BY <2>1, <2>2
<1>5. ASSUME \A t \in Types : Worth(p[t]) = Worth(o[t]) PROVE s = o
  <2>1. ASSUME NEW t \in Types PROVE s[t] = o[t]
    <3>1. p[t] \in Condition \cup {Unset} /\ o[t] \in Condition \cup {Unset}  BY DEF Conditions
    <3>2. \/ p[t] = Unset /\ o[t] = Unset
          \/ p[t] # Unset /\ o[t] # Unset /\ p[t].status = o[t].status /\ p[t].reason = o[t].reason
      BY <1>5, <3>1, WorthSame
    <3> QED  BY <1>1, <3>2
  <2> QED  BY <1>1, <2>1 DEF Conditions
<1> QED  BY <1>3, <1>4, <1>5 DEF a, s

\* Initializing what has all terminal conditions changes nothing.
LEMMA NothingToInitialize ==
  ASSUME NEW c \in Conditions, \A t \in Terminal : c[t] # Unset
  PROVE  InitializeConditions(c) = c
<1> DEFINE i == InitializeConditions(c)
<1>1. ASSUME NEW t \in Types PROVE i[t] = c[t]
  BY <1>1 DEF InitializeConditions, Terminal
<1>2. i = [t \in Types |-> i[t]]  BY DEF InitializeConditions
<1> HIDE DEF i
<1>3. i = c  BY <1>1, <1>2 DEF Conditions
<1> QED  BY <1>3 DEF i

LEMMA BeginSettles ==
  ASSUME TracksInv, Repeatable, Begin
  PROVE  Replayed' /\ Repeatable'
<1>1. /\ conds' = InitializeConditions(stored) /\ step' = 0 /\ stored' = stored
      /\ settled' = settled /\ script' = IF settled = 0 THEN <<>> ELSE script
      /\ stored \in Conditions /\ settled \in Nat
  BY DEF Begin, TracksInv, TypeOK, Enough
<1>2. \A s, b, t : Untouched(s, 0, t) /\ NoSum(s, b, 0)  BY DEF Untouched, NoSum
<1>3. settled > 0 => conds' = stored
  BY <1>1, NothingToInitialize DEF Repeatable
<1>4. settled = 0 => Len(script') = 0  BY <1>1
<1>5. Replayed'  BY <1>1, <1>2, <1>3, <1>4 DEF Replayed
<1>6. settled > 0 => script' = script  BY <1>1
<1>7. Repeatable'  BY <1>1, <1>6 DEF Repeatable
<1> QED  BY <1>5, <1>7

LEMMA MarkSettles ==
  ASSUME TracksInv, Replayed, Repeatable, NEW call \in Calls, Mark(call)
  PROVE  Replayed' /\ Repeatable'
<1>1. /\ step >= 0 /\ step \in Nat /\ settled \in Nat /\ step' = step + 1 /\ stored' = stored
      /\ conds' = Do(conds, call) /\ settled' = settled /\ conds \in Conditions /\ Sound(conds)
      /\ script \in Seq(Calls)
  BY DEF Mark, TracksInv, TypeOK, Enough, Sound, HappyTracks
<1>2. /\ script'[step + 1] = call /\ \A i \in 1..step : script'[i] = script[i]
      /\ settled = 0 => Len(script') = step + 1
      /\ settled > 0 => script' = script
  <2>1. CASE settled = 0
    <3>1. step = Len(script) /\ script' = Append(script, call)
      BY <1>1, <2>1 DEF Mark, Replayed
    <3> QED  BY <1>1, <2>1, <3>1
  <2>2. CASE settled > 0  BY <1>1, <2>2 DEF Mark
  <2> QED  BY <1>1, <2>1, <2>2
<1>3. ASSUME NEW t \in Types \ {Happy}
      PROVE  \/ LastGiven(script', step + 1, t, Worth(conds'[t]))
             \/ /\ Untouched(script', step + 1, t)
                /\ settled > 0 => Worth(conds'[t]) = Worth(stored[t])
  <2>1. CASE Touches(call, t)
    <3>1. Worth(conds'[t]) = Given(call)  BY <1>1, <2>1, DoTouches
    <3>2. LastGiven(script', step + 1, t, Given(call))  BY <1>1, <1>2, <2>1, OneMore
    <3> QED  BY <3>1, <3>2
  <2>2. CASE ~Touches(call, t)
    <3>1. Worth(conds'[t]) = Worth(conds[t])  BY <1>1, <2>2, DoTouches
    <3>2. /\ \A v : LastGiven(script, step, t, v) => LastGiven(script', step, t, v)
          /\ Untouched(script, step, t) => Untouched(script', step, t)
      BY <1>1, <1>2, OnlyFirst
    <3>3. /\ \A v : LastGiven(script', step, t, v) => LastGiven(script', step + 1, t, v)
          /\ Untouched(script', step, t) => Untouched(script', step + 1, t)
      BY <1>1, <1>2, <2>2, OneMore
    <3> QED  BY <1>1, <3>1, <3>2, <3>3 DEF Replayed
  <2> QED  BY <2>1, <2>2
<1>4. ASSUME settled > 0
      PROVE  \/ LastSum(script, stored, step + 1, Worth(conds'[Happy]))
             \/ NoSum(script, stored, step + 1) /\ Worth(conds'[Happy]) = Worth(stored[Happy])
  <2>1. script' = script /\ script[step + 1] = call  BY <1>2, <1>4
  <2>2. \A t \in Types \ {Happy} : Shows(script, stored, step + 1, t, Worth(Do(conds, call)[t]))
    BY <1>1, <1>3, <1>4, <2>1 DEF Shows
  <2>3. /\ \A v : Sums(script, stored, step + 1, v) => Worth(conds'[Happy]) = v
        /\ (~\E v : Sums(script, stored, step + 1, v)) =>
             Worth(conds'[Happy]) = Worth(conds[Happy])
    <3> DEFINE k == step + 1
    <3>1. k \in Nat /\ Sound(conds) /\ script[k] = call /\ script[k] \in Calls
      BY <1>1, <2>1
    <3>2. \A t \in Types \ {Happy} : Shows(script, stored, k, t, Worth(Do(conds, script[k])[t]))
      BY <2>1, <2>2
    <3> HIDE DEF k
    <3>3. /\ \A v : Sums(script, stored, k, v) => Worth(Do(conds, script[k])[Happy]) = v
          /\ (~\E v : Sums(script, stored, k, v)) =>
               Worth(Do(conds, script[k])[Happy]) = Worth(conds[Happy])
      BY <3>1, <3>2, DoSums
    <3>4. conds' = Do(conds, script[k])  BY <1>1, <3>1
    <3> QED  BY <3>3, <3>4 DEF k
  <2>4. CASE \E v : Sums(script, stored, step + 1, v)
    BY <1>1, <2>3, <2>4, OneMoreSum
  <2>5. CASE ~\E v : Sums(script, stored, step + 1, v)
    <3>1. /\ \A v : LastSum(script, stored, step, v) => LastSum(script, stored, step + 1, v)
          /\ NoSum(script, stored, step) => NoSum(script, stored, step + 1)
      BY <1>1, <2>5, OneMoreSum
    <3> QED  BY <1>1, <1>4, <2>3, <2>5, <3>1 DEF Replayed
  <2> QED  BY <2>4, <2>5
<1>5. Replayed'  BY <1>1, <1>2, <1>3, <1>4 DEF Replayed
<1>6. Repeatable'  BY <1>1, <1>2 DEF Repeatable
<1> QED  BY <1>5, <1>6

\* The second time all calls are made, only the happy condition may still change;
\* the third time, none does.
LEMMA EndSettles ==
  ASSUME TracksInv, Replayed, Repeatable, StatusSettles,
         NEW failed \in BOOLEAN, NEW refused \in BOOLEAN, End(failed, refused)
  PROVE  Replayed' /\ Repeatable' /\ StatusSettles'
<1> DEFINE n == Len(script)
           a == Aged(SyncLastTransitionTime(conds, stored))
<1>1. /\ step >= 0 /\ step \in Nat /\ n \in Nat /\ step <= n /\ settled \in 0..3
      /\ conds \in Conditions /\ stored \in Conditions
      /\ step' = -1 /\ script' = script
      /\ step < n => failed
      /\ \A t \in Terminal : conds[t] # Unset
  BY DEF End, TracksInv, TypeOK, Enough
<1>2. Replayed'  BY <1>1 DEF Replayed
<1>3. CASE refused \/ failed
  <2>1. settled' = 0  BY <1>3 DEF End
  <2> QED  BY <1>2, <2>1 DEF Repeatable, StatusSettles, Enough
<1>4. CASE ~refused /\ ~failed
  <2>1. /\ step = n /\ stored' = a
        /\ settled' = IF settled < 3 THEN settled + 1 ELSE settled
        /\ wrote' = (SyncLastTransitionTime(conds, stored) # stored)
    BY <1>1, <1>4 DEF End, Enough
  <2>2. /\ \A t \in Types : Worth(a[t]) = Worth(conds[t])
        /\ (\A t \in Types : Worth(conds[t]) = Worth(stored[t])) =>
             SyncLastTransitionTime(conds, stored) = stored
        /\ a \in Conditions /\ \A t \in Types : a[t] = Unset <=> conds[t] = Unset
    BY <1>1, SyncedWorth, AgedKeepsStatus
  <2> HIDE DEF a, n
  <2>3. Happy \in Types /\ Terminal \subseteq Types
    BY ConditionAssumption DEF Terminal
  <2>4. ASSUME NEW t \in Types \ {Happy} PROVE Shows(script, a, n, t, Worth(a[t]))
    BY <1>1, <2>1, <2>2 DEF Replayed, Shows
  <2>5. \A t \in Terminal : a[t] # Unset  BY <1>1, <2>2, <2>3
  <2>6. ASSUME settled > 0
        PROVE  /\ \A t \in Types \ {Happy} : Worth(conds[t]) = Worth(stored[t])
               /\ \/ LastSum(script, stored, n, Worth(conds[Happy]))
                  \/ NoSum(script, stored, n) /\ Worth(conds[Happy]) = Worth(stored[Happy])
    <3>1. ASSUME NEW t \in Types \ {Happy} PROVE Worth(conds[t]) = Worth(stored[t])
      <4>1. Shows(script, stored, n, t, Worth(conds[t]))
        BY <1>1, <2>1, <2>6 DEF Replayed, Shows
      <4>2. Shows(script, stored, n, t, Worth(stored[t]))  BY <2>6 DEF Repeatable, n
      <4> QED  BY <1>1, <4>1, <4>2, ShowsOnce
    <3> QED  BY <1>1, <2>1, <2>6, <3>1 DEF Replayed
  <2>7. settled > 0 => NoSum(script, a, n) \/ LastSum(script, a, n, Worth(a[Happy]))
    <3> SUFFICES ASSUME settled > 0
                 PROVE  NoSum(script, a, n) \/ LastSum(script, a, n, Worth(a[Happy]))
      OBVIOUS
    <3>1. \A t \in Types \ {Happy} : Worth(stored[t]) = Worth(a[t])  BY <2>2, <2>6
    <3>2. /\ \A v : LastSum(script, stored, n, v) => LastSum(script, a, n, v)
          /\ NoSum(script, stored, n) => NoSum(script, a, n)
      BY <3>1, SameStart
    <3> QED  BY <2>2, <2>3, <2>6, <3>2
  <2>8. settled > 1 => SyncLastTransitionTime(conds, stored) = stored
    <3> SUFFICES ASSUME settled > 1 PROVE Worth(conds[Happy]) = Worth(stored[Happy])
      BY <1>1, <2>2, <2>6
    <3>1. CASE NoSum(script, stored, n)  BY <1>1, <2>6, <3>1, LastSumOnce
    <3>2. CASE ~NoSum(script, stored, n)
      <4>1. LastSum(script, stored, n, Worth(conds[Happy]))  BY <1>1, <2>6, <3>2
      <4>2. LastSum(script, stored, n, Worth(stored[Happy]))  BY <3>2 DEF Repeatable, n
      <4> QED  BY <1>1, <4>1, <4>2, LastSumOnce
    <3> QED  BY <3>1, <3>2
  <2>9. Repeatable'
    <3>1. settled' > 1 => settled > 0  BY <1>1, <2>1
    <3> QED  BY <1>1, <2>1, <2>4, <2>5, <2>7, <3>1 DEF Repeatable, n
  <2>10. StatusSettles'
    <3>1. settled' = 3 => settled > 1  BY <1>1, <2>1
    <3>2. settled' = 3 => wrote' = FALSE  BY <2>1, <2>8, <3>1
    <3> QED  BY <3>2 DEF StatusSettles, Enough
  <2> QED  BY <1>2, <2>9, <2>10
<1> QED  BY <1>3, <1>4

\* StatusSettles: from the third request in an unchanged world on, no request
\* writes the status (syncLastTransitionTime, resource.go:370-373), whatever calls
\* the sub reconcilers make, as long as they make the same ones.
THEOREM WritesEnd == Spec => []StatusSettles
<1> DEFINE J == Replayed /\ Repeatable /\ StatusSettles
<1>1. Init => J
  BY DEF Init, Replayed, Repeatable, StatusSettles, Enough
<1>2. TracksInv /\ TracksInv' /\ J /\ [Next]_vars => J'
  <2> SUFFICES ASSUME TracksInv, J, [Next]_vars PROVE J'
    OBVIOUS
  <2>1. CASE WorldChanges
    BY <2>1 DEF WorldChanges, Replayed, Repeatable, StatusSettles, Enough
  <2>2. CASE Begin
    BY <2>2, BeginSettles DEF Begin, StatusSettles, Enough
  <2>3. ASSUME NEW call \in Calls, Mark(call) PROVE J'
    BY <2>3, MarkSettles DEF Mark, StatusSettles, Enough
  <2>4. ASSUME NEW failed \in BOOLEAN, NEW refused \in BOOLEAN, End(failed, refused) PROVE J'
    BY <2>4, EndSettles
  <2>5. CASE UNCHANGED vars
    BY <2>5 DEF vars, Replayed, Repeatable, StatusSettles, Enough
  <2> QED  BY <2>1, <2>2, <2>3, <2>4, <2>5 DEF Next
<1>3. J => StatusSettles  OBVIOUS
<1> QED  BY <1>1, <1>2, <1>3, TracksInvariant, PTL DEF Spec
=============================================================================
