---------------------------- MODULE HarnessProofs ----------------------------
(***************************************************************************)
(* A suite of table tests is green if and only if what it tests did,       *)
(* through the default config, as it says: for every suite that the        *)
(* harness can judge, every reconciler, and every number of calls.         *)
(***************************************************************************)
EXTENDS Harness, SequenceTheorems, WellFoundedInduction, TLAPS

-----------------------------------------------------------------------------
(* Lists, and what is yielded by a list.                                     *)

\* A set of numbers has a least one, if it has any.
LEMMA Least ==
  ASSUME NEW S, S \subseteq Nat, S # {}
  PROVE  \E x \in S : \A y \in S : x <= y
<1>1. \E x \in S : \A y \in S : ~(<<y, x>> \in OpToRel(<, Nat))
  BY WFMin, NatLessThanWellFounded, Zenon
<1>2. PICK x \in S : \A y \in S : ~(<<y, x>> \in OpToRel(<, Nat))  BY <1>1
<1>3. \A y \in S : ~(y < x)  BY <1>2 DEF OpToRel
<1>4. \A y \in S : x <= y  BY <1>3
<1> QED  BY <1>4

LEMMA ListLength ==
  ASSUME NEW f, NEW k \in Nat, f = [i \in 1..k |-> f[i]]
  PROVE  Len(f) = k /\ DOMAIN f = 1..k
<1> DEFINE S == {f[i] : i \in 1..k}
<1>1. \A i \in 1..k : f[i] \in S  OBVIOUS
<1>2. f \in [1..k -> S]
  <2> HIDE DEF S
  <2> QED  BY <1>1
<1>3. f \in Seq(S)  BY <1>2, SeqDef
<1>4. DOMAIN f = 1..Len(f) /\ Len(f) \in Nat  BY <1>3, LenProperties
<1>5. DOMAIN f = 1..k  OBVIOUS
<1>6. ~(Len(f) < k) /\ ~(k < Len(f))
  <2>1. \A i \in Nat : i >= 1 => (i <= k <=> i <= Len(f))  BY <1>4, <1>5
  <2> QED  BY <1>4, <2>1
<1> QED  BY <1>4, <1>5, <1>6

\* Compare finds nothing to report if the lists are the same.
LEMMA CompareIsEqual ==
  ASSUME NEW t, NEW u, IsList(t), IsList(u)
  PROVE  Compare(t, u) <=> Len(t) = Len(u) /\ \A i \in 1..Len(t) : t[i] = u[i]
<1>1. DOMAIN t = 1..Len(t) /\ Len(t) \in Nat /\ Len(u) \in Nat  BY ListLength DEF IsList
<1>2. ASSUME Compare(t, u) PROVE Len(t) = Len(u)
  <2>1. Len(u) <= Len(t) /\ \A i \in 1..Len(t) : i <= Len(u)  BY <1>1, <1>2 DEF Compare
  <2>2. CASE Len(t) = 0  BY <1>1, <2>1, <2>2
  <2>3. CASE Len(t) # 0
    <3>1. Len(t) \in 1..Len(t)  BY <1>1, <2>3
    <3> QED  BY <1>1, <2>1, <3>1
  <2> QED  BY <2>2, <2>3
<1> QED  BY <1>1, <1>2 DEF Compare

\* e enumerates a set of numbers.
Enumerates(e, k, P) ==
  /\ e \in [1..k -> P]
  /\ \A i, j \in 1..k : i < j => e[i] < e[j]
  /\ \A p \in P : \E i \in 1..k : e[i] = p

\* What it finds in f; and that two lists agree as far as the first goes.
Finds(t, f, e, k) == \A i \in 1..k : t[i] = f[e[i]]
Agree(e, g, k) == \A i \in 1..k : e[i] = g[i]

LEMMA YieldsIs ==
  ASSUME NEW f, NEW P, NEW k \in Nat, NEW t, DOMAIN t = 1..k
  PROVE  Yields(f, P, t) <=> \E e : Enumerates(e, k, P) /\ Finds(t, f, e, k)
<1>1. ASSUME Yields(f, P, t)
      PROVE  \E e : Enumerates(e, k, P) /\ Finds(t, f, e, k)
  BY <1>1 DEF Yields, Enumerates, Finds
<1>2. ASSUME NEW e, Enumerates(e, k, P), Finds(t, f, e, k) PROVE Yields(f, P, t)
  <2>1. e \in [DOMAIN t -> P]  BY <1>2 DEF Enumerates
  <2>2. /\ \A i, j \in DOMAIN t : i < j => e[i] < e[j]
        /\ \A p \in P : \E i \in DOMAIN t : e[i] = p
        /\ \A i \in DOMAIN t : t[i] = f[e[i]]
    BY <1>2 DEF Enumerates, Finds
  <2> QED  BY <2>1, <2>2, Zenon DEF Yields
<1> QED  BY <1>1, <1>2

\* Two enumerations of a set agree as far as the first goes.
LEMMA EnumeratesOnce ==
  ASSUME NEW P, P \subseteq Nat, NEW k \in Nat, NEW l \in Nat,
         NEW e, Enumerates(e, k, P), NEW g, Enumerates(g, l, P)
  PROVE  k <= l /\ Agree(e, g, k)
<1> DEFINE Off == {i \in 1..k : ~(i <= l /\ e[i] = g[i])}
<1>0. /\ \A i \in 1..k : e[i] \in P /\ e[i] \in Nat
      /\ \A i \in 1..l : g[i] \in P /\ g[i] \in Nat
      /\ \A i, j \in 1..k : i < j => e[i] < e[j]
      /\ \A i, j \in 1..l : i < j => g[i] < g[j]
      /\ \A p \in P : (\E i \in 1..k : e[i] = p) /\ \E i \in 1..l : g[i] = p
  BY DEF Enumerates
<1>1. SUFFICES Off = {}
  <2>1. ASSUME Off = {} PROVE k <= l /\ Agree(e, g, k)
    <3>1. \A i \in 1..k : i <= l /\ e[i] = g[i]  BY <2>1
    <3>2. k = 0 \/ k \in 1..k  OBVIOUS
    <3> QED  BY <3>1, <3>2 DEF Agree
  <2> QED  BY <2>1
<1>2. SUFFICES ASSUME Off # {} PROVE FALSE  OBVIOUS
<1>3. Off \subseteq Nat  OBVIOUS
<1>4. \E x \in Off : \A y \in Off : x <= y
  <2> HIDE DEF Off
  <2> QED  BY <1>2, <1>3, Least
<1>5. PICK i \in Off : \A y \in Off : i <= y  BY <1>4
<1>6. i \in 1..k /\ \A j \in 1..k : j < i => j <= l /\ e[j] = g[j]  BY <1>5
<1>7. PICK a \in 1..l : g[a] = e[i]  BY <1>0, <1>6
<1>8. ~(a < i)
  <2> SUFFICES ASSUME a < i PROVE FALSE  OBVIOUS
  <2>1. a \in 1..k  BY <1>6
  <2>2. e[a] = g[a] /\ e[a] < e[i] /\ e[a] \in Nat  BY <1>0, <1>6, <2>1
  <2> QED  BY <1>7, <2>2
<1>9. i \in 1..l  BY <1>6, <1>8
<1>10. PICK b \in 1..k : e[b] = g[i]  BY <1>0, <1>9
<1>11. ~(b < i)
  <2> SUFFICES ASSUME b < i PROVE FALSE  OBVIOUS
  <2>1. b \in 1..l  BY <1>9
  <2>2. e[b] = g[b] /\ g[b] < g[i] /\ g[b] \in Nat  BY <1>0, <1>6, <1>9, <2>1
  <2> QED  BY <1>10, <2>2
<1>12. e[i] \in Nat /\ g[i] \in Nat  BY <1>0, <1>6, <1>9
<1>13. g[i] <= e[i]
  <2>1. a = i \/ g[i] < g[a]  BY <1>0, <1>8, <1>9
  <2> QED  BY <1>7, <1>12, <2>1
<1>14. e[i] <= g[i]
  <2>1. b = i \/ e[i] < e[b]  BY <1>0, <1>6, <1>11
  <2> QED  BY <1>10, <1>12, <2>1
<1>15. e[i] = g[i]  BY <1>12, <1>13, <1>14
<1> QED  BY <1>5, <1>9, <1>15

\* At given places one list is yielded, and no other.
LEMMA YieldsOne ==
  ASSUME NEW f, NEW P, P \subseteq Nat, NEW k \in Nat, NEW l \in Nat,
         NEW t, DOMAIN t = 1..k, NEW u, DOMAIN u = 1..l, Yields(f, P, t)
  PROVE  Yields(f, P, u) <=> k = l /\ Agree(t, u, k)
<1>1. PICK e : Enumerates(e, k, P) /\ Finds(t, f, e, k)  BY YieldsIs
<1>2. ASSUME Yields(f, P, u) PROVE k = l /\ Agree(t, u, k)
  <2>1. PICK g : Enumerates(g, l, P) /\ Finds(u, f, g, l)  BY <1>2, YieldsIs
  <2>2. k <= l /\ Agree(e, g, k)  BY <1>1, <2>1, EnumeratesOnce
  <2>3. l <= k  BY <1>1, <2>1, EnumeratesOnce
  <2> QED  BY <1>1, <2>1, <2>2, <2>3 DEF Agree, Finds
<1>3. ASSUME k = l, Agree(t, u, k) PROVE Yields(f, P, u)
  <2>1. Finds(u, f, e, k)  BY <1>1, <1>3 DEF Agree, Finds
  <2> QED  BY <1>1, <1>3, <2>1, YieldsIs
<1> QED  BY <1>2, <1>3

LEMMA YieldsNothing ==
  ASSUME NEW f PROVE Yields(f, {}, <<>>)
<1>1. DOMAIN <<>> = {}  OBVIOUS
<1>2. [i \in {} |-> 0] \in [{} -> {}]  OBVIOUS
<1> QED  BY <1>1, <1>2 DEF Yields

\* f grows at the end: by something to be told, or by something that is not.
LEMMA YieldsMore ==
  ASSUME NEW f, NEW k \in Nat, NEW P, P \subseteq 1..k, NEW S, NEW t \in Seq(S), Yields(f, P, t),
         NEW h, \A i \in 1..k : h[i] = f[i]
  PROVE  /\ Yields(h, P, t)
         /\ \A c \in S : h[k + 1] = c => Yields(h, P \cup {k + 1}, Append(t, c))
<1> DEFINE n == Len(t)
<1>1. n \in Nat /\ DOMAIN t = 1..n  BY LenProperties
<1>2. PICK e : Enumerates(e, n, P) /\ Finds(t, f, e, n)
  BY <1>1, YieldsIs
<1>3. \A i \in 1..n : e[i] \in P /\ e[i] \in 1..k /\ t[i] = h[e[i]]
  BY <1>2 DEF Enumerates, Finds
<1>4. Yields(h, P, t)
  <2>1. Finds(t, h, e, n)  BY <1>3 DEF Finds
  <2> QED  BY <1>1, <1>2, <2>1, YieldsIs
<1>5. ASSUME NEW c \in S, h[k + 1] = c PROVE Yields(h, P \cup {k + 1}, Append(t, c))
  <2> DEFINE u == Append(t, c)
             g == [i \in 1 .. n + 1 |-> IF i = n + 1 THEN k + 1 ELSE e[i]]
  <2>1. /\ DOMAIN u = 1 .. n + 1 /\ u[n + 1] = c /\ \A i \in 1..n : u[i] = t[i]
    BY <1>1
  <2>2. g \in [1 .. n + 1 -> P \cup {k + 1}]  BY <1>1, <1>3
  <2>3. g[n + 1] = k + 1 /\ \A i \in 1..n : g[i] = e[i]  BY <1>1
  <2>4. \A i \in 1 .. n + 1 : i = n + 1 \/ i \in 1..n  BY <1>1
  <2> HIDE DEF g, u, n
  <2>5. ASSUME NEW i \in 1 .. n + 1, NEW j \in 1 .. n + 1, i < j PROVE g[i] < g[j]
    <3>1. i \in 1..n  BY <1>1, <2>4, <2>5
    <3>2. CASE j = n + 1  BY <1>3, <2>3, <3>1, <3>2
    <3>3. CASE j \in 1..n
      BY <1>2, <2>3, <2>5, <3>1, <3>3 DEF Enumerates
    <3> QED  BY <2>4, <3>2, <3>3
  <2>6. ASSUME NEW p \in P \cup {k + 1} PROVE \E i \in 1 .. n + 1 : g[i] = p
    <3>1. CASE p = k + 1  BY <1>1, <2>3, <3>1
    <3>2. CASE p \in P
      <4>1. PICK i \in 1..n : e[i] = p  BY <1>2, <3>2 DEF Enumerates
      <4> QED  BY <1>1, <2>3, <4>1
    <3> QED  BY <3>1, <3>2
  <2>7. Finds(u, h, g, n + 1)  BY <1>3, <1>5, <2>1, <2>3, <2>4 DEF Finds
  <2>8. Enumerates(g, n + 1, P \cup {k + 1})  BY <2>2, <2>5, <2>6 DEF Enumerates
  <2>9. n + 1 \in Nat  BY <1>1
  <2>10. Yields(h, P \cup {k + 1}, u)  BY <2>1, <2>7, <2>8, <2>9, YieldsIs
  <2> QED  BY <2>10 DEF u
<1> QED  BY <1>4, <1>5

-----------------------------------------------------------------------------
(* The invariant: what is taken down is what the reconciler did.             *)

\* In each stream of the default config are the calls it takes, in order.
Recorded == \A s \in Streams : Yields(made, Places("default", s), log["default"][s])

Returned ==
  /\ outcome.panicked \in BOOLEAN /\ outcome.err \in BOOLEAN
  /\ Test.host # "webhook" => outcome.result \in Results

\* Before the suite ends it has failed if a test of it did not go right.
HarnessInv ==
  /\ suite \in Suites /\ at \in Nat \ {0} /\ phase \in Phases
  /\ failed \in BOOLEAN /\ right \in [Configs -> BOOLEAN]
  /\ log \in [Configs -> [Streams -> Seq(Calls)]] /\ made \in Seq(Calls)
  /\ Recorded
  /\ phase \in {"run", "judge"} => at <= Len(Executed)
  /\ phase = "judge" => Returned
  /\ phase \in {"next", "run", "judge"} /\ Judged => (failed <=> ~right["default"])
  /\ phase = "done" /\ Judged => (failed <=> ~right["default"] \/ Focused # {})

-----------------------------------------------------------------------------
(* The tests of a suite, and the calls of a reconciler.                      *)

LEMMA ExecutedTests ==
  ASSUME suite \in Suites
  PROVE  /\ Len(Executed) \in Nat
         /\ \A i \in 1..Len(Executed) : IsTest(Executed[i]) /\ (Judged => Decidable(Executed[i]))
<1>1. /\ Len(suite) \in Nat /\ DOMAIN suite = 1..Len(suite)
      /\ \A i \in DOMAIN suite : IsTest(suite[i]) /\ (Judged => Decidable(suite[i]))
  BY HarnessAssumption, ListLength DEF IsList, Judged
<1>2. CASE Focused = {}  BY <1>1, <1>2 DEF Executed
<1>3. CASE Focused # {}
  <2>1. Focused \subseteq Nat  BY <1>1 DEF Focused
  <2>2. \E i \in Focused : \A j \in Focused : i <= j  BY <1>3, <2>1, Least
  <2> DEFINE first == CHOOSE i \in Focused : \A j \in Focused : i <= j
  <2>3. first \in Focused  BY <2>2
  <2>4. Executed = <<suite[first]>>  BY <1>3 DEF Executed
  <2> HIDE DEF first
  <2>5. IsTest(suite[first]) /\ (Judged => Decidable(suite[first]))
    BY <1>1, <2>3 DEF Focused
  <2>6. Len(Executed) = 1 /\ Executed[1] = suite[first]  BY <2>4
  <2> QED  BY <2>5, <2>6
<1> QED  BY <1>2, <1>3

LEMMA TestOfSuite ==
  ASSUME HarnessInv, phase \in {"run", "judge"}
  PROVE  IsTest(Test) /\ (Judged => Decidable(Test))
<1>1. at \in 1..Len(Executed)  BY ExecutedTests DEF HarnessInv
<1> QED  BY <1>1, ExecutedTests DEF HarnessInv, Test

\* A call is added to those of the reconciler, and to one stream at most.
LEMMA PlacesAfter ==
  ASSUME made \in Seq(Calls), NEW c, made' = Append(made, c), c \in Calls, NEW s
  PROVE  LET last == Len(made) + 1
         IN  /\ Places("default", s) \subseteq 1..Len(made)
             /\ made' \in Seq(Calls) /\ made'[last] = c
             /\ \A i \in 1..Len(made) : made'[i] = made[i]
             /\ Places("default", s)' = IF /\ c.config = "default" /\ (c.kind \in Scheme \/ s = "track")
                               /\ <<c.verb, c.sub>> = Takes(s)
                              THEN Places("default", s) \cup {last} ELSE Places("default", s)
<1> DEFINE last == Len(made) + 1
           Of(d) == /\ d.config = "default" /\ (d.kind \in Scheme \/ s = "track")
                    /\ <<d.verb, d.sub>> = Takes(s)
<1>1. Len(made) \in Nat /\ DOMAIN made = 1..Len(made)  BY LenProperties
<1>2. /\ made' \in Seq(Calls) /\ DOMAIN made' = 1..last /\ made'[last] = c
      /\ \A i \in 1..Len(made) : made'[i] = made[i]
  BY <1>1
<1>3. Places("default", s) = {i \in 1..Len(made) : Of(made[i])}  BY <1>1 DEF Places
<1>4. Places("default", s)' = {i \in 1..last : Of(made'[i])}  BY <1>2 DEF Places, Takes
<1>5. \A i : i \in 1..last <=> i = last \/ i \in 1..Len(made)  BY <1>1
<1>6. Places("default", s)' = IF Of(c) THEN Places("default", s) \cup {last} ELSE Places("default", s)
  <2> HIDE DEF Of
  <2>1. \A i : i \in Places("default", s)' <=> (i = last /\ Of(c)) \/ i \in Places("default", s)
    BY <1>2, <1>3, <1>4, <1>5
  <2> QED  BY <2>1
<1> QED  BY <1>2, <1>3, <1>6

\* What is taken down remains what the reconciler did, if the call is appended to
\* the stream that takes it, and to none if there is none.
LEMMA RecordedAfter ==
  ASSUME HarnessInv, NEW c \in Calls, made' = Append(made, c),
         log' \in [Configs -> [Streams -> Seq(Calls)]],
         \A s \in Streams :
           log'["default"][s] =
             IF /\ c.config = "default" /\ (c.kind \in Scheme \/ s = "track")
                /\ <<c.verb, c.sub>> = Takes(s)
               THEN Append(log["default"][s], c) ELSE log["default"][s]
  PROVE  Recorded' /\ made' \in Seq(Calls)
<1>1. made \in Seq(Calls) /\ Len(made) \in Nat  BY LenProperties DEF HarnessInv
<1>2. ASSUME NEW s \in Streams PROVE Yields(made', Places("default", s)', log'["default"][s])
  <2> DEFINE list == log["default"][s]
             last == Len(made) + 1
             P == Places("default", s)
  <2>1. list \in Seq(Calls) /\ Yields(made, P, list)
    BY DEF HarnessInv, Recorded, Configs
  <2>2. P \subseteq 1..Len(made) /\ made'[last] = c /\ \A i \in 1..Len(made) : made'[i] = made[i]
    BY <1>1, PlacesAfter
  <2>3. \/ P' = P /\ log'["default"][s] = list
        \/ P' = P \cup {last} /\ log'["default"][s] = Append(list, c)
    <3> DEFINE fits == /\ c.config = "default" /\ (c.kind \in Scheme \/ s = "track")
                       /\ <<c.verb, c.sub>> = Takes(s)
    <3>1. Places("default", s)' = IF fits THEN Places("default", s) \cup {last} ELSE Places("default", s)
      BY <1>1, PlacesAfter
    <3>2. log'["default"][s] = IF fits THEN Append(log["default"][s], c) ELSE log["default"][s]
      OBVIOUS
    <3> HIDE DEF fits
    <3> QED  BY <3>1, <3>2
  <2> HIDE DEF list, P
  <2>4. Yields(made', P, list) /\ Yields(made', P \cup {last}, Append(list, c))
    BY <1>1, <2>1, <2>2, YieldsMore
  <2>5. Yields(made', P', log'["default"][s])  BY <2>3, <2>4
  <2> QED  BY <2>5 DEF P
<1>3. made' \in Seq(Calls)  BY <1>1
<1> QED  BY <1>2, <1>3 DEF Recorded

-----------------------------------------------------------------------------
(* The verdict.                                                              *)

\* What is compared of the expected calls of a stream, and of those taken down.
Compared(s, calls) == CASE s = "statusupdate" -> Statuses(calls)
                        [] s = "track" -> References(calls)
                        [] OTHER -> calls

Recalled(s, calls) == IF s = "statusupdate" THEN Statuses(calls) ELSE calls

\* A call that may be in stream s.
Fits(c, s) == IsCall(c) /\ c.config = "default" /\ <<c.verb, c.sub>> = Takes(s)

\* A track request in the form that is taken down.
Refers(c) == c = [c EXCEPT !.body = "reference"]

\* At i the lists are the same exactly if they show the same.
Alike(s, t, u, i) == Compared(s, t)[i] = Recalled(s, u)[i] <=> Shown(s, t)[i] = Shown(s, u)[i]

LEMMA AssertsAll ==
  ASSUME NEW expects, NEW actual
  PROVE  AssertExpectations(expects, actual)
           <=> \A s \in Streams : Compare(Compared(s, expects[s]), Recalled(s, actual[s]))
<1> DEFINE Good(s) == Compare(Compared(s, expects[s]), Recalled(s, actual[s]))
<1>1. /\ Good("statusupdate") <=> Compare(Statuses(expects["statusupdate"]),
                                          Statuses(actual["statusupdate"]))
      /\ Good("track") <=> Compare(References(expects["track"]), actual["track"])
      /\ \A s \in Streams \ {"statusupdate", "track"} : Good(s) <=> Compare(expects[s], actual[s])
  BY DEF Compared, Recalled
<1> HIDE DEF Good
<1>2. /\ AssertObjects(expects, actual) <=> Good("create") /\ Good("update")
      /\ AssertRefs(expects, actual) <=> /\ Good("patch") /\ Good("delete")
                                        /\ Good("deletecollection") /\ Good("statuspatch")
      /\ AssertRecorder(expects, actual) <=> Good("event")
  BY <1>1 DEF AssertObjects, AssertRefs, AssertRecorder, Streams, ClientStreams
<1>3. AssertStatusUpdates(expects, actual) <=> Good("statusupdate")
  BY <1>1 DEF AssertStatusUpdates
<1>4. AssertTracker(expects, actual) <=> Good("track")
  BY <1>1 DEF AssertTracker
<1>5. AssertExpectations(expects, actual) <=> \A s \in Streams : Good(s)
  BY <1>2, <1>3, <1>4 DEF AssertExpectations, Streams, ClientStreams
<1> QED  BY <1>5 DEF Good

\* Statuses, References and Shown go through a list one by one.
LEMMA OneByOne ==
  ASSUME NEW s, NEW calls, IsList(calls)
  PROVE  /\ IsList(Compared(s, calls)) /\ Len(Compared(s, calls)) = Len(calls)
         /\ IsList(Recalled(s, calls)) /\ Len(Recalled(s, calls)) = Len(calls)
         /\ DOMAIN Shown(s, calls) = 1..Len(calls)
<1> DEFINE k == Len(calls)
<1>1. k \in Nat /\ DOMAIN calls = 1..k  BY ListLength DEF IsList
<1> HIDE DEF k
<1>2. ASSUME NEW f, f = [i \in 1..k |-> f[i]] PROVE IsList(f) /\ Len(f) = k
  BY <1>1, <1>2, ListLength DEF IsList
<1>3. /\ Statuses(calls) = [i \in 1..k |-> IF calls[i].kind \in Untyped THEN <<>>
                                            ELSE <<calls[i].kind, calls[i].body>>]
      /\ References(calls) = [i \in 1..k |-> [calls[i] EXCEPT !.body = "reference"]]
  BY <1>1 DEF Statuses, References
<1>4. IsList(calls) /\ Len(calls) = k  BY DEF k
<1>5. IsList(Statuses(calls)) /\ Len(Statuses(calls)) = k
  <2> DEFINE f == Statuses(calls)
  <2>1. f = [i \in 1..k |-> f[i]]  BY <1>3
  <2> HIDE DEF f
  <2>2. IsList(f) /\ Len(f) = k  BY <1>2, <2>1
  <2> QED  BY <2>2 DEF f
<1>6. IsList(References(calls)) /\ Len(References(calls)) = k
  <2> DEFINE f == References(calls)
  <2>1. f = [i \in 1..k |-> f[i]]  BY <1>3
  <2> HIDE DEF f
  <2>2. IsList(f) /\ Len(f) = k  BY <1>2, <2>1
  <2> QED  BY <2>2 DEF f
<1>7. DOMAIN Shown(s, calls) = 1..k  BY <1>1 DEF Shown
<1> QED  BY <1>4, <1>5, <1>6, <1>7 DEF Compared, Recalled, k

\* Calls that fit a stream are compared by what should be looked at.
LEMMA LooksAlike ==
  ASSUME NEW s, NEW t, IsList(t), NEW u, IsList(u),
         NEW i \in 1..Len(t), i \in 1..Len(u), Fits(t[i], s), Fits(u[i], s),
         s = "track" => Refers(u[i]), s = "statusupdate" => t[i].kind \notin Untyped
  PROVE  Alike(s, t, u, i)
<1>1. DOMAIN t = 1..Len(t) /\ DOMAIN u = 1..Len(u)  BY ListLength DEF IsList
<1>2. CASE s = "statusupdate"
  <2>1. /\ Compared(s, t)[i] = <<t[i].kind, t[i].body>>
        /\ Recalled(s, u)[i] = IF u[i].kind \in Untyped THEN <<>> ELSE <<u[i].kind, u[i].body>>
        /\ Shown(s, t)[i] = <<t[i].kind, t[i].body>> /\ Shown(s, u)[i] = <<u[i].kind, u[i].body>>
    BY <1>1, <1>2 DEF Compared, Recalled, Shown, Statuses
  <2>2. \A a, b : <<>> # <<a, b>>  OBVIOUS
  <2>3. CASE u[i].kind \in Untyped
    <3>1. t[i].kind # u[i].kind  BY <1>2, <2>3
    <3>2. <<t[i].kind, t[i].body>> # <<u[i].kind, u[i].body>>  BY <3>1
    <3> QED  BY <2>1, <2>2, <2>3, <3>2 DEF Alike
  <2>4. CASE u[i].kind \notin Untyped  BY <2>1, <2>4 DEF Alike
  <2> QED  BY <2>3, <2>4
<1>3. CASE s = "track"
  <2> DEFINE Fields == {"config", "verb", "sub", "kind", "name", "body"}
             a == t[i]
             b == u[i]
  <2>1. /\ Compared(s, t)[i] = [a EXCEPT !.body = "reference"]
        /\ Recalled(s, u)[i] = [b EXCEPT !.body = "reference"]
    BY <1>1, <1>3 DEF Compared, Recalled, References, Refers
  <2>2. Shown(s, t)[i] = <<a.kind, a.name>> /\ Shown(s, u)[i] = <<b.kind, b.name>>
    BY <1>1, <1>3 DEF Shown
  <2>3. /\ DOMAIN a = Fields /\ DOMAIN b = Fields
        /\ a.config = b.config /\ a.verb = b.verb /\ a.sub = b.sub
    <3>1. <<a.verb, a.sub>> = <<b.verb, b.sub>>  BY DEF Fits
    <3> QED  BY <3>1 DEF Fits, IsCall
  <2> HIDE DEF a, b
  <2>4. [a EXCEPT !.body = "reference"] = [b EXCEPT !.body = "reference"]
          <=> <<a.kind, a.name>> = <<b.kind, b.name>>
    <3> DEFINE p == [a EXCEPT !.body = "reference"]
               q == [b EXCEPT !.body = "reference"]
    <3>1. /\ p = [x \in Fields |-> IF x = "body" THEN "reference" ELSE a[x]]
          /\ q = [x \in Fields |-> IF x = "body" THEN "reference" ELSE b[x]]
      BY <2>3
    <3>2. p.kind = a.kind /\ q.kind = b.kind /\ p.name = a.name /\ q.name = b.name
      BY <3>1
    <3>3. ASSUME a.kind = b.kind, a.name = b.name PROVE p = q
      <4>1. \A x \in Fields : x = "body" \/ a[x] = b[x]  BY <2>3, <3>3
      <4> QED  BY <3>1, <4>1
    <3> QED  BY <3>2, <3>3
  <2> QED  BY <2>1, <2>2, <2>4, Zenon DEF Alike
<1>4. CASE s \notin {"statusupdate", "track"}  BY <1>4 DEF Alike, Compared, Recalled, Shown
<1> QED  BY <1>2, <1>3, <1>4

\* What is shown of a list is yielded where the list is.
LEMMA ShownYields ==
  ASSUME NEW s, NEW f, NEW n \in Nat, DOMAIN f = 1..n, NEW P, P \subseteq 1..n,
         NEW k \in Nat, NEW t, DOMAIN t = 1..k, Yields(f, P, t)
  PROVE  Yields(Shown(s, f), P, Shown(s, t))
<1>1. PICK e : Enumerates(e, k, P) /\ Finds(t, f, e, k)  BY YieldsIs
<1>2. \A i \in 1..k : e[i] \in 1..n /\ t[i] = f[e[i]]  BY <1>1 DEF Enumerates, Finds
<1>3. Finds(Shown(s, t), Shown(s, f), e, k)  BY <1>2 DEF Finds, Shown
<1>4. DOMAIN Shown(s, t) = 1..k  BY DEF Shown
<1> QED  BY <1>1, <1>3, <1>4, YieldsIs

\* The default config finds nothing to report exactly if its streams are as expected.
LEMMA AssertsTheDefault ==
  ASSUME HarnessInv, IsTest(Test), Decidable(Test)
  PROVE  AssertExpectations(Test.expects["default"], log["default"])
           <=> \A s \in Streams :
                 Yields(Shown(s, made), Places("default", s), Shown(s, Test.expects["default"][s]))
<1>1. ASSUME NEW s \in Streams
      PROVE  Compare(Compared(s, Test.expects["default"][s]), Recalled(s, log["default"][s]))
               <=> Yields(Shown(s, made), Places("default", s), Shown(s, Test.expects["default"][s]))
  <2> DEFINE x == Test.expects["default"][s]
             a == log["default"][s]
             k == Len(x)
             l == Len(a)
             P == Places("default", s)
             n == Len(made)
  <2>1. /\ IsList(x) /\ k \in Nat /\ DOMAIN x = 1..k
        /\ \A i \in 1..k : Fits(x[i], s) /\ (s = "statusupdate" => x[i].kind \notin Untyped)
    <3>1. /\ IsList(x)
          /\ \A i \in DOMAIN x : IsCall(x[i]) /\ x[i].config = "default"
                                 /\ <<x[i].verb, x[i].sub>> = Takes(s)
      BY DEF IsTest, Configs
    <3>2. \A i \in DOMAIN x : s = "statusupdate" => x[i].kind \notin Untyped
      BY DEF Decidable
    <3> HIDE DEF x
    <3> QED  BY <3>1, <3>2, ListLength DEF IsList, Fits
  <2>2. /\ IsList(a) /\ l \in Nat /\ DOMAIN a = 1..l
        /\ Yields(made, P, a)
    <3>1. a \in Seq(Calls) /\ Yields(made, P, a)  BY DEF HarnessInv, Recorded, Configs
    <3> HIDE DEF a
    <3> QED  BY <3>1, LenProperties DEF IsList
  <2>3. n \in Nat /\ DOMAIN made = 1..n /\ P \subseteq 1..n
    BY LenProperties DEF HarnessInv, Places
  <2>4. \A i \in 1..l : /\ Fits(a[i], s)
                        /\ s = "track" => Refers(a[i])
    <3>1. PICK e : Enumerates(e, l, P) /\ Finds(a, made, e, l)
      BY <2>2, YieldsIs
    <3>2. ASSUME NEW p \in P
          PROVE  /\ Fits(made[p], s)
                 /\ s = "track" => Refers(made[p])
      <4>1. made[p] \in Calls  BY LenProperties DEF HarnessInv, Places
      <4>2. /\ IsCall(made[p]) /\ (made[p].verb = "track" => made[p].body = "reference")
            /\ made[p].config = "default" /\ <<made[p].verb, made[p].sub>> = Takes(s)
        BY <4>1, HarnessAssumption DEF Places
      <4>3. s = "track" => made[p].verb = "track"  BY <4>2 DEF Takes
      <4>4. \A c : IsCall(c) /\ c.body = "reference" => Refers(c)  BY DEF IsCall, Refers
      <4>5. s = "track" => Refers(made[p])
        <5> DEFINE c == made[p]
        <5> HIDE DEF c
        <5>1. IsCall(c) /\ (s = "track" => c.body = "reference")  BY <4>2, <4>3 DEF c
        <5>2. s = "track" => Refers(c)  BY <4>4, <5>1
        <5> QED  BY <5>2 DEF c
      <4> QED  BY <4>2, <4>5 DEF Fits
    <3> HIDE DEF a, P
    <3> QED  BY <3>1, <3>2 DEF Enumerates, Finds
  <2> HIDE DEF x, a, k, l, P, n
  <2>5. /\ IsList(Compared(s, x)) /\ Len(Compared(s, x)) = k /\ DOMAIN Shown(s, x) = 1..k
        /\ IsList(Recalled(s, a)) /\ Len(Recalled(s, a)) = l /\ DOMAIN Shown(s, a) = 1..l
    BY <2>1, <2>2, OneByOne DEF k, l
  <2>6. Compare(Compared(s, x), Recalled(s, a))
          <=> k = l /\ \A i \in 1..k : Compared(s, x)[i] = Recalled(s, a)[i]
    BY <2>5, CompareIsEqual
  <2>7. ASSUME k = l, NEW i \in 1..k
        PROVE  Alike(s, x, a, i)
    <3>1. i \in 1..k /\ i \in 1..l  BY <2>7
    <3>2. Fits(x[i], s) /\ (s = "statusupdate" => x[i].kind \notin Untyped)  BY <2>1, <3>1
    <3>3. Fits(a[i], s) /\ (s = "track" => Refers(a[i]))  BY <2>4, <3>1
    <3>4. i \in 1..Len(x) /\ i \in 1..Len(a)  BY <3>1 DEF k, l
    <3> QED  BY <2>1, <2>2, <3>2, <3>3, <3>4, LooksAlike
  <2>8. Yields(Shown(s, made), P, Shown(s, a))  BY <2>2, <2>3, ShownYields
  <2>9. P \subseteq Nat  BY <2>3
  <2>10. Yields(Shown(s, made), P, Shown(s, x)) <=> l = k /\ Agree(Shown(s, a), Shown(s, x), l)
    BY <2>1, <2>2, <2>5, <2>8, <2>9, YieldsOne
  <2>11. Compare(Compared(s, x), Recalled(s, a)) <=> Yields(Shown(s, made), P, Shown(s, x))
    BY <2>6, <2>7, <2>10 DEF Agree, Alike
  <2> QED  BY <2>11 DEF x, a, P
<1> QED  BY <1>1, AssertsAll

\* An additional config, that has not seen anything, if nothing is expected of it.
LEMMA AssertsTheOther ==
  ASSUME IsTest(Test)
  PROVE  AssertExpectations(Test.expects["additional"], Blank["additional"])
           <=> \A s \in Streams : Test.expects["additional"][s] = <<>>
<1>1. ASSUME NEW s \in Streams
      PROVE  Compare(Compared(s, Test.expects["additional"][s]), Recalled(s, Blank["additional"][s]))
               <=> Test.expects["additional"][s] = <<>>
  <2> DEFINE x == Test.expects["additional"][s]
             k == Len(x)
             none == Blank["additional"][s]
  <2>1. IsList(x)  BY DEF IsTest, Configs
  <2>2. none = <<>>  BY DEF Blank, Configs
  <2> HIDE DEF x, none
  <2>3. k \in Nat /\ x = [i \in 1..k |-> x[i]]  BY <2>1 DEF IsList
  <2>4. IsList(none) /\ Len(none) = 0  BY <2>2 DEF IsList
  <2>5. /\ IsList(Compared(s, x)) /\ Len(Compared(s, x)) = k
        /\ IsList(Recalled(s, none)) /\ Len(Recalled(s, none)) = 0
    BY <2>1, <2>4, OneByOne
  <2> HIDE DEF k
  <2>6. Compare(Compared(s, x), Recalled(s, none)) <=> k = 0
    BY <2>3, <2>5, CompareIsEqual
  <2>7. k = 0 <=> x = <<>>  BY <2>3 DEF k
  <2> QED  BY <2>6, <2>7 DEF x, none
<1> QED  BY <1>1, AssertsAll

LEMMA SameResultIs ==
  ASSUME NEW r \in Results, NEW q \in Results
  PROVE  Normalized(r) = Normalized(q)
           <=> q.after = r.after /\ (q.after = 0 => q = r)
<1>1. /\ Normalized(r).after = r.after /\ Normalized(q).after = q.after
      /\ r.after = 0 => Normalized(r) = r
      /\ q.after = 0 => Normalized(q) = q
      /\ r.after # 0 => Normalized(r) = [requeue |-> FALSE, after |-> r.after]
      /\ q.after # 0 => Normalized(q) = [requeue |-> FALSE, after |-> q.after]
  BY DEF Normalized, Results
<1> QED  BY <1>1

\* A test passes if and only if the reconciler did and returned what it expects.
LEMMA PassesIsRight ==
  ASSUME HarnessInv, IsTest(Test), Decidable(Test), Returned
  PROVE  Passes <=> DidAsExpected("default") /\ ReturnedAsExpected
<1> DEFINE Did == DidAsExpected("default")
<1>1. /\ AssertExpectations(Test.expects["default"], log["default"]) <=> Did
      /\ AssertExpectations(Test.expects["additional"], Blank["additional"])
  BY AssertsTheDefault, AssertsTheOther DEF DidAsExpected, Decidable
<1>2. (\A c \in Configs : AssertExpectations(Test.expects[c], Asserted[c])) <=> Did
  <2>1. Asserted["default"] = log["default"] /\ Asserted["additional"] = Blank["additional"]
    BY DEF HarnessInv, Asserted, Configs
  <2> HIDE DEF Did
  <2> QED  BY <1>1, <2>1 DEF Configs
<1> HIDE DEF Did
<1>3. Test.host # "webhook" =>
        (SameResult <=> /\ outcome.result.after = Test.result.after
                        /\ outcome.result.after = 0 => outcome.result = Test.result)
  BY SameResultIs DEF SameResult, Returned, IsTest
<1>4. (\A k \in DOMAIN Test.stash : k \in DOMAIN outcome.stash /\ outcome.stash[k] = Test.stash[k])
        <=> \A k \in DOMAIN Test.stash :
              <<k, Test.stash[k]>> \in {<<j, outcome.stash[j]>> : j \in DOMAIN outcome.stash}
  <2> DEFINE mine == outcome.stash
             yours == Test.stash
  <2> HIDE DEF mine, yours
  <2>1. ASSUME NEW k
        PROVE  <<k, yours[k]>> \in {<<j, mine[j]>> : j \in DOMAIN mine}
                 <=> k \in DOMAIN mine /\ mine[k] = yours[k]
    OBVIOUS
  <2> QED  BY <2>1 DEF mine, yours
<1>5. CASE Test.host = "reconciler"
  <2>1. ~Test.shouldPanic  BY <1>5 DEF IsTest
  <2> QED
    BY <1>2, <1>3, <1>5, <2>1 DEF Passes, JudgeReconciler, SameError, ReturnedAsExpected, Did
<1>6. CASE Test.host = "sub"
  BY <1>2, <1>3, <1>4, <1>6
     DEF Passes, JudgeSub, SameError, PanickedAsToldTo, ReturnedAsExpected, Did
<1>7. CASE Test.host = "webhook"
  BY <1>1, <1>7 DEF Passes, JudgeWebhook, PanickedAsToldTo, ReturnedAsExpected, Did
<1> QED  BY <1>5, <1>6, <1>7 DEF IsTest, Hosts

-----------------------------------------------------------------------------
(* The steps.                                                                *)

LEMMA CallStep ==
  ASSUME HarnessInv, NEW c \in Calls,
         \/ Read(c) \/ Write(c) \/ WriteStatus(c) \/ UseSubResource(c)
         \/ RecordEvent(c) \/ Track(c)
  PROVE  HarnessInv'
<1>1. /\ phase = "run" /\ made' = Append(made, c)
      /\ UNCHANGED <<suite, at, phase, outcome, failed, right>>
  BY DEF Read, Write, WriteStatus, UseSubResource, RecordEvent, Track, Does
<1>2. IsCall(c)  BY HarnessAssumption
<1> DEFINE Fit(s) == /\ c.config = "default" /\ (c.kind \in Scheme \/ s = "track")
                     /\ <<c.verb, c.sub>> = Takes(s)
<1>3. \A s : Fit(s) <=> /\ c.config = "default" /\ (c.kind \in Scheme \/ s = "track")
                       /\ \/ s = "statusupdate" /\ c.verb = "update" /\ c.sub = "status"
                          \/ s = "statuspatch" /\ c.verb = "patch" /\ c.sub = "status"
                          \/ s \notin {"statusupdate", "statuspatch"} /\ c.verb = s /\ c.sub = ""
  BY DEF Takes
<1> HIDE DEF Fit
<1>4. /\ log' \in [Configs -> [Streams -> Seq(Calls)]]
      /\ \A s \in Streams : log'["default"][s] = IF Fit(s) THEN Append(log["default"][s], c)
                                                          ELSE log["default"][s]
  <2>1. log \in [Configs -> [Streams -> Seq(Calls)]] /\ c.config \in Configs
    BY <1>2 DEF HarnessInv, IsCall
  <2>2. CASE UNCHANGED log /\ \A s \in Streams : ~Fit(s)  BY <2>1, <2>2
  <2>3. ASSUME NEW stream \in Streams, Taken(c, stream),
               \A s \in Streams : Fit(s) <=> s = stream /\ c.config = "default"
        PROVE  /\ log' \in [Configs -> [Streams -> Seq(Calls)]]
               /\ \A s \in Streams : log'["default"][s] = IF Fit(s) THEN Append(log["default"][s], c)
                                                                   ELSE log["default"][s]
    <3> DEFINE longer == [log[c.config] EXCEPT ![stream] = Append(log[c.config][stream], c)]
    <3>1. log' = [log EXCEPT ![c.config] = longer]
      BY <2>1, <2>3 DEF Taken
    <3>2. \A g \in Configs : log[g] \in [Streams -> Seq(Calls)]  BY <2>1
    <3>3. Append(log[c.config][stream], c) \in Seq(Calls)  BY <2>1, <2>3, <3>2
    <3>4. longer \in [Streams -> Seq(Calls)]  BY <2>1, <3>2, <3>3
    <3>10. \A s \in Streams : longer[s] = IF s = stream THEN Append(log[c.config][s], c)
                                                       ELSE log[c.config][s]
      BY <2>1, <3>2
    <3> HIDE DEF longer
    <3>5. log' \in [Configs -> [Streams -> Seq(Calls)]]  BY <2>1, <3>1, <3>4
    <3>6. "default" \in Configs  BY DEF Configs
    <3>7. CASE c.config = "default"
      <4>1. log'["default"] = longer  BY <2>1, <3>1, <3>6, <3>7
      <4> QED  BY <2>3, <3>5, <3>7, <3>10, <4>1
    <3>8. CASE c.config # "default"
      <4>1. log'["default"] = log["default"]  BY <2>1, <3>1, <3>6, <3>8
      <4> QED  BY <2>3, <3>5, <3>8, <4>1
    <3> QED  BY <3>7, <3>8
  <2>4. CASE Read(c)
    <3>1. \A s \in Streams : ~Fit(s)
      BY <1>3, <2>4 DEF Read, Known, Streams, ClientStreams
    <3> QED  BY <2>2, <2>4, <3>1 DEF Read
  <2>5. CASE Write(c)
    <3>1. /\ c.sub = "" /\ c.verb \in {"create", "update", "patch", "delete", "deletecollection"}
          /\ c.verb \in Streams
          /\ IF Known(c) THEN Taken(c, c.verb) ELSE UNCHANGED log
      BY <2>5 DEF Write, Streams, ClientStreams
    <3>2. \A s \in Streams : Fit(s) <=> s = c.verb /\ c.config = "default" /\ Known(c)
      BY <1>3, <3>1 DEF Known
    <3> QED  BY <2>2, <2>3, <3>1, <3>2
  <2>6. CASE WriteStatus(c)
    <3>1. /\ c.sub = "status" /\ {"statusupdate", "statuspatch"} \subseteq Streams
          /\ Known(c) /\ c.verb = "update" => Taken(c, "statusupdate")
          /\ Known(c) /\ c.verb = "patch" => Taken(c, "statuspatch")
          /\ ~(Known(c) /\ c.verb \in {"update", "patch"}) => UNCHANGED log
      BY <2>6 DEF WriteStatus, Streams, ClientStreams
    <3>2. \A s \in Streams :
            Fit(s) <=> /\ c.config = "default" /\ Known(c)
                       /\ \/ s = "statusupdate" /\ c.verb = "update"
                          \/ s = "statuspatch" /\ c.verb = "patch"
      BY <1>3, <3>1 DEF Known
    <3> QED  BY <2>2, <2>3, <3>1, <3>2
  <2>7. CASE UseSubResource(c)
    <3>1. \A s \in Streams : ~Fit(s)  BY <1>3, <2>7 DEF UseSubResource
    <3> QED  BY <2>2, <2>7, <3>1 DEF UseSubResource
  <2>8. CASE RecordEvent(c)
    <3>1. /\ c.sub = "" /\ c.verb = "event" /\ "event" \in Streams /\ Known(c)
          /\ Taken(c, "event")
      BY <1>2, <2>8 DEF RecordEvent, IsCall, Streams
    <3>2. \A s \in Streams : Fit(s) <=> s = "event" /\ c.config = "default"
      BY <1>3, <3>1 DEF Known
    <3> QED  BY <2>3, <3>1, <3>2
  <2>9. CASE Track(c)
    <3>1. c.sub = "" /\ c.verb = "track" /\ "track" \in Streams /\ Taken(c, "track")
      BY <1>2, <2>9 DEF Track, IsCall, Streams
    <3>2. \A s \in Streams : Fit(s) <=> s = "track" /\ c.config = "default"
      BY <1>3, <3>1
    <3> QED  BY <2>3, <3>1, <3>2
  <2> QED  BY <2>4, <2>5, <2>6, <2>7, <2>8, <2>9
<1>5. Recorded' /\ made' \in Seq(Calls)  BY <1>1, <1>4, RecordedAfter DEF Fit
<1> QED
  BY <1>1, <1>4, <1>5 DEF HarnessInv, Executed, Focused, Returned, Judged

\* A new test finds nothing taken down.
LEMMA ForgetRecorded ==
  ASSUME log' = Blank, made' = <<>>
  PROVE  Recorded' /\ made' \in Seq(Calls) /\ log' \in [Configs -> [Streams -> Seq(Calls)]]
<1>1. log' \in [Configs -> [Streams -> Seq(Calls)]]  BY DEF Blank
<1>2. ASSUME NEW s \in Streams PROVE Yields(made', Places("default", s)', log'["default"][s])
  <2>1. Places("default", s)' = {}  BY DEF Places
  <2>2. log'["default"][s] = <<>>  BY DEF Blank, Configs
  <2> QED  BY <2>1, <2>2, YieldsNothing
<1> QED  BY <1>1, <1>2 DEF Recorded

LEMMA ReturnStep ==
  ASSUME HarnessInv, NEW o, Return(o)
  PROVE  HarnessInv'
<1>1. /\ phase = "run" /\ IsOutcome(o) /\ (Test.host # "webhook" => o.result \in Results)
      /\ UNCHANGED <<suite, at, log, named, failed, made, right>>
      /\ phase' \in {"dead", "judge"}
  BY HarnessAssumption DEF Return
<1>2. Returned'
  <2>1. Test' = Test  BY <1>1 DEF Test, Executed, Focused
  <2>2. NoOutcome.result \in Results  BY DEF NoOutcome, Results
  <2>3. /\ outcome'.panicked \in BOOLEAN /\ outcome'.err \in BOOLEAN
        /\ Test.host # "webhook" => outcome'.result \in Results
    <3>1. CASE o.panicked
      <4>1. outcome' = [o EXCEPT !.err = FALSE, !.result = NoOutcome.result]
        BY <3>1 DEF Return
      <4>2. outcome'.panicked = o.panicked /\ outcome'.err = FALSE /\ outcome'.result = NoOutcome.result
        BY <1>1, <4>1 DEF IsOutcome
      <4> QED  BY <1>1, <2>2, <4>2 DEF IsOutcome
    <3>2. CASE ~o.panicked
      <4>1. outcome' = o  BY <3>2 DEF Return
      <4> QED  BY <1>1, <4>1 DEF IsOutcome
    <3> QED  BY <3>1, <3>2
  <2> QED  BY <2>1, <2>3 DEF Returned
<1>3. Recorded'  BY <1>1 DEF HarnessInv, Recorded, Places
<1>4. Judged' = Judged  BY <1>1 DEF Judged
<1> QED
  BY <1>1, <1>2, <1>3, <1>4 DEF HarnessInv, Executed, Focused, Phases

\* The verdict on a test is right, so the suite fails if and only if a test did not.
LEMMA JudgeStep ==
  ASSUME HarnessInv, NEW cleaned \in BOOLEAN, Judge(cleaned)
  PROVE  HarnessInv'
<1>1. /\ phase = "judge" /\ suite' = suite /\ at' = at + 1 /\ phase' = "next"
      /\ log' = Blank /\ made' = <<>>
      /\ failed' = (failed \/ ~Passes \/ ~cleaned)
      /\ right' = [c \in Configs |->
                    /\ right[c] /\ DidAsExpected(c)
                    /\ c = "default" => ReturnedAsExpected /\ cleaned]
  BY DEF Judge, NextTest, Forget
<1>2. Judged => (Passes <=> DidAsExpected("default") /\ ReturnedAsExpected)
  BY <1>1, TestOfSuite, PassesIsRight DEF HarnessInv
<1>3. /\ right' \in [Configs -> BOOLEAN]
      /\ right'["default"] <=> /\ right["default"] /\ DidAsExpected("default")
                              /\ ReturnedAsExpected /\ cleaned
  <2>1. \A c \in Configs : (/\ right[c] /\ DidAsExpected(c)
                             /\ c = "default" => ReturnedAsExpected /\ cleaned) \in BOOLEAN
    OBVIOUS
  <2> QED  BY <1>1, <2>1 DEF Configs
<1>4. failed' \in BOOLEAN /\ (Judged => (failed' <=> ~right'["default"]))
  BY <1>1, <1>2, <1>3 DEF HarnessInv
<1>5. Recorded' /\ made' \in Seq(Calls) /\ log' \in [Configs -> [Streams -> Seq(Calls)]]
  BY <1>1, ForgetRecorded
<1>6. Judged' = Judged  BY <1>1 DEF Judged
<1> QED  BY <1>1, <1>3, <1>4, <1>5, <1>6 DEF HarnessInv, Phases

LEMMA HarnessStep ==
  ASSUME HarnessInv, [Next]_vars
  PROVE  HarnessInv'
<1>1. ASSUME UNCHANGED testVars, UNCHANGED suite
      PROVE  /\ Recorded' /\ made' \in Seq(Calls) /\ log' \in [Configs -> [Streams -> Seq(Calls)]]
             /\ Executed' = Executed /\ Focused' = Focused /\ Judged' = Judged
  <2>1. log' = log /\ made' = made  BY <1>1 DEF testVars
  <2>2. Focused' = Focused  BY <1>1 DEF Focused
  <2>3. Executed' = Executed  BY <1>1, <2>2 DEF Executed
  <2>4. Judged' = Judged  BY <1>1 DEF Judged
  <2> QED  BY <2>1, <2>2, <2>3, <2>4 DEF HarnessInv, Recorded, Places
<1>2. CASE Skip
  BY <1>1, <1>2 DEF Skip, NextTest, HarnessInv, Phases
<1>3. CASE EndSuite
  <2>1. /\ phase = "next" /\ phase' = "done" /\ failed' = (failed \/ Focused # {})
        /\ UNCHANGED <<suite, at, right>> /\ UNCHANGED testVars
    BY <1>3 DEF EndSuite
  <2>2. failed \in BOOLEAN /\ (Judged => (failed <=> ~right["default"]))
    BY <2>1 DEF HarnessInv
  <2>3. failed' \in BOOLEAN /\ (Judged => (failed' <=> ~right["default"] \/ Focused # {}))
    BY <2>1, <2>2
  <2> QED  BY <1>1, <2>1, <2>3 DEF HarnessInv, Phases
<1>4. ASSUME NEW ok \in BOOLEAN, Prepare(ok) PROVE HarnessInv'
  <2>1. /\ phase = "next" /\ at <= Len(Executed)
        /\ failed' = (failed \/ ~ok) /\ right' = [right EXCEPT !["default"] = @ /\ ok]
        /\ UNCHANGED testVars /\ UNCHANGED suite
        /\ \/ phase' = "run" /\ at' = at
           \/ phase' = "next" /\ at' = at + 1
    BY <1>4 DEF Prepare, NextTest
  <2>2. /\ failed' \in BOOLEAN /\ right' \in [Configs -> BOOLEAN]
        /\ Judged => (failed' <=> ~right'["default"])
    <3>1. right \in [Configs -> BOOLEAN] /\ "default" \in Configs  BY DEF HarnessInv, Configs
    <3>2. (right["default"] /\ ok) \in BOOLEAN  BY <3>1
    <3>3. right' \in [Configs -> BOOLEAN] /\ right'["default"] = (right["default"] /\ ok)
      BY <2>1, <3>1, <3>2
    <3> QED  BY <2>1, <3>3 DEF HarnessInv
  <2> QED  BY <1>1, <2>1, <2>2 DEF HarnessInv, Phases
<1>5. ASSUME NEW ok \in BOOLEAN, Judge(ok) PROVE HarnessInv'  BY <1>5, JudgeStep
<1>6. ASSUME NEW o \in Outcomes, Return(o) PROVE HarnessInv'  BY <1>6, ReturnStep
<1>7. ASSUME NEW c \in Calls,
             \/ Read(c) \/ Write(c) \/ WriteStatus(c) \/ UseSubResource(c)
             \/ RecordEvent(c) \/ Track(c)
      PROVE  HarnessInv'
  BY <1>7, CallStep
<1>8. CASE UNCHANGED vars
  BY <1>8 DEF vars, testVars, HarnessInv, Recorded, Places, Executed, Focused, Returned, Test, Judged
<1> QED  BY <1>2, <1>3, <1>4, <1>5, <1>6, <1>7, <1>8 DEF Next

\* DefaultIsRight: for every suite whose expectations the harness can judge, every
\* reconciler and any number of calls, the verdict of the suite (AssertExpectations and
\* compareActions, config.go:160-391, and the Run methods) is the truth about what was
\* done through the default config, and returned.
THEOREM SuitesTellTheTruth == Spec => []DefaultIsRight
<1>1. Init => HarnessInv
  <2> SUFFICES ASSUME Init PROVE HarnessInv  OBVIOUS
  <2>1. log \in [Configs -> [Streams -> Seq(Calls)]]  BY DEF Init, Blank
  <2>2. ASSUME NEW s \in Streams PROVE Yields(made, Places("default", s), log["default"][s])
    <3>1. Places("default", s) = {} /\ made = <<>>  BY DEF Init, Places
    <3>2. log["default"][s] = <<>>  BY DEF Init, Blank, Configs
    <3> QED  BY <3>1, <3>2, YieldsNothing
  <2>3. made \in Seq(Calls)  BY DEF Init
  <2>4. Recorded  BY <2>2 DEF Recorded
  <2>5. /\ suite \in Suites /\ at \in Nat \ {0} /\ phase = "next" /\ phase \in Phases
        /\ failed = FALSE /\ right = [c \in Configs |-> TRUE] /\ "default" \in Configs
    BY DEF Init, Phases, Configs
  <2> QED  BY <2>1, <2>3, <2>4, <2>5 DEF HarnessInv
<1>2. HarnessInv /\ [Next]_vars => HarnessInv'  BY HarnessStep
<1>3. HarnessInv => DefaultIsRight
  BY DEF HarnessInv, DefaultIsRight
<1> QED  BY <1>1, <1>2, <1>3, PTL DEF Spec
=============================================================================
