------------------------------ MODULE Requests ------------------------------
(***************************************************************************)
(* The three hosts of a tree of sub reconcilers, each taking a request     *)
(* from its beginning to the answer it gives:                              *)
(*   ResourceReconciler reads a resource, runs its tree on it and writes   *)
(*   the status the tree leaves behind;                                    *)
(*   AggregateReconciler reads one resource, runs its tree, asks for the   *)
(*   desired resource and has the ResourceManager create, update or delete *)
(*   it, with the mutations it remembers of earlier updates;               *)
(*   AdmissionWebhookAdapter runs its tree on every object that is created *)
(*   or updated, and refuses or changes it.                                *)
(* One object is stored.  Of its resource versions only one thing matters: *)
(* is the stored one still the one that was read?                          *)
(***************************************************************************)
EXTENDS Flow, FiniteSets

CONSTANTS
  Configurations,  \* what an author may have set up
  Defaulted,       \* what Default() makes of an object
  NoObject         \* nil

Disturbances == {"wants", "edits", "deletes", "faults", "expiries", "restarts"}
Hosts == {"resource", "aggregate"}
Wants == Objects \cup {NoObject}

\* hook: the tree of the webhook.  skip: SkipStatusUpdate.  duck: the resource is
\* a duck type, with these fields.  given: DesiredResource is given, and returns one
\* of wants, which are new objects.  named: Request names the aggregate.  merge:
\* MergeBeforeUpdate is given.  counts: the
\* API server counts generations of that type.  budget: how often each disturbance
\* may happen (bounds the model).
Configuration == [host : Hosts, tree : Programs, hook : Programs, skip : BOOLEAN,
                  duck : BOOLEAN, fields : SUBSET Keys, given : BOOLEAN, wants : SUBSET Wants,
                  named : BOOLEAN, merge : BOOLEAN, counts : BOOLEAN, budget : [Disturbances -> Nat]]

ASSUME RequestsAssumption ==
  /\ Configurations \subseteq Configuration
  /\ \A c \in Configurations :
       /\ c.wants # {} /\ (~c.duck => c.fields = Keys)
       /\ Tree[c.tree][1].fields = c.fields /\ Tree[c.hook][1].fields = Keys
       /\ \A o \in Objects : HasType(o, c.fields) => HasType(Defaulted[o], c.fields)
  /\ NoObject \notin Objects
  /\ Defaulted \in [Objects -> Objects]

VARIABLES
  conf,     \* the configuration
  stored,   \* the object on the API server
  want,     \* what DesiredResource returns
  memo,     \* the ResourceManager's mutation cache
  env,      \* disturbances left
  queued,   \* the request is in the work queue
  phase,    \* how far the request is
  read,     \* the object as it was read; current: still the stored one
  call,     \* the write that is sent to the API server
  answer,   \* what the request returns
  said      \* the story of the host's tree (history)

requestVars == <<phase, read, call, answer, said>>
vars == <<flowVars, conf, stored, want, memo, env, queued, requestVars>>

Phases == {"new", "refused", "crashed", "idle", "run", "status", "desire", "send", "hook", "done"}
Fates == {"ok", "rejected", "lost"}
Verbs == {"none", "create", "update", "delete"}

\* held: it carries finalizers.
Stored == [there : BOOLEAN, deleting : BOOLEAN, held : BOOLEAN, body : Objects]
Read == [there : BOOLEAN, body : Objects, current : BOOLEAN]
\* goal: what was desired, before remembered mutations were applied.
Sending == [verb : Verbs, goal : Wants, body : Objects]
\* The cache holds one patch per UID: here that of the stored object, as the two
\* objects it was made from (and, as history, what was desired then).
Memo == [known : BOOLEAN, goal : Wants, base : Objects, to : Objects]

NothingRead == [there |-> FALSE, body |-> Blank, current |-> FALSE]
NoCall == [verb |-> "none", goal |-> NoObject, body |-> Blank]
NoMemo == [known |-> FALSE, goal |-> NoObject, base |-> Blank, to |-> Blank]
Gone == [there |-> FALSE, deleting |-> FALSE, held |-> FALSE, body |-> Blank]
NoStory == [asked |-> {}, raised |-> {}, caught |-> FALSE, panicked |-> FALSE,
            written |-> Blank]

RequestsTypeOK ==
  /\ FlowTypeOK
  /\ conf \in Configurations /\ want \in conf.wants
  /\ stored \in Stored /\ memo \in Memo
  /\ env \in [Disturbances -> Nat] /\ queued \in BOOLEAN
  /\ phase \in Phases /\ read \in Read /\ call \in Sending
  /\ answer \in [result : Result, err : Err] /\ said \in Story
  /\ stack # <<>> => phase \in {"run", "hook"}

Spend(kind) == env[kind] > 0 /\ env' = [env EXCEPT ![kind] = @ - 1]
Fate(o) == IF o = "ok" THEN UNCHANGED env ELSE Spend("faults")

\* Every change of the object queues its request, and ends the time in which a
\* write based on an earlier read is accepted.  A new object has a new UID.
Store(new) ==
  /\ stored' = new
  /\ memo' = IF stored.there /\ new.there THEN memo ELSE NoMemo
  /\ read' = [read EXCEPT !.current = @ /\ new = stored]
  /\ queued' = (queued \/ new # stored)

Answer(result, err) == phase' = "done" /\ answer' = [result |-> result, err |-> err]

-----------------------------------------------------------------------------
(* From the setup to the end of the tree. *)

SetupResource == SetupSucceeds(conf.tree)
SetupAggregate == conf.named /\ SetupSucceeds(conf.tree) /\ conf.merge

Setup ==
  /\ phase = "new"
  /\ phase' = IF IF conf.host = "resource" THEN SetupResource ELSE SetupAggregate
                THEN "idle" ELSE "refused"
  /\ UNCHANGED <<flowVars, conf, stored, want, memo, env, queued, read, call, answer, said>>

\* Nothing to do for a resource that is terminating, unless the host is a
\* ResourceReconciler and finalizers are left; nor for one that is gone, unless
\* the host is an AggregateReconciler.
NothingToDo ==
  IF conf.host = "resource" THEN ~stored.there \/ (stored.deleting /\ ~stored.held)
                            ELSE stored.there /\ stored.deleting

Begin(o) ==
  /\ phase = "idle" /\ queued
  /\ o \in {"ok", "rejected"} /\ Fate(o)
  /\ queued' = FALSE
  /\ IF o = "rejected" \/ NothingToDo
       THEN /\ Answer(NoResult, IF o = "ok" THEN {} ELSE {"fail"})
            /\ UNCHANGED <<flowVars, read>>
       ELSE /\ phase' = "run"
            /\ read' = [there |-> stored.there, body |-> Seen(conf.fields, stored.body),
                        current |-> TRUE]
            /\ StartFlow(conf.tree,
                         IF conf.host = "resource" THEN Defaulted[read'.body] ELSE read'.body,
                         stored.deleting)
            /\ UNCHANGED answer
  /\ UNCHANGED <<conf, stored, want, memo, call, said>>

Step ==
  /\ phase \in {"run", "hook"} /\ FlowStep
  /\ UNCHANGED <<conf, stored, want, memo, env, queued, requestVars>>

\* ErrHaltSubReconcilers is no error.  The status is written, error or not, if it
\* changed.
EndResource ==
  LET err == IF "halt" \in ret.err THEN {} ELSE ret.err
      result == IF err = {} THEN ret.result ELSE NoResult
  IN  IF ~conf.skip /\ ~deleting /\ res # read.body
        THEN phase' = "status" /\ answer' = [result |-> result, err |-> err]
        ELSE Answer(result, err)

EndAggregate ==
  IF ret.err # {} /\ "halt" \notin ret.err
    THEN Answer(ret.result, ret.err)
    ELSE phase' = "desire" /\ answer' = [result |-> ret.result, err |-> {}]

EndTree ==
  /\ phase = "run" /\ stack = <<>>
  /\ said' = story
  /\ IF story.panicked THEN phase' = "crashed" /\ UNCHANGED answer
     ELSE IF conf.host = "resource" THEN EndResource ELSE EndAggregate
  /\ UNCHANGED <<flowVars, conf, stored, want, memo, env, queued, read, call>>

-----------------------------------------------------------------------------
(* ResourceReconciler: the status. *)

\* The client of a duck type does not support creates and updates.
Serves(verb) == conf.duck => verb \notin {"create", "update"}
StatusVerb == IF conf.duck THEN "patch" ELSE "update"

\* An update replaces the status and carries the resource version that was read.
\* A patch of a duck type carries none, and only what the request changed.
Merged_Whole == res
Merged == IF StatusVerb = "patch" THEN Applied(read.body, res, stored.body) ELSE res

WriteStatus(o) ==
  LET accepted == stored.there /\ Serves(StatusVerb) /\ (StatusVerb = "patch" \/ read.current)
  IN  /\ phase = "status"
      /\ Fate(o)
      /\ IF o # "rejected" /\ accepted
           THEN Store([stored EXCEPT !.body = Merged])
           ELSE UNCHANGED <<stored, memo, read, queued>>
      /\ IF o = "ok" /\ accepted
           THEN phase' = "done" /\ UNCHANGED answer
           ELSE Answer(NoResult, {"fail"})
      /\ UNCHANGED <<flowVars, conf, want, call, said>>

-----------------------------------------------------------------------------
(* AggregateReconciler and ResourceManager: the desired resource. *)

\* Patch.Apply: additions always fit; to replace or remove a field it must be set.
\* A patch of a stored object of a type with generations does not fit a new one.
Fits(obj) ==
  /\ memo.known /\ ~conf.counts
  /\ \A k \in Keys : memo.base[k] \notin {memo.to[k], Unset} => obj[k] # Unset

Patched_Whole(obj) == IF Fits(obj) THEN memo.to ELSE obj
Patched(obj) == IF Fits(obj) THEN Applied(memo.base, memo.to, obj) ELSE obj

\* Without DesiredResource the resource as the tree left it is desired.
Goal == IF conf.given THEN want ELSE res

\* What was read and then handed to the tree is also taken for the actual state.
InSync == Goal # NoObject /\ read.there /\ Patched(Goal) = res

NextCall_NilCreated ==
  CASE Goal = NoObject /\ read.there -> "delete"
    [] InSync -> "none"
    [] OTHER -> IF read.there THEN "update" ELSE "create"
NextCall ==
  CASE Goal = NoObject -> IF read.there THEN "delete" ELSE "none"
    [] InSync -> "none"
    [] OTHER -> IF read.there THEN "update" ELSE "create"

Desire(o) ==
  /\ phase = "desire"
  /\ o \in {"ok", "rejected"} /\ Fate(o)
  /\ IF o = "rejected" THEN Answer(NoResult, {"fail"}) /\ UNCHANGED call
     ELSE IF NextCall = "none" THEN Answer(answer.result, {}) /\ UNCHANGED call
     ELSE /\ phase' = "send" /\ UNCHANGED answer
          /\ call' = [verb |-> NextCall, goal |-> Goal,
                      body |-> CASE NextCall = "delete" -> Blank
                                 [] NextCall = "create" -> Goal
                                 [] NextCall = "update" -> Patched(Goal)]
  /\ UNCHANGED <<flowVars, conf, stored, want, memo, queued, read, said>>

\* A delete goes by name.
SendDelete(o) ==
  /\ phase = "send" /\ call.verb = "delete"
  /\ Fate(o)
  /\ IF o # "rejected" /\ stored.there
       THEN Store(IF stored.held THEN [stored EXCEPT !.deleting = TRUE] ELSE Gone)
       ELSE UNCHANGED <<stored, memo, read, queued>>
  /\ IF o = "ok" /\ stored.there THEN Answer(answer.result, {}) ELSE Answer(NoResult, {"fail"})
  /\ UNCHANGED <<flowVars, conf, want, call, said>>

Unsupported ==
  /\ phase = "send" /\ ~Serves(call.verb)
  /\ Answer(NoResult, {"fail"})
  /\ UNCHANGED <<flowVars, conf, stored, want, memo, env, queued, read, call, said>>

\* The API server passes the object on to the webhook.
Send ==
  /\ phase = "send" /\ call.verb # "delete" /\ Serves(call.verb)
  /\ phase' = "hook"
  /\ StartFlow(conf.hook, Defaulted[call.body], FALSE)
  /\ UNCHANGED <<conf, stored, want, memo, env, queued, read, call, answer, said>>

\* AdmissionWebhookAdapter: any error refuses the object, ErrHaltSubReconcilers as
\* well.  Defaults reach the object only along with a change of the tree's own.
Mutated(obj, left) == IF left = Defaulted[obj] THEN obj ELSE left
Admits == ret.err = {} /\ ~story.panicked
Admitted == Mutated(call.body, res)

\* What the ResourceManager remembers of an update: from what was desired to what
\* it became.
Capture_Sent == [known |-> TRUE, goal |-> call.goal, base |-> call.body, to |-> Admitted]
Capture == [known |-> TRUE, goal |-> call.goal, base |-> call.goal, to |-> Admitted]

Write(o) ==
  LET accepted == Admits /\ IF call.verb = "create" THEN ~stored.there
                            ELSE stored.there /\ read.current
      new == IF call.verb = "create"
               THEN [there |-> TRUE, deleting |-> FALSE, held |-> FALSE, body |-> Admitted]
               ELSE [stored EXCEPT !.body = Admitted]
  IN  /\ phase = "hook" /\ stack = <<>>
      /\ Fate(o)
      /\ IF o # "rejected" /\ accepted
           THEN /\ stored' = new
                /\ read' = [read EXCEPT !.current = @ /\ new = stored]
                /\ queued' = (queued \/ new # stored)
                /\ memo' = IF o = "ok" /\ call.verb = "update" THEN Capture ELSE memo
           ELSE UNCHANGED <<stored, memo, read, queued>>
      /\ IF o = "ok" /\ accepted THEN Answer(answer.result, {}) ELSE Answer(NoResult, {"fail"})
      /\ UNCHANGED <<flowVars, conf, want, call, said>>

\* The work queue takes the request back on an error or when asked to.
Requeued_OnRequest == answer.result # NoResult
Requeued == answer.err # {} \/ answer.result # NoResult

\* Nothing of a request survives it, or the process.
Blanked ==
  /\ stack' = <<>> /\ ret' = Nothing /\ res' = Blank /\ story' = NoStory /\ deleting' = FALSE
  /\ prog' = conf.tree
  /\ read' = NothingRead /\ call' = NoCall /\ answer' = Nothing /\ said' = NoStory

Forget ==
  /\ phase = "done" /\ phase' = "idle"
  /\ queued' = (queued \/ Requeued)
  /\ Blanked
  /\ UNCHANGED <<conf, stored, want, memo, env>>

-----------------------------------------------------------------------------
(* Everybody else. *)

Served == phase \notin {"new", "refused", "crashed"}

\* What DesiredResource depends on changes, and is watched (Setup).
ChangeWant ==
  /\ Served /\ Spend("wants")
  /\ want' \in conf.wants \ {want}
  /\ queued' = TRUE
  /\ UNCHANGED <<flowVars, conf, stored, memo, requestVars>>

\* Another client edits the object; the webhook, if it is one SyncReconciler, makes
\* of it what it makes of all.
AdmissionBy(hook, obj) ==
  {Mutated(obj, o.obj) : o \in {p \in Tree[hook][1].does[Defaulted[obj]] : p.err = {}}}
Admission(obj) == AdmissionBy(conf.hook, obj)

Edit ==
  /\ Served /\ stored.there /\ Spend("edits")
  /\ \E obj \in Objects :
       \E body \in IF conf.host = "resource" THEN {obj} ELSE Admission(obj) :
         body # stored.body /\ Store([stored EXCEPT !.body = body])
  /\ UNCHANGED <<flowVars, conf, want, phase, call, answer, said>>

\* Somebody deletes it; what has no finalizers may be seen terminating for a while.
Delete ==
  /\ Served /\ stored.there /\ ~stored.deleting /\ Spend("deletes")
  /\ Store([stored EXCEPT !.deleting = TRUE])
  /\ UNCHANGED <<flowVars, conf, want, phase, call, answer, said>>

Release ==
  /\ stored.deleting /\ stored.held
  /\ Store([stored EXCEPT !.held = FALSE])
  /\ UNCHANGED <<flowVars, conf, want, env, phase, call, answer, said>>

Vanish ==
  /\ stored.deleting /\ ~stored.held
  /\ Store(Gone)
  /\ UNCHANGED <<flowVars, conf, want, env, phase, call, answer, said>>

\* The mutation cache forgets after an hour, and with the process.
Expire ==
  /\ memo.known /\ Spend("expiries") /\ memo' = NoMemo
  /\ UNCHANGED <<flowVars, conf, stored, want, queued, requestVars>>

Restart ==
  /\ Served /\ Spend("restarts")
  /\ memo' = NoMemo /\ queued' = TRUE /\ phase' = "idle"
  /\ Blanked
  /\ UNCHANGED <<conf, stored, want>>

Init ==
  /\ conf \in Configurations
  /\ want \in conf.wants
  /\ stored \in {Gone} \cup [there : {TRUE}, deleting : {FALSE}, held : BOOLEAN, body : {Blank}]
  /\ conf.host = "resource" => stored.there
  /\ memo = NoMemo /\ env = conf.budget /\ queued = TRUE /\ phase = "new"
  /\ read = NothingRead /\ call = NoCall /\ answer = Nothing /\ said = NoStory
  /\ prog = conf.tree /\ deleting = FALSE /\ stack = <<>> /\ ret = Nothing
  /\ res = Blank /\ story = NoStory

Worker ==
  \/ Setup \/ Step \/ EndTree \/ Unsupported \/ Send \/ Forget
  \/ \E o \in Fates : Begin(o) \/ WriteStatus(o) \/ Desire(o) \/ SendDelete(o) \/ Write(o)

Others == ChangeWant \/ Edit \/ Delete \/ Release \/ Vanish \/ Expire \/ Restart

Next == Worker \/ Others

Spec == Init /\ [][Next]_vars

\* The work queue keeps serving, and terminating objects go away.
FairSpec == Spec /\ WF_vars(Worker) /\ WF_vars(Release) /\ WF_vars(Vanish)

-----------------------------------------------------------------------------
(* Properties *)

\* When nothing went wrong the work queue is told the shortest requeue time that
\* any sub reconciler asked for (AggregateResults, through all combinators).
RequeueKept ==
  phase = "done" /\ answer.err = {} /\ said.raised = {} /\ ~said.caught =>
    LET times == {r.after : r \in said.asked} \ {0}
    IN  /\ answer.result.requeue = (\E r \in said.asked : r.requeue)
        /\ IF times = {} THEN answer.result.after = 0
           ELSE answer.result.after \in times /\ \A t \in times : answer.result.after <= t

\* An error cannot get lost on its way up, unless a Catch suppresses it or
\* ErrHaltSubReconcilers is about, which counts as success.
FailuresSurface ==
  phase = "done" /\ said.raised # {} /\ "halt" \notin said.raised /\ ~said.caught =>
    answer.err # {}

\* CastResource is there "to create cross cutting reconcilers that can operate on
\* common portion of multiple resources": a cast does not add fields.
CastsNarrow ==
  \A p \in Programs : \A n \in DOMAIN Tree[p] : LET node == Tree[p][n] IN
    node.kind = "cast" /\ node.subs[1] # 0 => Tree[p][node.subs[1]].fields \subseteq node.fields

\* What a sub reconciler below a CastResource changes reaches the resource, also
\* when it returns an error, unless the patch itself fails.
ChangesKept ==
  conf.host = "resource" /\ phase \in {"status", "done"} /\ "patch" \notin said.raised =>
    res = said.written

\* What the author has to see to: a SyncReconciler without a Setup hook has a
\* Sync, and what an OverrideSetup hides from the setup is complete.
AuthorsPart(p) ==
  /\ \A n \in DOMAIN Tree[p] : Tree[p][n].kind = "sync" /\ ~Tree[p][n].hook =>
       \A obj \in Objects : Tree[p][n].does[obj] # {}
  /\ (\E n \in DOMAIN Tree[p] : Tree[p][n].kind = "override") =>
       \A n \in DOMAIN Tree[p] : SetupNode(Tree[p][n]).valid

\* A manager that could be set up does not die of a nil sub reconciler later.
NeverPanics == phase = "crashed" => ~AuthorsPart(conf.tree)

\* "Finally is always called before returning": whatever Try and Catch return, at
\* any depth.
FinallyCalled ==
  [][\A i \in DOMAIN stack :
       LET node == Tree[prog][stack[i].node]
       IN  node.kind = "trycatch" /\ node.subs[2] # 0 /\ stack[i].at # 2 =>
             \/ i \in DOMAIN stack' /\ stack'[i].node = stack[i].node
             \/ story'.panicked
             \/ phase' = "idle"]_vars

\* Writing the status never undoes what another client wrote to a field the
\* request did not touch, with or without a resource version.
OthersKept ==
  [][phase = "status" /\ phase' = "done" =>
       \A k \in Keys : stored'.body[k] # stored.body[k] => res[k] # read.body[k]]_vars

\* Every request comes to an end: the loops do (MaxIterations).
RequestEnds == phase \in {"run", "hook"} ~> phase \notin {"run", "hook"}

-----------------------------------------------------------------------------
(* Webhooks that the mutation cache is made for.  The theorems about it are of these. *)

Same(a, b, own) == \A k \in Keys \ own : a[k] = b[k]

\* The fields a webhook sets are its own: of what is desired it changes no other, and
\* what it sets depends on the others only.  Host and author see all the others.
OwnFields(c, own) ==
  /\ Keys \ own \subseteq c.fields
  /\ \A w \in c.wants \ {NoObject} : \A obj \in Objects :
       Same(obj, w, own) => \A a \in AdmissionBy(c.hook, obj) : Same(a, obj, own)
  /\ \A w \in c.wants \ {NoObject} :
       \A a \in {Blank} \cup UNION {AdmissionBy(c.hook, obj) : obj \in Objects} :
         Same(a, w, own) => AdmissionBy(c.hook, w) = {a}

\* It is one SyncReconciler (which is what Admission is about).
OneSync(p) == Len(Tree[p]) = 1 /\ Tree[p][1].kind = "sync"

Polite(c) == OneSync(c.hook) /\ \E own \in SUBSET Keys : OwnFields(c, own)

\* The functions of a tree leave the resource as it is (and the failure to patch it to
\* CastResource).
OnlyLooks(p) ==
  \A n \in DOMAIN Tree[p] : \A obj \in Objects :
    \A o \in Tree[p][n].does[obj] \cup Tree[p][n].ends[obj] : o.obj = obj /\ "patch" \notin o.err

Desiring(c) == c.host = "aggregate" /\ c.given

AllPolite == \A c \in Configurations : Desiring(c) => Polite(c)
AllLook == \A c \in Configurations : Desiring(c) => OnlyLooks(c.tree)

-----------------------------------------------------------------------------

\* An update is skipped only if it would have no effect: admission would make of
\* what is desired what is stored already.  (The mutation cache)
SkipIsHarmless ==
  [][phase = "desire" /\ phase' = "done" /\ answer'.err = {} /\ conf.given =>
       Goal = NoObject \/ res \in {Seen(conf.fields, o) : o \in Admission(Goal)}]_vars

\* An update without effect happens once for what is desired, and not again
\* before the cache forgets.  Not so for types with generations.
IdleOnce ==
  [][phase = "desire" /\ phase' = "send" /\ memo.known /\ memo.goal = Goal /\ ~conf.counts =>
       res \notin {Seen(conf.fields, o) : o \in Admission(Goal)}]_vars

\* No author's function fails.
Calm(p) == \A n \in DOMAIN Tree[p] : \A obj \in Objects :
  \A o \in Tree[p][n].does[obj] \cup Tree[p][n].ends[obj] : o.err \subseteq {"halt"}

\* The aggregate becomes, and stays, what is desired, after failed calls, edits by
\* others, restarts and deletions.  Not so for duck types, which the setup accepts.
DesiredReached ==
  <>[](phase # "refused" /\ conf.host = "aggregate" /\ conf.given /\ ~conf.duck
         /\ Calm(conf.tree) /\ Calm(conf.hook) =>
         IF want = NoObject THEN ~stored.there
                            ELSE stored.there /\ stored.body \in Admission(want))

=============================================================================
