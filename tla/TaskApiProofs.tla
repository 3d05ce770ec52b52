----------------------------- MODULE TaskApiProofs -----------------------------
(***************************************************************************)
(* Proofs about TaskApi, for every set of skills and inputs, any roots and *)
(* whatever the disk holds and does during a call: what the runtime is     *)
(* given, what a resolution returns, and which roots an error names.       *)
(***************************************************************************)
EXTENDS TaskApi, FiniteSetTheorems, SequenceTheorems, TLAPS

\* A table of skills has each copy under its own name.
Named(t) ==
    /\ t = [n \in Skill |-> t[n]]
    /\ \A n \in Skill : t[n] # None => t[n].name = n

OnePerName == \A c, d \in skills : c.name = d.name => c = d

\* What is resolved is fit, and without errors it is all that is allowed.
ResolvedInv ==
    pc = "resolved" /\ Scoped =>
        /\ \A c \in skills : c.ready /\ c.name \in allow
        /\ \A p, q \in errors : p.code = q.code
        /\ errors = NoErrors => Called(skills) = allow

FitInv ==
    /\ Named(table) /\ Named(config)
    /\ allow \subseteq Skill
    /\ pc \in {"resolved", "running"} => OnePerName
    /\ ResolvedInv
    /\ NothingUnfitRuns

\* The copies of a table have different names.
LEMMA CopiesAreNamed ==
    ASSUME NEW t, Named(t)
    PROVE  /\ \A c \in CopiesIn(t) : c.name \in Skill /\ c = t[c.name]
           /\ \A c, d \in CopiesIn(t) : c.name = d.name => c = d
BY DEF Named, CopiesIn

\* A skill entered in a table stands under its own name.
LEMMA EnterKeepsNames ==
    ASSUME Named(table), NEW c, Enter(c)
    PROVE  Named(table')
<1> DEFINE new == [table EXCEPT ![c.name] = CopyOf(root, c)]
<1>1. table' = new
  BY DEF Enter
<1>2. \A n \in Skill : new[n] = IF n = c.name THEN CopyOf(root, c) ELSE table[n]
  BY DEF Named
<1>3. CopyOf(root, c).name = c.name
  BY DEF CopyOf
<1>4. new = [n \in Skill |-> new[n]]
  BY DEF Named
<1> QED
  BY <1>1, <1>2, <1>3, <1>4 DEF Named

LEMMA MergeKeepsNames ==
    ASSUME NEW c, NEW r, Named(c), Named(r)
    PROVE  Named(Merge(c, r))
BY DEF Named, Merge

LEMMA EmptyIsNamed == Named(Empty)
BY DEF Named, Empty

\* The judgement over the merged skills.
LEMMA JudgedRight ==
    ASSUME NEW t, Named(t), allow \subseteq Skill
    PROVE  /\ \A c \in Fit(CopiesIn(t)) : c.ready /\ c.name \in allow
           /\ \A p, q \in ScopeErrors(t) : p.code = q.code
           /\ ScopeErrors(t) = NoErrors => Called(Fit(CopiesIn(t))) = allow
<1>1. \A c \in Fit(CopiesIn(t)) : c.ready /\ c.name \in allow
  BY DEF Fit, Allowed
<1>2. \A p, q \in ScopeErrors(t) : p.code = q.code
  BY DEF ScopeErrors, Problem
<1>3. ASSUME ScopeErrors(t) = NoErrors
      PROVE  Called(Fit(CopiesIn(t))) = allow
  <2> DEFINE absent == { n \in allow : t[n] = None }
             unready == { n \in allow \ absent : ~t[n].ready }
  <2>1. absent = {}
    BY <1>3 DEF ScopeErrors, NoErrors
  <2>2. unready = {}
    BY <1>3, <2>1 DEF ScopeErrors, NoErrors
  <2>3. \A n \in allow : t[n] \in Fit(CopiesIn(t)) /\ t[n].name = n
    BY <2>1, <2>2 DEF Fit, Allowed, CopiesIn, Named
  <2> QED
    BY <1>1, <2>3 DEF Called
<1> QED
  BY <1>1, <1>2, <1>3

LEMMA FitInit == Init => FitInv
<1> SUFFICES ASSUME Init PROVE FitInv
  OBVIOUS
<1>1. allow \subseteq Skill
  BY DEF Init, EffectiveAllowlist
<1> QED
  BY <1>1, EmptyIsNamed DEF Init, FitInv, ResolvedInv, NothingUnfitRuns, OnePerName

\* A step that changes neither what is resolved nor where the call stands.
LEMMA FitUntouched ==
    ASSUME FitInv, UNCHANGED <<pc, allow, table, config, skills, errors, kind, listed,
                               target, inputs>>
    PROVE  FitInv'
BY DEF FitInv, ResolvedInv, NothingUnfitRuns, OnePerName, Named, Scoped, Called

\* A step to a place where nothing is resolved.
LEMMA FitOnTheWay ==
    ASSUME FitInv, pc' \notin {"resolved", "running"}, UNCHANGED allow,
           Named(table'), Named(config')
    PROVE  FitInv'
BY DEF FitInv, ResolvedInv, NothingUnfitRuns

LEMMA FitLoad ==
    ASSUME FitInv, LoadStep, UNCHANGED <<allow, kind, listed, target, inputs>>
    PROVE  FitInv'
<1>1. CASE OpenRoot
  BY <1>1, FitUntouched DEF OpenRoot, scopeVars
<1>2. CASE VisitEntry
  <2> DEFINE c == Content(root, Head(listing))
  <2>1. Named(table')
    <3>1. CASE Enter(c)
      BY <3>1, EnterKeepsNames DEF FitInv
    <3>2. CASE UNCHANGED table
      BY <3>2 DEF FitInv, Named
    <3> QED
      BY <1>2, <3>1, <3>2 DEF VisitEntry
  <2>2. pc' \notin {"resolved", "running"}
    BY <1>2 DEF VisitEntry, Loading
  <2>3. Named(config')
    BY <1>2 DEF VisitEntry, scopeVars, FitInv, Named
  <2> QED
    BY <2>1, <2>2, <2>3, FitOnTheWay
<1>3. CASE ParseEntry
  <2> DEFINE c == Content(root, Head(listing))
  <2>1. Named(table')
    <3>1. CASE Enter(c)
      BY <3>1, EnterKeepsNames DEF FitInv
    <3>2. CASE UNCHANGED table
      BY <3>2 DEF FitInv, Named
    <3> QED
      BY <1>3, <3>1, <3>2 DEF ParseEntry
  <2>2. pc' \notin {"resolved", "running"}
    BY <1>3 DEF ParseEntry, Loading
  <2>3. Named(config')
    BY <1>3 DEF ParseEntry, FitInv, Named
  <2> QED
    BY <2>1, <2>2, <2>3, FitOnTheWay
<1> QED
  BY <1>1, <1>2, <1>3 DEF LoadStep

LEMMA FitResolve ==
    ASSUME FitInv, ResolveStep, UNCHANGED <<allow, kind, listed, target, inputs>>
    PROVE  FitInv'
<1>1. CASE ConfigLoaded
  <2>1. Named(table') /\ Named(config')
    BY <1>1, EmptyIsNamed DEF ConfigLoaded, BeginLoad, FitInv, Named
  <2>2. pc' \notin {"resolved", "running"}
    BY <1>1 DEF ConfigLoaded
  <2> QED
    BY <2>1, <2>2, FitOnTheWay
<1>2. CASE StatRoot
  BY <1>2, FitUntouched DEF StatRoot, loadVars
<1>3. CASE RootsChecked
  <2>1. CASE missing # {}
    <3>1. Named(table') /\ Named(config')
      BY <1>3, <2>1 DEF RootsChecked, loadVars, FitInv, Named
    <3>2. /\ pc' = "resolved" /\ skills' = Fit(CopiesIn(config))
          /\ errors' = {Problem("SKILL_ROOT_MISSING", missing)}
      BY <1>3, <2>1 DEF RootsChecked
    <3>3. OnePerName'
      BY <3>2, CopiesAreNamed DEF FitInv, OnePerName, Fit, Allowed
    <3>4. ResolvedInv'
      BY <3>2 DEF ResolvedInv, Fit, Allowed, NoErrors, Scoped
    <3> QED
      BY <3>1, <3>2, <3>3, <3>4 DEF FitInv, NothingUnfitRuns
  <2>2. CASE missing = {}
    <3>1. Named(table') /\ Named(config')
      BY <1>3, <2>2, EmptyIsNamed DEF RootsChecked, BeginLoad, FitInv, Named
    <3>2. pc' = "request"
      BY <1>3, <2>2 DEF RootsChecked
    <3> QED
      BY <3>1, <3>2, FitOnTheWay
  <2> QED
    BY <2>1, <2>2
<1>4. CASE RequestLoaded
  <2> DEFINE merged == Merge(config, table)
  <2>1. Named(table') /\ Named(config')
    BY <1>4 DEF RequestLoaded, loadVars, FitInv, Named
  <2>2. Named(merged)
    BY MergeKeepsNames DEF FitInv
  <2>3. /\ pc' = "resolved"
        /\ skills' = IF Scoped THEN Fit(CopiesIn(merged)) ELSE CopiesIn(merged)
        /\ Scoped => errors' = ScopeErrors(merged)
    BY <1>4 DEF RequestLoaded
  <2>4. OnePerName'
    BY <2>2, <2>3, CopiesAreNamed DEF OnePerName, Fit, Allowed
  <2>5. ResolvedInv'
    <3>1. SUFFICES ASSUME Scoped
                   PROVE  /\ \A c \in skills' : c.ready /\ c.name \in allow
                          /\ \A p, q \in errors' : p.code = q.code
                          /\ errors' = NoErrors => Called(skills') = allow
      BY DEF ResolvedInv, Scoped, NoErrors, Called
    <3> QED
      BY <2>2, <2>3, <3>1, JudgedRight DEF FitInv
  <2> QED
    BY <2>1, <2>3, <2>4, <2>5 DEF FitInv, NothingUnfitRuns
<1> QED
  BY <1>1, <1>2, <1>3, <1>4 DEF ResolveStep

LEMMA FitRunTask ==
    ASSUME FitInv, RunTask, UNCHANGED <<allow, kind, listed, target>>
    PROVE  FitInv'
<1>1. Named(table') /\ Named(config')
  BY DEF RunTask, loadVars, FitInv, Named
<1>2. CASE errors # NoErrors
  BY <1>1, <1>2, FitOnTheWay DEF RunTask, Fail
<1>3. CASE errors = NoErrors
  <2>1. OnePerName' /\ ResolvedInv' /\ (allow \subseteq Skill)'
    BY <1>3 DEF RunTask, FitInv, OnePerName, ResolvedInv
  <2>2. NothingUnfitRuns'
    BY <1>3 DEF RunTask, FitInv, OnePerName, ResolvedInv, NothingUnfitRuns, Scoped, Called
  <2> QED
    BY <1>1, <2>1, <2>2 DEF FitInv
<1> QED
  BY <1>2, <1>3

\* An action whose checks find nothing has its target and its inputs.
LEMMA ChecksAreComplete ==
    ASSUME NEW given, ActionErrors(given) = NoErrors
    PROVE  /\ listed => target \in allow
           /\ \E c \in skills : c.name = target /\ c.acts
           /\ \A i \in Required : [name |-> i, by |-> "caller"] \in ResolvedInputs(given)
           /\ \A i \in ResolvedInputs(given) : i.name \in Declared
<1>1. TargetAllowed /\ Target # {} /\ ~(\A c \in Target : ~c.acts)
  BY DEF ActionErrors, NoErrors
<1>2. Required \subseteq given /\ given \subseteq Declared
  <2>1. { Problem("MISSING_REQUIRED_INPUT", i) : i \in Required \ given } = {}
        /\ { Problem("UNKNOWN_INPUT", i) : i \in given \ Declared } = {}
    BY <1>1 DEF ActionErrors, NoErrors
  <2> QED
    BY <2>1
<1> QED
  BY <1>1, <1>2, InputsAreDeclared DEF TargetAllowed, Target, ResolvedInputs

LEMMA FitRunAction ==
    ASSUME FitInv, RunAction, UNCHANGED <<allow, kind, listed, target>>
    PROVE  FitInv'
<1>1. Named(table') /\ Named(config')
  BY DEF RunAction, loadVars, FitInv, Named
<1>2. CASE pc' = "failed"
  BY <1>1, <1>2, FitOnTheWay
<1>3. CASE pc' # "failed"
  <2>1. /\ errors = NoErrors /\ ActionErrors(supplied') = NoErrors
        /\ pc = "resolved" /\ pc' = "running" /\ inputs' = ResolvedInputs(supplied')
        /\ skills' = skills
    BY <1>3 DEF RunAction, Fail
  <2>2. OnePerName' /\ ResolvedInv' /\ (allow \subseteq Skill)'
    BY <2>1 DEF FitInv, OnePerName, ResolvedInv
  <2>3. NothingUnfitRuns'
    BY <2>1, ChecksAreComplete
    DEF FitInv, OnePerName, ResolvedInv, NothingUnfitRuns, Scoped, Called
  <2> QED
    BY <1>1, <2>2, <2>3 DEF FitInv
<1> QED
  BY <1>2, <1>3

LEMMA FitNext == FitInv /\ [Next]_vars => FitInv'
<1> SUFFICES ASSUME FitInv, [Next]_vars PROVE FitInv'
  OBVIOUS
<1>1. CASE CallStep
  <2>1. CASE Start
    <3>1. Named(table') /\ Named(config')
      BY <2>1, EmptyIsNamed DEF Start, BeginLoad, loadVars, FitInv, Named
    <3> QED
      BY <1>1, <2>1, <3>1, FitOnTheWay DEF CallStep, Start, Fail
  <2>2. CASE Resolve
    BY <1>1, <2>2, FitLoad, FitResolve DEF CallStep, Resolve
  <2>3. CASE RunTask
    BY <1>1, <2>3, FitRunTask DEF CallStep
  <2>4. CASE RunAction
    BY <1>1, <2>4, FitRunAction DEF CallStep
  <2> QED
    BY <1>1, <2>1, <2>2, <2>3, <2>4 DEF CallStep
<1>2. CASE DiskStep
  BY <1>2, FitUntouched DEF DiskStep, loadVars, scopeVars, callVars
<1>3. CASE UNCHANGED vars
  BY <1>3, FitUntouched DEF vars, loadVars, scopeVars, callVars
<1> QED
  BY <1>1, <1>2, <1>3 DEF Next

LEMMA FitAlways == Spec => []FitInv
BY FitInit, FitNext, PTL DEF Spec

\* Whatever the disk holds and does, a runtime is given what its request
\* allows: skills that are found and ready, the target and the inputs of an
\* action (src/task/execute.ts:198-224, src/task/action.ts:219-390).
THEOREM NothingUnfitIsRun == Spec => []NothingUnfitRuns
BY FitAlways, PTL DEF FitInv

\* A scoped resolution returns allowed and ready skills only, and errors of
\* one class (src/skills/resolve.ts:121-128).
THEOREM ScopeIsHeld == Spec => []ScopeHoldsOnEveryPath
<1>1. FitInv => ScopeHoldsOnEveryPath
  BY DEF FitInv, ResolvedInv, ScopeHoldsOnEveryPath
<1> QED
  BY <1>1, FitAlways, PTL

-----------------------------------------------------------------------------
(* The roots an error names.                                               *)

InQueue == RootsOf(queue)

\* How far the check of the roots is.
CheckedInv ==
    /\ pc \in {"new", "config", "roots", "request"} => errors = NoErrors
    /\ pc = "roots" => SteadilyMissing \subseteq missing \cup InQueue
    /\ pc = "request" /\ Scoped => SteadilyMissing = {}
    /\ pc \in {"resolved", "running", "failed"} /\ Scoped =>
          \/ /\ errors = {Problem("SKILL_ROOT_MISSING", missing)}
             /\ SteadilyMissing \subseteq missing /\ pc # "running"
          \/ SteadilyMissing = {} /\ \A p \in errors : p.code # "SKILL_ROOT_MISSING"
          \/ errors = {Problem("EXCEPTION", None)} /\ pc = "failed"

RootInv ==
    /\ pc \in {"new", "config", "roots", "request", "resolved", "running", "failed"}
    /\ queue \in Seq(Roots)
    /\ roots0 \ toggled \subseteq gone /\ gone \subseteq roots0 \cup toggled
    /\ missing \subseteq roots0 \cup toggled
    /\ CheckedInv

\* The next root is taken from the front of the queue.
LEMMA QueueShrinks ==
    ASSUME queue \in Seq(Roots), queue # <<>>
    PROVE  /\ Tail(queue) \in Seq(Roots) /\ Head(queue) \in Roots
           /\ RootsOf(queue) = {Head(queue)} \cup RootsOf(Tail(queue))
<1> DEFINE q == queue
<1>1. Tail(q) \in Seq(Roots) /\ Head(q) \in Roots /\ Head(q) = q[1]
  OBVIOUS
<1>2. Len(q) \in Nat /\ Len(q) >= 1 /\ DOMAIN q = 1..Len(q)
  OBVIOUS
<1>3. DOMAIN Tail(q) = 1..(Len(q) - 1) /\ \A i \in DOMAIN Tail(q) : Tail(q)[i] = q[i + 1]
  <2>1. Len(Tail(q)) = Len(q) - 1 /\ \A i \in 1..Len(Tail(q)) : Tail(q)[i] = q[i + 1]
    BY HeadTailProperties
  <2>2. DOMAIN Tail(q) = 1..Len(Tail(q))
    BY <1>1
  <2> QED
    BY <2>1, <2>2
<1>4. \A i \in DOMAIN q : i # 1 => i - 1 \in DOMAIN Tail(q) /\ Tail(q)[i - 1] = q[i]
  BY <1>2, <1>3
<1>5. \A i \in DOMAIN Tail(q) : i + 1 \in DOMAIN q
  BY <1>2, <1>3
<1>6. RootsOf(q) \subseteq {Head(q)} \cup RootsOf(Tail(q))
  BY <1>1, <1>4 DEF RootsOf
<1>7. {Head(q)} \cup RootsOf(Tail(q)) \subseteq RootsOf(q)
  BY <1>1, <1>2, <1>3, <1>5 DEF RootsOf
<1> QED
  BY <1>1, <1>6, <1>7

LEMMA RootInit == Init => RootInv
BY DEF Init, RootInv, CheckedInv

\* A step of the loader, within its place or to an exception.
LEMMA RootLoad ==
    ASSUME RootInv, LoadStep, UNCHANGED <<gone, roots0, toggled, allow>>
    PROVE  RootInv'
<1>1. queue' \in Seq(Roots)
  BY QueueShrinks DEF RootInv, LoadStep, OpenRoot, VisitEntry, ParseEntry
<1>2. pc \in {"config", "request"} /\ missing' = missing
  BY DEF LoadStep, OpenRoot, VisitEntry, ParseEntry, Loading, scopeVars
<1>3. \/ pc' = pc /\ errors' = errors
      \/ pc' = "failed" /\ errors' = {Problem("EXCEPTION", None)}
  BY DEF LoadStep, OpenRoot, VisitEntry, ParseEntry, scopeVars
<1> QED
  BY <1>1, <1>2, <1>3 DEF RootInv, CheckedInv, SteadilyMissing, Scoped

LEMMA RootResolve ==
    ASSUME RootInv, ResolveStep, UNCHANGED <<gone, roots0, toggled, allow>>
    PROVE  RootInv'
<1> USE DEF RootInv
<1>1. CASE ConfigLoaded
  <2>1. /\ queue' = RequestRoots /\ errors' = NoErrors /\ missing' = missing
        /\ pc' = IF Scoped THEN "roots" ELSE "request"
    BY <1>1 DEF ConfigLoaded, BeginLoad, CheckedInv
  <2>2. SteadilyMissing' \subseteq InQueue'
    BY <2>1 DEF SteadilyMissing, InQueue
  <2> QED
    BY <2>1, <2>2, RootLists DEF CheckedInv, Scoped
<1>2. CASE StatRoot
  <2>1. /\ pc = "roots" /\ pc' = pc /\ queue # <<>> /\ queue' = Tail(queue)
        /\ missing' = MissingWith(Head(queue)) /\ errors' = errors
    BY <1>2 DEF StatRoot
  <2>2. /\ queue' \in Seq(Roots)
        /\ InQueue = {Head(queue)} \cup InQueue'
    BY <2>1, QueueShrinks DEF InQueue
  <2>3. missing' \subseteq roots0 \cup toggled
    BY <2>1 DEF MissingWith
  <2>4. SteadilyMissing' \subseteq missing' \cup InQueue'
    BY <2>1, <2>2 DEF CheckedInv, SteadilyMissing, MissingWith
  <2> QED
    BY <2>1, <2>2, <2>3, <2>4 DEF CheckedInv
<1>3. CASE RootsChecked
  <2>1. pc = "roots" /\ queue = <<>> /\ missing' = missing
    BY <1>3 DEF RootsChecked
  <2>2. SteadilyMissing \subseteq missing
    BY <2>1 DEF CheckedInv, InQueue, RootsOf
  <2>3. CASE missing # {}
    <3>1. /\ pc' = "resolved" /\ queue' = queue
          /\ errors' = {Problem("SKILL_ROOT_MISSING", missing)}
      BY <1>3, <2>3 DEF RootsChecked
    <3> QED
      BY <2>1, <2>2, <3>1 DEF CheckedInv, SteadilyMissing
  <2>4. CASE missing = {}
    <3>1. /\ pc' = "request" /\ queue' = RequestRoots /\ errors' = errors
      BY <1>3, <2>4 DEF RootsChecked, BeginLoad
    <3> QED
      BY <2>1, <2>2, <2>4, <3>1, RootLists DEF CheckedInv, SteadilyMissing
  <2> QED
    BY <2>3, <2>4
<1>4. CASE RequestLoaded
  <2> DEFINE merged == Merge(config, table)
  <2>1. /\ pc = "request" /\ pc' = "resolved" /\ queue' = queue /\ missing' = missing
        /\ Scoped => errors' = ScopeErrors(merged)
    BY <1>4 DEF RequestLoaded
  <2>2. \A p \in ScopeErrors(merged) : p.code # "SKILL_ROOT_MISSING"
    BY DEF ScopeErrors, Problem
  <2> QED
    BY <2>1, <2>2 DEF CheckedInv, SteadilyMissing, Scoped
<1> QED
  BY <1>1, <1>2, <1>3, <1>4 DEF ResolveStep

LEMMA RootRun ==
    ASSUME RootInv, RunTask \/ RunAction, UNCHANGED <<gone, roots0, toggled, allow>>
    PROVE  RootInv'
<1>1. \A given : \A p \in ActionErrors(given) : p.code # "SKILL_ROOT_MISSING"
  BY DEF ActionErrors, Problem
<1>2. pc = "resolved" /\ pc' \in {"running", "failed"}
      /\ queue' = queue /\ missing' = missing
  BY DEF RunTask, RunAction, Fail
<1>3. \/ errors # NoErrors /\ pc' = "failed" /\ errors' = errors
      \/ errors = NoErrors /\ pc' = "running" /\ errors' = errors
      \/ errors = NoErrors /\ pc' = "failed" /\ \E given : errors' = ActionErrors(given)
  BY DEF RunTask, RunAction, Fail
<1>4. CheckedInv'
  BY <1>1, <1>2, <1>3 DEF RootInv, CheckedInv, SteadilyMissing, Scoped, NoErrors
<1> QED
  BY <1>2, <1>4 DEF RootInv

LEMMA RootDisk ==
    ASSUME RootInv, DiskStep
    PROVE  RootInv'
<1>1. UNCHANGED <<pc, queue, missing, errors, allow, roots0>>
  BY DEF DiskStep, scopeVars
<1>2. \/ UNCHANGED <<gone, toggled>>
      \/ \E r \in Roots : /\ toggled' = toggled \cup {r}
                          /\ gone' = IF r \in gone THEN gone \ {r} ELSE gone \cup {r}
  BY DEF DiskStep, ToggleRoot, AlterSkill
<1>3. /\ (roots0 \ toggled)' \subseteq gone' /\ gone' \subseteq (roots0 \cup toggled)'
      /\ missing' \subseteq (roots0 \cup toggled)' /\ toggled \subseteq toggled'
  BY <1>1, <1>2 DEF RootInv
<1>4. SteadilyMissing' \subseteq SteadilyMissing
  BY <1>1, <1>3 DEF SteadilyMissing
<1>5. CheckedInv'
  BY <1>1, <1>4 DEF RootInv, CheckedInv, InQueue, Scoped
<1> QED
  BY <1>1, <1>3, <1>5 DEF RootInv

LEMMA RootNext == RootInv /\ [Next]_vars => RootInv'
<1> SUFFICES ASSUME RootInv, [Next]_vars PROVE RootInv'
  OBVIOUS
<1>1. CASE CallStep
  <2>1. UNCHANGED <<gone, roots0, toggled, allow>>
    BY <1>1 DEF CallStep, diskVars, historyVars
  <2>2. CASE Start
    <3>1. missing' = missing /\ queue' \in Seq(Roots)
      BY <2>2, RootLists DEF Start, BeginLoad, RootInv
    <3>2. \/ pc' = "config" /\ errors' = errors /\ pc = "new"
          \/ pc' = "failed" /\ errors' = {Problem("EXCEPTION", None)}
      BY <2>2 DEF Start, Fail
    <3> QED
      BY <2>1, <3>1, <3>2 DEF RootInv, CheckedInv
  <2> QED
    BY <1>1, <2>1, <2>2, RootLoad, RootResolve, RootRun DEF CallStep, Resolve
<1>2. CASE DiskStep
  BY <1>2, RootDisk
<1>3. CASE UNCHANGED vars
  BY <1>3 DEF vars, diskVars, scopeVars, callVars, historyVars, RootInv, CheckedInv,
              SteadilyMissing, InQueue, Scoped
<1> QED
  BY <1>1, <1>2, <1>3 DEF Next

\* A root that is missing throughout a scoped call is named in its error, unless
\* the call ends in an exception while the config's skills load; and only roots
\* seen missing are named (src/skills/resolve.ts:142-182).
THEOREM MissingRootsAreNamed == Spec => []MissingRootIsNamed
<1>1. RootInv => MissingRootIsNamed
  BY DEF RootInv, CheckedInv, MissingRootIsNamed, Problem, NoErrors
<1> QED
  BY <1>1, RootInit, RootNext, PTL DEF Spec

-----------------------------------------------------------------------------
(* The resolution of a disk at rest: what the loader has after it has      *)
(* visited some entries, for any layout of the roots.                      *)

\* The entries visited when the loader is behind the p-th one of the k-th root.
Seen(lay, roots, k, p, i, e) == i \in 1..k /\ e \in Reached(lay[roots[i]]) /\ (i = k => e <= p)

NotBehind(h, d, i, e) == h < i \/ (h = i /\ d <= e)

\* The copy of a skill that stands after these visits: the last one seen.
Newest(lay, roots, k, p, n, copy) ==
    \/ /\ copy = None
       /\ \A i \in 1..k, e \in 1..MaxCandidates :
            Seen(lay, roots, k, p, i, e) => ~Holds(lay[roots[i]][e], n)
    \/ \E i \in 1..k, e \in 1..MaxCandidates :
         /\ Seen(lay, roots, k, p, i, e) /\ Holds(lay[roots[i]][e], n)
         /\ copy = CopyOf(roots[i], lay[roots[i]][e])
         /\ \A h \in 1..k, d \in 1..MaxCandidates :
              Seen(lay, roots, k, p, h, d) /\ Holds(lay[roots[h]][d], n) => NotBehind(h, d, i, e)

Count(s) == IF Len(s) <= MaxCandidates THEN Len(s) ELSE MaxCandidates

\* Where the loader is in a root.
InRoot(s, p) ==
    /\ p + Len(listing) = Count(s)
    /\ \A i \in 1..Len(listing) : listing[i] = p + i
    /\ loaded = Cardinality(SkillsUpTo(s, p))

LoadedTo(roots, k, p) ==
    /\ Len(queue) = Len(roots) - k /\ \A i \in 1..Len(queue) : queue[i] = roots[k + i]
    /\ k = 0 => p = 0 /\ listing = <<>> /\ ~parsing
    /\ k > 0 => root = roots[k] /\ InRoot(Layout[roots[k]], p)
    /\ parsing => listing # <<>> /\ loaded < MaxSkills
    /\ \A n \in Skill : Newest(Layout, roots, k, p, n, table[n])
    /\ \A i \in 1..k, e \in 1..MaxCandidates :
         Seen(Layout, roots, k, p, i, e) => Layout[roots[i]][e] # Broken

Loads(roots) == \E k \in 0..Len(roots), p \in 0..MaxCandidates : LoadedTo(roots, k, p)

\* All of these roots are loaded.
Full(roots, t) ==
    /\ \A n \in Skill : t[n] = Provided(Layout, roots, n)
    /\ \A i \in DOMAIN roots : \A e \in Reached(Layout[roots[i]]) : Layout[roots[i]][e] # Broken

AtRest ==
    /\ disk \in [Roots -> Seq(Entries)]
    /\ listing \in Seq(Nat)
    /\ parsing \in BOOLEAN
    /\ pc = "config" => Loads(ConfigRoots)
    /\ pc = "request" => Loads(RequestRoots)
    /\ pc \in {"roots", "request"} => Full(ConfigRoots, config)
    /\ ResolutionIsExact

RestInv == changes \in Nat /\ (changes = 0 => AtRest)

\* One more entry: one more skill, or none.
LEMMA SkillsUpToNext ==
    ASSUME NEW s, NEW e \in Nat
    PROVE  /\ IsFiniteSet(SkillsUpTo(s, e)) /\ Cardinality(SkillsUpTo(s, e)) \in Nat
           /\ IsSkill(s[e + 1]) => Cardinality(SkillsUpTo(s, e + 1)) = Cardinality(SkillsUpTo(s, e)) + 1
           /\ ~IsSkill(s[e + 1]) => SkillsUpTo(s, e + 1) = SkillsUpTo(s, e)
<1>1. IsFiniteSet(SkillsUpTo(s, e)) /\ Cardinality(SkillsUpTo(s, e)) \in Nat
  <2>1. IsFiniteSet(1..e)
    BY FS_Interval
  <2>. QED BY <2>1, FS_Subset, FS_CardinalityType DEF SkillsUpTo
<1>2. ASSUME IsSkill(s[e + 1])
      PROVE  Cardinality(SkillsUpTo(s, e + 1)) = Cardinality(SkillsUpTo(s, e)) + 1
  <2>1. SkillsUpTo(s, e + 1) = SkillsUpTo(s, e) \cup {e + 1} /\ e + 1 \notin SkillsUpTo(s, e)
    BY <1>2 DEF SkillsUpTo
  <2>. QED BY <1>1, <2>1, FS_AddElement
<1>3. ~IsSkill(s[e + 1]) => SkillsUpTo(s, e + 1) = SkillsUpTo(s, e)
  BY DEF SkillsUpTo
<1>. QED BY <1>1, <1>2, <1>3

LEMMA SkillsUpToGrows ==
    ASSUME NEW s, NEW e \in Nat, NEW d \in Nat, e <= d
    PROVE  Cardinality(SkillsUpTo(s, e)) <= Cardinality(SkillsUpTo(s, d))
<1>1. SkillsUpTo(s, e) \subseteq SkillsUpTo(s, d)
  BY DEF SkillsUpTo
<1>. QED BY <1>1, SkillsUpToNext, FS_Subset

LEMMA ReachedTyped ==
    ASSUME NEW s \in Seq(Entries), NEW e \in Reached(s)
    PROVE  e \in 1..Count(s) /\ e \in 1..MaxCandidates /\ s[e] \in Entries
<1>1. DOMAIN s = 1..Len(s) /\ Len(s) \in Nat
  BY LenProperties
<1>2. e \in 1..Len(s) /\ e <= MaxCandidates /\ MaxCandidates \in Nat
  BY <1>1, DiskAssumption DEF Reached, DiskAssumption
<1>. QED BY <1>1, <1>2, ElementOfSeq DEF Count

\* What is seen is the same from there on: so is what stands.
LEMMA NewestSame ==
    ASSUME NEW lay, NEW roots, NEW k \in Nat, NEW p, NEW m \in Nat, NEW q, NEW n, NEW copy, k <= m,
           \A i \in 1..m, e \in 1..MaxCandidates :
             Seen(lay, roots, m, q, i, e) <=> (i \in 1..k /\ Seen(lay, roots, k, p, i, e)),
           Newest(lay, roots, k, p, n, copy)
    PROVE  Newest(lay, roots, m, q, n, copy)
<1>1. 1..k \subseteq 1..m
  OBVIOUS
<1>2. CASE copy = None /\ \A i \in 1..k, e \in 1..MaxCandidates :
            Seen(lay, roots, k, p, i, e) => ~Holds(lay[roots[i]][e], n)
  BY <1>1, <1>2 DEF Newest
<1>3. ASSUME NEW i \in 1..k, NEW e \in 1..MaxCandidates,
             Seen(lay, roots, k, p, i, e), Holds(lay[roots[i]][e], n),
             copy = CopyOf(roots[i], lay[roots[i]][e]),
             \A h \in 1..k, d \in 1..MaxCandidates :
               Seen(lay, roots, k, p, h, d) /\ Holds(lay[roots[h]][d], n) => NotBehind(h, d, i, e)
      PROVE  Newest(lay, roots, m, q, n, copy)
  BY <1>1, <1>3 DEF Newest
<1>. QED BY <1>2, <1>3 DEF Newest

\* An entry that does not hold the skill changes nothing for it.
LEMMA NewestSkips ==
    ASSUME NEW lay, NEW roots, NEW k \in Nat, NEW p \in Nat, NEW n, NEW copy,
           ~Holds(lay[roots[k]][p + 1], n), \A i \in 1..k : Reached(lay[roots[i]]) \subseteq Nat,
           Newest(lay, roots, k, p, n, copy)
    PROVE  Newest(lay, roots, k, p + 1, n, copy)
<1>1. \A i \in 1..k, e \in 1..MaxCandidates :
        /\ Seen(lay, roots, k, p, i, e) => Seen(lay, roots, k, p + 1, i, e)
        /\ Seen(lay, roots, k, p + 1, i, e) /\ Holds(lay[roots[i]][e], n) => Seen(lay, roots, k, p, i, e)
  BY DEF Seen
<1>2. CASE copy = None /\ \A i \in 1..k, e \in 1..MaxCandidates :
            Seen(lay, roots, k, p, i, e) => ~Holds(lay[roots[i]][e], n)
  BY <1>1, <1>2 DEF Newest
<1>3. ASSUME NEW i \in 1..k, NEW e \in 1..MaxCandidates,
             Seen(lay, roots, k, p, i, e), Holds(lay[roots[i]][e], n),
             copy = CopyOf(roots[i], lay[roots[i]][e]),
             \A h \in 1..k, d \in 1..MaxCandidates :
               Seen(lay, roots, k, p, h, d) /\ Holds(lay[roots[h]][d], n) => NotBehind(h, d, i, e)
      PROVE  Newest(lay, roots, k, p + 1, n, copy)
  BY <1>1, <1>3 DEF Newest
<1>. QED BY <1>2, <1>3 DEF Newest

\* An entry that holds it is the last one seen.
LEMMA NewestTakes ==
    ASSUME NEW lay, NEW roots, NEW k \in Nat \ {0}, NEW p \in Nat, NEW n,
           p + 1 \in 1..MaxCandidates, p + 1 \in Reached(lay[roots[k]]), Holds(lay[roots[k]][p + 1], n)
    PROVE  Newest(lay, roots, k, p + 1, n, CopyOf(roots[k], lay[roots[k]][p + 1]))
<1>1. k \in 1..k /\ Seen(lay, roots, k, p + 1, k, p + 1)
  BY DEF Seen
<1>2. \A h \in 1..k, d \in 1..MaxCandidates :
        Seen(lay, roots, k, p + 1, h, d) => NotBehind(h, d, k, p + 1)
  BY DEF Seen, NotBehind
<1>. QED BY <1>1, <1>2 DEF Newest

-----------------------------------------------------------------------------
(* The loader over a disk at rest.                                         *)

DiskTyped == disk \in [Roots -> Seq(Entries)]

LEMMA LayoutShows ==
    ASSUME DiskTyped
    PROVE  /\ Layout \in [Roots -> Seq(Entries)]
           /\ \A r \in Roots : \A e \in 1..Len(Layout[r]) : Content(r, e) = Layout[r][e]
           /\ \A r \in Roots : r \notin gone => Candidates(r) = 1..Count(Layout[r])
<1>1. <<>> \in Seq(Entries) /\ Len(<<>>) = 0
  OBVIOUS
<1>2. Layout \in [Roots -> Seq(Entries)]
  BY <1>1 DEF Layout, DiskTyped
<1>3. ASSUME NEW r \in Roots, r \notin gone
      PROVE  Layout[r] = disk[r] /\ Candidates(r) = 1..Count(Layout[r])
  <2>1. Layout[r] = disk[r] /\ disk[r] \in Seq(Entries)
    BY <1>3 DEF Layout, DiskTyped
  <2>2. DOMAIN disk[r] = 1..Len(disk[r]) /\ Len(disk[r]) \in Nat
    BY <2>1, LenProperties
  <2>3. Candidates(r) = 1..Count(disk[r])
    BY <2>2, DiskAssumption DEF Candidates, Count, DiskAssumption
  <2>. QED BY <2>1, <2>3
<1>4. ASSUME NEW r \in Roots, NEW e \in 1..Len(Layout[r]) PROVE Content(r, e) = Layout[r][e]
  <2>1. CASE r \in gone
    BY <1>1, <2>1 DEF Layout
  <2>2. CASE r \notin gone
    BY <1>3, <2>2 DEF Content
  <2>. QED BY <2>1, <2>2
<1>. QED BY <1>2, <1>3, <1>4

\* When a root is done, all its entries that are looked into have been seen.
LEMMA DoneMeansSeen ==
    ASSUME NEW s \in Seq(Entries), NEW p \in Nat, InRoot(s, p), RootDone, listing \in Seq(Nat),
           NEW e \in Reached(s)
    PROVE  e <= p
<1>1. e \in 1..Count(s) /\ e \in Nat /\ Len(listing) \in Nat
  BY ReachedTyped, LenProperties
<1>2. CASE listing = <<>>
  <2>1. Len(listing) = 0
    BY <1>2
  <2>2. p = Count(s)
    BY <2>1 DEF InRoot
  <2>. QED BY <1>1, <2>2
<1>3. CASE loaded >= MaxSkills
  <2>. SUFFICES ASSUME p < e PROVE FALSE
    BY <1>1
  <2>1. e - 1 \in Nat /\ p <= e - 1
    BY <1>1
  <2>2. Cardinality(SkillsUpTo(s, p)) <= Cardinality(SkillsUpTo(s, e - 1))
    BY <2>1, SkillsUpToGrows
  <2>3. Cardinality(SkillsUpTo(s, e - 1)) < MaxSkills
    BY DEF Reached
  <2>4. Cardinality(SkillsUpTo(s, p)) \in Nat /\ Cardinality(SkillsUpTo(s, e - 1)) \in Nat
    BY <2>1, SkillsUpToNext
  <2>5. loaded = Cardinality(SkillsUpTo(s, p)) /\ MaxSkills \in Nat
    BY DiskAssumption DEF InRoot, DiskAssumption
  <2>. QED BY <1>3, <2>2, <2>3, <2>4, <2>5
<1>. QED BY <1>2, <1>3 DEF RootDone

\* All roots up to the k-th are then seen to their ends.
LEMMA AllSeen ==
    ASSUME DiskTyped, listing \in Seq(Nat), NEW roots \in Seq(Roots), NEW k \in 0..Len(roots),
           NEW p \in Nat, LoadedTo(roots, k, p), RootDone
    PROVE  \A i \in 1..k : \A e \in Reached(Layout[roots[i]]) : Seen(Layout, roots, k, p, i, e)
<1>. SUFFICES ASSUME NEW i \in 1..k, NEW e \in Reached(Layout[roots[i]])
              PROVE  i = k => e <= p
  BY DEF Seen
<1>1. i \in 1..Len(roots) /\ Len(roots) \in Nat
  BY LenProperties
<1>2. Layout[roots[i]] \in Seq(Entries)
  BY <1>1, ElementOfSeq, LayoutShows
<1>3. i = k => InRoot(Layout[roots[i]], p)
  BY <1>1 DEF LoadedTo
<1>. QED BY <1>2, <1>3, DoneMeansSeen

LEMMA MaxIs ==
    ASSUME NEW S, NEW m \in S, \A x \in S : x <= m /\ x \in Int
    PROVE  Max(S) = m
<1>1. ASSUME NEW y \in S, \A x \in S : x <= y PROVE y = m
  BY <1>1
<1>. QED BY <1>1 DEF Max

\* The copy that stands when all has been seen is the one of the contract.
LEMMA NewestIsProvided ==
    ASSUME DiskTyped, NEW roots \in Seq(Roots), NEW p, NEW n, NEW copy,
           \A i \in 1..Len(roots) : \A e \in Reached(Layout[roots[i]]) :
             Seen(Layout, roots, Len(roots), p, i, e),
           Newest(Layout, roots, Len(roots), p, n, copy)
    PROVE  copy = Provided(Layout, roots, n)
<1>. DEFINE has(i) == { e \in Reached(Layout[roots[i]]) : Holds(Layout[roots[i]][e], n) }
            having == { i \in DOMAIN roots : has(i) # {} }
            last == Max(having)
<1>1. Provided(Layout, roots, n) =
        IF having = {} THEN None ELSE CopyOf(roots[last], Layout[roots[last]][Max(has(last))])
  BY DEF Provided
<1>2. DOMAIN roots = 1..Len(roots) /\ Len(roots) \in Nat /\ \A i \in 1..Len(roots) : roots[i] \in Roots
  BY LenProperties, ElementOfSeq
<1>3. \A i \in 1..Len(roots) : \A e \in Reached(Layout[roots[i]]) : e \in 1..MaxCandidates
  BY <1>2, LayoutShows, ReachedTyped
<1>4. CASE copy = None /\ \A i \in 1..Len(roots), e \in 1..MaxCandidates :
             Seen(Layout, roots, Len(roots), p, i, e) => ~Holds(Layout[roots[i]][e], n)
  <2>1. having = {}
    BY <1>2, <1>3, <1>4
  <2>. QED BY <1>1, <1>4, <2>1
<1>5. ASSUME NEW i \in 1..Len(roots), NEW e \in 1..MaxCandidates,
             Seen(Layout, roots, Len(roots), p, i, e), Holds(Layout[roots[i]][e], n),
             copy = CopyOf(roots[i], Layout[roots[i]][e]),
             \A h \in 1..Len(roots), d \in 1..MaxCandidates :
               Seen(Layout, roots, Len(roots), p, h, d) /\ Holds(Layout[roots[h]][d], n)
               => NotBehind(h, d, i, e)
      PROVE  copy = Provided(Layout, roots, n)
  <2>1. e \in has(i) /\ i \in having
    BY <1>2, <1>5 DEF Seen
  <2>2. \A h \in 1..Len(roots) : \A d \in has(h) : NotBehind(h, d, i, e)
    BY <1>3, <1>5
  <2>3. \A h \in having : h \in 1..Len(roots) /\ \E d : d \in has(h)
    BY <1>2
  <2>4. \A d \in has(i) : d \in 1..MaxCandidates
    BY <1>3
  <2>. HIDE DEF has, having
  <2>5. ASSUME NEW h \in having PROVE h <= i /\ h \in Int
    <3>1. h \in 1..Len(roots) /\ (h < i \/ h = i)
      BY <2>2, <2>3 DEF NotBehind
    <3>. QED BY <1>2, <3>1
  <2>6. last = i
    BY <1>2, <2>1, <2>5, MaxIs DEF last
  <2>7. ASSUME NEW d \in has(i) PROVE d <= e /\ d \in Int
    <3>1. i < i \/ d <= e
      BY <2>2 DEF NotBehind
    <3>. QED BY <1>2, <2>4, <3>1
  <2>8. Max(has(last)) = e
    BY <2>1, <2>6, <2>7, MaxIs
  <2>. HIDE DEF last
  <2>. QED BY <1>1, <1>5, <2>1, <2>6, <2>8
<1>. QED BY <1>4, <1>5 DEF Newest

\* With all roots done, the table is what they provide.
LEMMA LoadIsFull ==
    ASSUME DiskTyped, listing \in Seq(Nat), NEW roots \in Seq(Roots), Loads(roots),
           RootDone, queue = <<>>
    PROVE  Full(roots, table)
<1>1. PICK k \in 0..Len(roots), p \in 0..MaxCandidates : LoadedTo(roots, k, p)
  BY DEF Loads
<1>2. k = Len(roots) /\ p \in Nat
  <2>1. Len(queue) = Len(roots) - k /\ Len(queue) = 0 /\ Len(roots) \in Nat
    BY <1>1, LenProperties DEF LoadedTo
  <2>2. MaxCandidates \in Nat
    BY DiskAssumption DEF DiskAssumption
  <2>. QED BY <2>1, <2>2
<1>3. \A i \in 1..Len(roots) : \A e \in Reached(Layout[roots[i]]) :
        Seen(Layout, roots, Len(roots), p, i, e)
  BY <1>1, <1>2, AllSeen
<1>4. \A n \in Skill : table[n] = Provided(Layout, roots, n)
  <2>1. \A n \in Skill : Newest(Layout, roots, Len(roots), p, n, table[n])
    BY <1>1, <1>2 DEF LoadedTo
  <2>. QED BY <1>3, <2>1, NewestIsProvided
<1>5. ASSUME NEW i \in DOMAIN roots, NEW e \in Reached(Layout[roots[i]]) PROVE Layout[roots[i]][e] # Broken
  <2>1. i \in 1..Len(roots) /\ roots[i] \in Roots
    BY LenProperties, ElementOfSeq
  <2>2. e \in 1..MaxCandidates
    BY <2>1, LayoutShows, ReachedTyped
  <2>. QED BY <1>1, <1>2, <1>3, <2>1, <2>2 DEF LoadedTo
<1>. QED BY <1>4, <1>5 DEF Full

LEMMA EntryTyped ==
    ASSUME NEW c \in Entries
    PROVE  /\ c.kind \in {"nothing", "broken", "skill", "script"}
           /\ IsSkill(c) <=> c.kind \in {"skill", "script"}
           /\ IsSkill(c) => c.name \in Skill
           /\ c.kind # "broken" <=> c # Broken
           /\ c.kind = "nothing" <=> c = Nothing
BY DEF Entries, Nothing, Broken, SkillMd, Script, IsSkill

LEMMA LayoutStays ==
    ASSUME UNCHANGED <<disk, gone>>
    PROVE  Layout' = Layout
BY DEF Layout

LEMMA LoadBegins ==
    ASSUME NEW roots \in Seq(Roots), BeginLoad(roots)
    PROVE  Loads(roots)' /\ listing' \in Seq(Nat) /\ parsing' = FALSE
<1>1. /\ queue' = roots /\ listing' = <<>> /\ parsing' = FALSE /\ table' = Empty
  BY DEF BeginLoad
<1>2. Len(roots) \in Nat /\ 0 \in 0..Len(roots) /\ 0 \in 0..MaxCandidates
  BY LenProperties, DiskAssumption DEF DiskAssumption
<1>3. \A n \in Skill : Newest(Layout', roots, 0, 0, n, table'[n])
  BY <1>1 DEF Newest, Empty
<1>4. LoadedTo(roots, 0, 0)'
  BY <1>1, <1>2, <1>3 DEF LoadedTo
<1>5. <<>> \in Seq(Nat)
  OBVIOUS
<1>. QED BY <1>1, <1>2, <1>4, <1>5 DEF Loads

LEMMA LoadOpens ==
    ASSUME DiskTyped, listing \in Seq(Nat), queue \in Seq(Roots), NEW roots \in Seq(Roots),
           Loads(roots), OpenRoot, UNCHANGED <<disk, gone>>
    PROVE  Loads(roots)' /\ listing' \in Seq(Nat) /\ parsing' = FALSE
<1>1. PICK k \in 0..Len(roots), p \in 0..MaxCandidates : LoadedTo(roots, k, p)
  BY DEF Loads
<1>2. /\ RootDone /\ queue # <<>> /\ ~parsing /\ parsing' = parsing /\ table' = table /\ loaded' = 0
      /\ root' = Head(queue) /\ queue' = Tail(queue)
      /\ listing' = IF root' \in gone THEN <<>> ELSE [e \in Candidates(root') |-> e]
  BY DEF OpenRoot, RootDone
<1>3. ~parsing'
  BY <1>2
<1>4. Len(queue) = Len(roots) - k /\ \A i \in 1..Len(queue) : queue[i] = roots[k + i]
  BY <1>1 DEF LoadedTo
<1>5. Len(roots) \in Nat /\ MaxCandidates \in Nat /\ k \in Nat /\ p \in Nat
  BY LenProperties, DiskAssumption DEF DiskAssumption
<1>6. /\ Len(queue) >= 1 /\ Head(queue) = queue[1] /\ Len(queue') = Len(queue) - 1
      /\ \A i \in 1..Len(queue') : queue'[i] = queue[i + 1]
  <2>1. Len(queue) \in Nat /\ Len(queue) # 0
    BY <1>2, EmptySeq, LenProperties
  <2>. QED BY <1>2, <2>1, HeadTailProperties
<1>7. k + 1 \in 1..Len(roots) /\ k + 1 \in 0..Len(roots) /\ root' = roots[k + 1]
  BY <1>2, <1>4, <1>5, <1>6
<1>8. Len(queue') = Len(roots) - (k + 1) /\ \A i \in 1..Len(queue') : queue'[i] = roots[(k + 1) + i]
  <2>1. Len(queue') = Len(roots) - (k + 1)
    BY <1>4, <1>5, <1>6
  <2>2. ASSUME NEW i \in 1..Len(queue') PROVE queue'[i] = roots[(k + 1) + i]
    <3>1. i + 1 \in 1..Len(queue) /\ k + (i + 1) = (k + 1) + i
      BY <1>4, <1>5, <1>6
    <3>. QED BY <1>4, <1>6, <3>1
  <2>. QED BY <2>1, <2>2
<1>9. root' \in Roots /\ Layout' = Layout
  BY <1>7, ElementOfSeq, LayoutStays
<1>. DEFINE s == Layout[roots[k + 1]]
<1>10. s \in Seq(Entries) /\ Count(s) \in Nat
  BY <1>5, <1>7, <1>9, LayoutShows, LenProperties DEF Count
<1>11. listing' \in Seq(Nat) /\ Len(listing') = Count(s) /\ \A i \in 1..Len(listing') : listing'[i] = i
  <2>1. CASE root' \in gone
    <3>1. s = <<>> /\ Len(s) = 0 /\ listing' = <<>>
      BY <1>2, <1>7, <1>9, <2>1 DEF Layout
    <3>. QED BY <1>5, <3>1 DEF Count
  <2>2. CASE root' \notin gone
    <3>1. listing' = [e \in 1..Count(s) |-> e]
      BY <1>2, <1>7, <1>9, <2>2, LayoutShows
    <3>. HIDE DEF s
    <3>. QED BY <1>10, <3>1
  <2>. QED BY <2>1, <2>2
<1>12. /\ 0 + Len(listing') = Count(s) /\ \A i \in 1..Len(listing') : listing'[i] = 0 + i
       /\ loaded' = Cardinality(SkillsUpTo(s, 0))
  <2>1. SkillsUpTo(s, 0) = {}
    BY DEF SkillsUpTo
  <2>2. loaded' = Cardinality(SkillsUpTo(s, 0))
    BY <1>2, <2>1, FS_EmptySet
  <2>. HIDE DEF s
  <2>. QED BY <1>10, <1>11, <2>2
<1>13. ASSUME NEW i \in 1..k + 1, NEW e \in 1..MaxCandidates
       PROVE  Seen(Layout, roots, k + 1, 0, i, e) <=> (i \in 1..k /\ Seen(Layout, roots, k, p, i, e))
  <2>1. CASE i = k + 1
    BY <1>5, <2>1 DEF Seen
  <2>2. CASE i # k + 1
    <3>1. i \in 1..k
      BY <1>5, <2>2
    <3>2. e \in Reached(Layout[roots[i]]) => Seen(Layout, roots, k, p, i, e)
      BY <1>1, <1>2, <1>5, <3>1, AllSeen
    <3>. QED BY <2>2, <3>1, <3>2 DEF Seen
  <2>. QED BY <2>1, <2>2
<1>14. \A n \in Skill : Newest(Layout, roots, k + 1, 0, n, table[n])
  <2>1. \A n \in Skill : Newest(Layout, roots, k, p, n, table[n])
    BY <1>1 DEF LoadedTo
  <2>2. k <= k + 1 /\ k + 1 \in Nat
    BY <1>5
  <2>. QED BY <1>5, <1>13, <2>1, <2>2, NewestSame
<1>15. \A i \in 1..k + 1, e \in 1..MaxCandidates :
         Seen(Layout, roots, k + 1, 0, i, e) => Layout[roots[i]][e] # Broken
  BY <1>1, <1>13 DEF LoadedTo
<1>16. LoadedTo(roots, k + 1, 0)'
  <2>1. k + 1 # 0
    BY <1>5
  <2>2. s = Layout'[roots[k + 1]]
    BY <1>9
  <2>3. InRoot(Layout[roots[k + 1]], 0)'
    <3>. HIDE DEF s
    <3>. QED BY <1>12, <2>2 DEF InRoot
  <2>. HIDE DEF s
  <2>. QED BY <1>2, <1>3, <1>7, <1>8, <1>9, <1>14, <1>15, <2>1, <2>3 DEF LoadedTo
<1>. QED BY <1>3, <1>2, <1>5, <1>7, <1>11, <1>16 DEF Loads

\* The entry the loader is at, and what is behind it.
Facing(roots, k, p) ==
    /\ k \in Nat \ {0} /\ k \in 1..Len(roots) /\ root = roots[k] /\ root \in Roots
    /\ Head(listing) = p + 1 /\ p \in Nat /\ p + 1 \in 1..MaxCandidates
    /\ p + 1 \in Reached(Layout[roots[k]])
    /\ Content(root, p + 1) = Layout[roots[k]][p + 1]
    /\ Layout[roots[k]][p + 1] \in Entries
    /\ Tail(listing) \in Seq(Nat) /\ p + 1 + Len(Tail(listing)) = Count(Layout[roots[k]])
    /\ \A i \in 1..Len(Tail(listing)) : Tail(listing)[i] = p + 1 + i
    /\ loaded = Cardinality(SkillsUpTo(Layout[roots[k]], p)) /\ loaded \in Nat
    /\ \A i \in 1..k : Reached(Layout[roots[i]]) \subseteq Nat

\* A loader that is still listing faces an entry.
LEMMA AtEntry ==
    ASSUME DiskTyped, listing \in Seq(Nat), NEW roots \in Seq(Roots), NEW k \in 0..Len(roots),
           NEW p \in 0..MaxCandidates, LoadedTo(roots, k, p), listing # <<>>, loaded < MaxSkills
    PROVE  Facing(roots, k, p)
<1>. DEFINE s == Layout[roots[k]]
<1>1. Len(roots) \in Nat /\ MaxCandidates \in Nat /\ k \in Nat /\ p \in Nat /\ MaxSkills \in Nat
  BY LenProperties, DiskAssumption DEF DiskAssumption
<1>2. k # 0
  BY DEF LoadedTo
<1>3. k \in 1..Len(roots) /\ root = roots[k] /\ InRoot(s, p)
  BY <1>1, <1>2 DEF LoadedTo
<1>4. root \in Roots /\ s \in Seq(Entries)
  BY <1>3, ElementOfSeq, LayoutShows
<1>5. Len(s) \in Nat /\ Count(s) <= Len(s) /\ Count(s) <= MaxCandidates /\ Count(s) \in Nat
  BY <1>1, <1>4, LenProperties DEF Count
<1>6. p + Len(listing) = Count(s) /\ \A i \in 1..Len(listing) : listing[i] = p + i
  BY <1>3 DEF InRoot
<1>7. /\ Len(listing) \in Nat /\ Len(listing) >= 1 /\ Head(listing) = listing[1]
      /\ Tail(listing) \in Seq(Nat) /\ Len(Tail(listing)) = Len(listing) - 1
      /\ \A i \in 1..Len(Tail(listing)) : Tail(listing)[i] = listing[i + 1]
  <2>1. Len(listing) \in Nat /\ Len(listing) # 0
    BY EmptySeq, LenProperties
  <2>. QED BY <2>1, HeadTailProperties
<1>8. loaded = Cardinality(SkillsUpTo(s, p)) /\ loaded \in Nat
  BY <1>1, <1>3, SkillsUpToNext DEF InRoot
<1>. HIDE DEF s
<1>9. Head(listing) = p + 1
  BY <1>6, <1>7
<1>10. p + 1 <= Count(s) /\ p + 1 \in 1..MaxCandidates /\ p + 1 \in 1..Len(s)
  BY <1>1, <1>5, <1>6, <1>7
<1>11. p + 1 \in Reached(s)
  <2>1. (p + 1) - 1 = p
    BY <1>1
  <2>. QED BY <1>8, <1>10, <2>1 DEF Reached
<1>12. s[p + 1] \in Entries
  BY <1>4, <1>11, ReachedTyped
<1>13. Content(root, p + 1) = s[p + 1]
  BY <1>3, <1>4, <1>10, LayoutShows DEF s
<1>14. p + 1 + Len(Tail(listing)) = Count(s)
  BY <1>1, <1>6, <1>7
<1>15. ASSUME NEW i \in 1..Len(Tail(listing)) PROVE Tail(listing)[i] = p + 1 + i
  <2>1. i + 1 \in 1..Len(listing) /\ p + (i + 1) = p + 1 + i
    BY <1>1, <1>7
  <2>. QED BY <1>6, <1>7, <2>1
<1>16. ASSUME NEW i \in 1..k PROVE Reached(Layout[roots[i]]) \subseteq Nat
  <2>1. i \in 1..Len(roots)
    BY <1>1, <1>3
  <2>. QED BY <2>1, ElementOfSeq, LayoutShows, ReachedTyped
<1>. QED BY <1>1, <1>2, <1>3, <1>4, <1>7, <1>8, <1>9, <1>10, <1>11, <1>12, <1>13, <1>14, <1>15, <1>16 DEF s, Facing

\* An entry that is no skill is passed over.
LEMMA LoadSkips ==
    ASSUME DiskTyped, listing \in Seq(Nat), NEW roots \in Seq(Roots), NEW k \in 0..Len(roots),
           NEW p \in 0..MaxCandidates, LoadedTo(roots, k, p), listing # <<>>, loaded < MaxSkills,
           Layout[roots[k]][p + 1] = Nothing, listing' = Tail(listing), parsing' = FALSE,
           UNCHANGED <<disk, gone, queue, root, loaded, table>>
    PROVE  Loads(roots)' /\ listing' \in Seq(Nat)
<1>. DEFINE s == Layout[roots[k]]
<1>0. Facing(roots, k, p)
  BY AtEntry, Zenon
<1>1. /\ k \in Nat \ {0} /\ root = roots[k] /\ p \in Nat /\ p + 1 \in 1..MaxCandidates
      /\ Tail(listing) \in Seq(Nat) /\ p + 1 + Len(Tail(listing)) = Count(s)
      /\ \A i \in 1..Len(Tail(listing)) : Tail(listing)[i] = p + 1 + i
      /\ loaded = Cardinality(SkillsUpTo(s, p))
      /\ \A i \in 1..k : Reached(Layout[roots[i]]) \subseteq Nat
  BY <1>0 DEF Facing
<1>2. ~IsSkill(s[p + 1]) /\ s[p + 1] # Broken
  BY DEF Nothing, Broken, IsSkill
<1>3. SkillsUpTo(s, p + 1) = SkillsUpTo(s, p)
  BY <1>1, <1>2, SkillsUpToNext
<1>4. Layout' = Layout
  BY LayoutStays
<1>5. \A n \in Skill : Newest(Layout, roots, k, p + 1, n, table[n])
  <2>1. \A n \in Skill : Newest(Layout, roots, k, p, n, table[n])
    BY DEF LoadedTo
  <2>2. \A n \in Skill : ~Holds(Layout[roots[k]][p + 1], n)
    BY <1>2 DEF Holds
  <2>. QED BY <1>1, <2>1, <2>2, NewestSkips
<1>6. ASSUME NEW i \in 1..k, NEW e \in 1..MaxCandidates, Seen(Layout, roots, k, p + 1, i, e)
      PROVE  Layout[roots[i]][e] # Broken
  <2>1. CASE i = k /\ e = p + 1
    BY <1>2, <2>1
  <2>2. CASE ~(i = k /\ e = p + 1)
    <3>1. Seen(Layout, roots, k, p, i, e)
      BY <1>1, <1>6, <2>2 DEF Seen
    <3>. QED BY <3>1 DEF LoadedTo
  <2>. QED BY <2>1, <2>2
<1>7. InRoot(Layout[roots[k]], p + 1)'
  <2>1. s = Layout'[roots[k]]
    BY <1>4
  <2>. HIDE DEF s
  <2>. QED BY <1>1, <1>3, <2>1 DEF InRoot
<1>8. LoadedTo(roots, k, p + 1)'
  <2>1. Len(queue) = Len(roots) - k /\ \A i \in 1..Len(queue) : queue[i] = roots[k + i]
    BY DEF LoadedTo
  <2>. QED BY <1>1, <1>4, <1>5, <1>6, <1>7, <2>1 DEF LoadedTo
<1>9. p + 1 \in 0..MaxCandidates
  BY <1>1
<1>. QED BY <1>1, <1>8, <1>9 DEF Loads

\* A skill is entered: it is the last one seen of its name.
LEMMA LoadEnters ==
    ASSUME DiskTyped, listing \in Seq(Nat), NEW roots \in Seq(Roots), NEW k \in 0..Len(roots),
           NEW p \in 0..MaxCandidates, LoadedTo(roots, k, p), listing # <<>>, loaded < MaxSkills,
           Named(table), NEW c, c = Layout[roots[k]][p + 1], IsSkill(c), Enter(c), parsing' = FALSE,
           UNCHANGED <<disk, gone, queue, root>>
    PROVE  Loads(roots)' /\ listing' \in Seq(Nat)
<1>. DEFINE s == Layout[roots[k]]
<1>0. Facing(roots, k, p)
  BY AtEntry, Zenon
<1>1. /\ k \in Nat \ {0} /\ root = roots[k] /\ p \in Nat /\ p + 1 \in 1..MaxCandidates
      /\ p + 1 \in Reached(s) /\ s[p + 1] \in Entries
      /\ Tail(listing) \in Seq(Nat) /\ p + 1 + Len(Tail(listing)) = Count(s)
      /\ \A i \in 1..Len(Tail(listing)) : Tail(listing)[i] = p + 1 + i
      /\ loaded = Cardinality(SkillsUpTo(s, p))
      /\ \A i \in 1..k : Reached(Layout[roots[i]]) \subseteq Nat
  BY <1>0 DEF Facing
<1>2. c.name \in Skill /\ c # Broken /\ c = s[p + 1]
  BY <1>1, EntryTyped
<1>3. /\ listing' = Tail(listing) /\ loaded' = loaded + 1
      /\ table' = [table EXCEPT ![c.name] = CopyOf(roots[k], c)]
  BY <1>1 DEF Enter
<1>4. Cardinality(SkillsUpTo(s, p + 1)) = Cardinality(SkillsUpTo(s, p)) + 1
  BY <1>1, <1>2, SkillsUpToNext
<1>5. Layout' = Layout
  BY LayoutStays
<1>6. ASSUME NEW n \in Skill PROVE Newest(Layout, roots, k, p + 1, n, table'[n])
  <2>1. table'[n] = IF n = c.name THEN CopyOf(roots[k], c) ELSE table[n]
    BY <1>3 DEF Named
  <2>2. CASE n = c.name
    <3>1. Holds(Layout[roots[k]][p + 1], n)
      BY <2>2 DEF Holds
    <3>2. Newest(Layout, roots, k, p + 1, n, CopyOf(roots[k], Layout[roots[k]][p + 1]))
      BY <1>1, <3>1, NewestTakes
    <3>. QED BY <2>1, <2>2, <3>2
  <2>3. CASE n # c.name
    <3>1. ~Holds(Layout[roots[k]][p + 1], n)
      BY <2>3 DEF Holds
    <3>2. Newest(Layout, roots, k, p, n, table[n])
      BY DEF LoadedTo
    <3>3. Newest(Layout, roots, k, p + 1, n, table[n])
      BY <1>1, <3>1, <3>2, NewestSkips
    <3>. QED BY <2>1, <2>3, <3>3
  <2>. QED BY <2>2, <2>3
<1>7. ASSUME NEW i \in 1..k, NEW e \in 1..MaxCandidates, Seen(Layout, roots, k, p + 1, i, e)
      PROVE  Layout[roots[i]][e] # Broken
  <2>1. CASE i = k /\ e = p + 1
    BY <1>2, <2>1
  <2>2. CASE ~(i = k /\ e = p + 1)
    <3>1. Seen(Layout, roots, k, p, i, e)
      BY <1>1, <1>7, <2>2 DEF Seen
    <3>. QED BY <3>1 DEF LoadedTo
  <2>. QED BY <2>1, <2>2
<1>8. InRoot(Layout[roots[k]], p + 1)'
  <2>1. s = Layout'[roots[k]]
    BY <1>5
  <2>. HIDE DEF s
  <2>. QED BY <1>1, <1>3, <1>4, <2>1 DEF InRoot
<1>9. LoadedTo(roots, k, p + 1)'
  <2>1. Len(queue) = Len(roots) - k /\ \A i \in 1..Len(queue) : queue[i] = roots[k + i]
    BY DEF LoadedTo
  <2>. QED BY <1>1, <1>5, <1>6, <1>7, <1>8, <2>1 DEF LoadedTo
<1>10. p + 1 \in 0..MaxCandidates
  BY <1>1
<1>. QED BY <1>1, <1>3, <1>9, <1>10 DEF Loads

\* One step of the loader, when nothing is thrown.
LEMMA LoadGoesOn ==
    ASSUME DiskTyped, listing \in Seq(Nat), parsing \in BOOLEAN, queue \in Seq(Roots), Named(table),
           NEW roots \in Seq(Roots), Loads(roots), LoadStep, pc' # "failed", UNCHANGED <<disk, gone>>
    PROVE  Loads(roots)' /\ listing' \in Seq(Nat) /\ parsing' \in BOOLEAN
<1>1. PICK k \in 0..Len(roots), p \in 0..MaxCandidates : LoadedTo(roots, k, p)
  BY DEF Loads
<1>. DEFINE c == Layout[roots[k]][p + 1]
<1>2. CASE OpenRoot
  BY <1>2, LoadOpens
<1>3. CASE VisitEntry
  <2>1. ~parsing /\ listing # <<>> /\ loaded < MaxSkills
    <3>1. ~parsing /\ listing # <<>> /\ ~(loaded >= MaxSkills) /\ k # 0
      BY <1>1, <1>3 DEF VisitEntry, RootDone, LoadedTo
    <3>2. loaded = Cardinality(SkillsUpTo(Layout[roots[k]], p)) /\ p \in Nat
      BY <1>1, <3>1, DiskAssumption DEF LoadedTo, InRoot, DiskAssumption
    <3>3. loaded \in Nat /\ MaxSkills \in Nat
      BY <3>2, SkillsUpToNext, DiskAssumption DEF DiskAssumption
    <3>. QED BY <3>1, <3>3
  <2>2. Head(listing) = p + 1 /\ Content(root, Head(listing)) = c /\ c \in Entries
    BY <1>1, <2>1, AtEntry DEF Facing
  <2>3. /\ UNCHANGED <<queue, root>>
        /\ \/ c = Nothing /\ listing' = Tail(listing) /\ UNCHANGED <<parsing, loaded, table>>
           \/ c.kind = "script" /\ Enter(c) /\ UNCHANGED parsing
           \/ parsing' = TRUE /\ UNCHANGED <<listing, loaded, table>>
    BY <1>3, <2>2 DEF VisitEntry
  <2>4. CASE c = Nothing /\ listing' = Tail(listing) /\ UNCHANGED <<parsing, loaded, table>>
    BY <1>1, <2>1, <2>3, <2>4, LoadSkips
  <2>5. CASE c.kind = "script" /\ Enter(c) /\ UNCHANGED parsing
    <3>1. IsSkill(c)
      BY <2>5 DEF IsSkill
    <3>. QED BY <1>1, <2>1, <2>3, <2>5, <3>1, LoadEnters
  <2>6. CASE parsing' = TRUE /\ UNCHANGED <<listing, loaded, table>>
    <3>1. Layout' = Layout
      BY LayoutStays
    <3>2. LoadedTo(roots, k, p)'
      BY <1>1, <2>1, <2>3, <2>6, <3>1 DEF LoadedTo, InRoot
    <3>. QED BY <2>6, <3>2 DEF Loads
  <2>. QED BY <2>3, <2>4, <2>5, <2>6
<1>4. CASE ParseEntry
  <2>1. parsing /\ listing # <<>> /\ loaded < MaxSkills
    BY <1>1, <1>4 DEF ParseEntry, LoadedTo
  <2>2. Head(listing) = p + 1 /\ Content(root, Head(listing)) = c /\ c \in Entries
    BY <1>1, <2>1, AtEntry DEF Facing
  <2>3. c.kind = "skill" /\ Enter(c) /\ parsing' = FALSE /\ UNCHANGED <<queue, root>>
    BY <1>4, <2>2 DEF ParseEntry
  <2>4. IsSkill(c)
    BY <2>3 DEF IsSkill
  <2>. QED BY <1>1, <2>1, <2>3, <2>4, LoadEnters
<1>. QED BY <1>2, <1>3, <1>4 DEF LoadStep

-----------------------------------------------------------------------------
(* The judgement over what config and request provide.                     *)

\* What the contract says of skills `given` and errors `told`.
Exact(given, told) ==
    LET effective == { Effective(Layout, n) : n \in Skill } \ {None}
        fit == { c \in effective : c.name \in allow /\ c.ready }
    IN  /\ given = IF Scoped THEN fit ELSE effective
        /\ told = NoErrors <=> Called(fit) = allow
        /\ \A r \in Roots : \A e \in Reached(Layout[r]) : Layout[r][e] # Broken

LEMMA ExactStays ==
    ASSUME UNCHANGED <<disk, gone, allow>>
    PROVE  Exact(skills', errors') => ResolutionIsExact'
BY LayoutStays DEF Exact, ResolutionIsExact, Scoped, Called

LEMMA FullStays ==
    ASSUME NEW roots, UNCHANGED <<disk, gone>>
    PROVE  \A t : Full(roots, t) => Full(roots, t)'
BY LayoutStays DEF Full

\* The merged table is judged as the contract says.
LEMMA JudgedExactly ==
    ASSUME NEW merged, Named(merged), \A n \in Skill : merged[n] = Effective(Layout, n), allow \subseteq Skill,
           \A r \in Roots : \A e \in Reached(Layout[r]) : Layout[r][e] # Broken
    PROVE  Exact(IF Scoped THEN Fit(CopiesIn(merged)) ELSE CopiesIn(merged),
                 IF Scoped THEN ScopeErrors(merged) ELSE NoErrors)
<1>. DEFINE effective == { Effective(Layout, n) : n \in Skill } \ {None}
            fit == { c \in effective : c.name \in allow /\ c.ready }
            told == IF Scoped THEN ScopeErrors(merged) ELSE NoErrors
<1>1. CopiesIn(merged) = effective
  BY DEF CopiesIn
<1>2. Fit(CopiesIn(merged)) = fit
  BY <1>1 DEF Fit, Allowed
<1>3. ASSUME Scoped PROVE ScopeErrors(merged) = NoErrors <=> Called(fit) = allow
  <2>1. ScopeErrors(merged) = NoErrors => Called(fit) = allow
    BY <1>2, JudgedRight
  <2>2. ASSUME Called(fit) = allow PROVE ScopeErrors(merged) = NoErrors
    <3>1. ASSUME NEW n \in allow PROVE merged[n] # None /\ merged[n].ready
      <4>1. PICK c \in fit : c.name = n
        BY <2>2 DEF Called
      <4>2. c \in CopiesIn(merged) /\ c.ready /\ c # None
        BY <1>1, <4>1
      <4>3. c = merged[n]
        BY <4>1, <4>2, CopiesAreNamed
      <4>. QED BY <4>2, <4>3
    <3>. QED BY <3>1 DEF ScopeErrors, NoErrors
  <2>. QED BY <2>1, <2>2
<1>4. ASSUME ~Scoped PROVE Called(fit) = allow
  BY <1>4 DEF Scoped, Called
<1>5. told = NoErrors <=> Called(fit) = allow
  BY <1>3, <1>4
<1>. QED BY <1>1, <1>2, <1>5 DEF Exact

LEMMA RootsAreListed ==
    ASSUME NEW r \in Roots
    PROVE  \/ \E i \in DOMAIN ConfigRoots : r = ConfigRoots[i]
           \/ \E i \in DOMAIN RequestRoots : r = RequestRoots[i]
BY DEF Roots, RootsOf

LEMMA RequestLoadedIsExact ==
    ASSUME FitInv, AtRest, RequestLoaded, UNCHANGED <<disk, gone, allow>>
    PROVE  ResolutionIsExact'
<1>. DEFINE merged == Merge(config, table)
<1>1. pc = "request" /\ RootDone /\ queue = <<>>
        /\ errors' = (IF Scoped THEN ScopeErrors(merged) ELSE NoErrors)
        /\ skills' = (IF Scoped THEN Fit(CopiesIn(merged)) ELSE CopiesIn(merged))
  BY DEF RequestLoaded
<1>2. Full(ConfigRoots, config)
  BY <1>1 DEF AtRest
<1>3. Full(RequestRoots, table)
  BY <1>1, LoadIsFull, RootLists DEF AtRest, DiskTyped
<1>4. \A n \in Skill : merged[n] = Effective(Layout, n)
  BY <1>2, <1>3 DEF Full, Merge, Effective
<1>5. Named(merged) /\ allow \subseteq Skill
  BY MergeKeepsNames DEF FitInv
<1>6. \A r \in Roots : \A e \in Reached(Layout[r]) : Layout[r][e] # Broken
  BY <1>2, <1>3, RootsAreListed DEF Full
<1>7. Exact(skills', errors')
  <2>1. Exact(IF Scoped THEN Fit(CopiesIn(merged)) ELSE CopiesIn(merged),
              IF Scoped THEN ScopeErrors(merged) ELSE NoErrors)
    <3>. HIDE DEF merged
    <3>. QED BY <1>4, <1>5, <1>6, JudgedExactly
  <2>. QED BY <1>1, <2>1
<1>. QED BY <1>7, ExactStays

LEMMA RestInit == Init => RestInv
<1>. SUFFICES ASSUME Init PROVE RestInv
  OBVIOUS
<1>1. disk \in [Roots -> Seq(Entries)]
  BY DiskAssumption DEF Init, DiskAssumption
<1>2. <<>> \in Seq(Nat)
  OBVIOUS
<1>. QED BY <1>1, <1>2 DEF Init, RestInv, AtRest, ResolutionIsExact

\* A step that leaves the disk alone.
LEMMA RestStep ==
    ASSUME FitInv, RootInv, AtRest, CallStep
    PROVE  AtRest'
<1>1. UNCHANGED <<disk, gone, allow>> /\ disk' \in [Roots -> Seq(Entries)]
  BY DEF CallStep, diskVars, AtRest
<1>2. pc' # "resolved" => ResolutionIsExact'
  BY DEF ResolutionIsExact
<1>3. ASSUME config' = config, Full(ConfigRoots, config) PROVE Full(ConfigRoots, config)'
  <2>1. Full(ConfigRoots, config')
    BY <1>3
  <2>. QED BY <1>1, <2>1, LayoutStays DEF Full
<1>4. CASE Start
  <2>1. CASE pc' = "config" /\ BeginLoad(ConfigRoots)
    BY <1>1, <1>2, <2>1, LoadBegins, RootLists DEF AtRest
  <2>2. CASE pc' = "failed" /\ UNCHANGED loadVars
    BY <1>1, <1>2, <2>2 DEF AtRest, loadVars
  <2>. QED BY <1>4, <2>1, <2>2 DEF Start, Fail
<1>5. CASE LoadStep
  <2>1. pc \in {"config", "request"} /\ config' = config /\ (pc' = pc \/ pc' = "failed")
    BY <1>5 DEF LoadStep, OpenRoot, VisitEntry, ParseEntry, Loading, scopeVars
  <2>2. CASE pc' = "failed"
    <3>1. listing' = listing /\ parsing' = parsing
      BY <1>5, <2>1, <2>2 DEF LoadStep, OpenRoot, VisitEntry, ParseEntry
    <3>. QED BY <1>1, <1>2, <2>2, <3>1 DEF AtRest
  <2>3. ASSUME pc' # "failed", pc = "config" PROVE AtRest'
    <3>1. Loads(ConfigRoots)' /\ listing' \in Seq(Nat) /\ parsing' \in BOOLEAN
      BY <1>1, <1>5, <2>3, LoadGoesOn, RootLists DEF AtRest, DiskTyped, FitInv, RootInv
    <3>. QED BY <1>1, <1>2, <2>1, <2>3, <3>1 DEF AtRest
  <2>4. ASSUME pc' # "failed", pc = "request" PROVE AtRest'
    <3>1. Loads(RequestRoots)' /\ listing' \in Seq(Nat) /\ parsing' \in BOOLEAN
      BY <1>1, <1>5, <2>4, LoadGoesOn, RootLists DEF AtRest, DiskTyped, FitInv, RootInv
    <3>2. Full(ConfigRoots, config)'
      BY <1>3, <2>1, <2>4 DEF AtRest
    <3>. QED BY <1>1, <1>2, <2>1, <2>4, <3>1, <3>2 DEF AtRest
  <2>. QED BY <2>1, <2>2, <2>3, <2>4
<1>6. CASE ConfigLoaded
  <2>1. pc = "config" /\ RootDone /\ queue = <<>> /\ config' = table /\ BeginLoad(RequestRoots)
          /\ pc' \in {"roots", "request"}
    BY <1>6 DEF ConfigLoaded
  <2>2. Full(ConfigRoots, table)
    BY <2>1, LoadIsFull, RootLists DEF AtRest, DiskTyped
  <2>3. Full(ConfigRoots, config)'
    <3>1. Full(ConfigRoots, config')
      BY <2>1, <2>2
    <3>. QED BY <1>1, <3>1, LayoutStays DEF Full
  <2>4. Loads(RequestRoots)' /\ listing' \in Seq(Nat) /\ parsing' = FALSE
    BY <2>1, LoadBegins, RootLists
  <2>. QED BY <1>1, <1>2, <2>1, <2>3, <2>4 DEF AtRest
<1>7. CASE StatRoot
  <2>1. pc = "roots" /\ pc' = pc /\ config' = config /\ listing' = listing /\ parsing' = parsing
    BY <1>7 DEF StatRoot, loadVars
  <2>2. Full(ConfigRoots, config)'
    BY <1>3, <2>1 DEF AtRest
  <2>. QED BY <1>1, <1>2, <2>1, <2>2 DEF AtRest
<1>8. CASE RootsChecked
  <2>1. pc = "roots" /\ config' = config
    BY <1>8 DEF RootsChecked
  <2>2. CASE missing # {}
    <3>1. pc' = "resolved" /\ errors' = {Problem("SKILL_ROOT_MISSING", missing)}
            /\ listing' = listing /\ parsing' = parsing
      BY <1>8, <2>2 DEF RootsChecked, loadVars
    <3>2. ResolutionIsExact'
      BY <3>1 DEF ResolutionIsExact, Problem
    <3>. QED BY <1>1, <3>1, <3>2 DEF AtRest
  <2>3. CASE missing = {}
    <3>1. pc' = "request" /\ BeginLoad(RequestRoots)
      BY <1>8, <2>3 DEF RootsChecked
    <3>2. Loads(RequestRoots)' /\ listing' \in Seq(Nat) /\ parsing' = FALSE
      BY <3>1, LoadBegins, RootLists
    <3>3. Full(ConfigRoots, config)'
      BY <1>3, <2>1 DEF AtRest
    <3>. QED BY <1>1, <1>2, <3>1, <3>2, <3>3 DEF AtRest
  <2>. QED BY <2>2, <2>3
<1>9. CASE RequestLoaded
  <2>1. ResolutionIsExact'
    BY <1>1, <1>9, RequestLoadedIsExact
  <2>2. pc' = "resolved" /\ listing' = listing /\ parsing' = parsing
    BY <1>9 DEF RequestLoaded, loadVars
  <2>. QED BY <1>1, <2>1, <2>2 DEF AtRest
<1>10. CASE RunTask \/ RunAction
  <2>1. pc' \in {"running", "failed"} /\ listing' = listing /\ parsing' = parsing
    BY <1>10 DEF RunTask, RunAction, Fail, loadVars
  <2>. QED BY <1>1, <1>2, <2>1 DEF AtRest
<1>. QED BY <1>4, <1>5, <1>6, <1>7, <1>8, <1>9, <1>10 DEF CallStep, Resolve, ResolveStep

LEMMA RestNext == FitInv /\ RootInv /\ RestInv /\ [Next]_vars => RestInv'
<1>. SUFFICES ASSUME FitInv, RootInv, RestInv, [Next]_vars PROVE RestInv'
  OBVIOUS
<1>1. CASE CallStep
  <2>1. changes' = changes
    BY <1>1 DEF CallStep, diskVars
  <2>. QED BY <1>1, <2>1, RestStep DEF RestInv
<1>2. CASE DiskStep
  <2>1. changes' = changes + 1
    BY <1>2 DEF DiskStep, ToggleRoot, AlterSkill, Changed
  <2>. QED BY <2>1 DEF RestInv
<1>3. CASE UNCHANGED vars
  <2>1. UNCHANGED <<disk, gone, changes, allow, pc, queue, root, listing, parsing, loaded, table>>
    BY <1>3 DEF vars, diskVars, loadVars
  <2>2. UNCHANGED <<config, skills, errors>> /\ Layout' = Layout
    BY <1>3, <2>1, LayoutStays DEF vars, scopeVars
  <2>3. ResolutionIsExact => ResolutionIsExact'
    BY <2>1, <2>2 DEF ResolutionIsExact, Scoped, Called
  <2>4. \A roots : (Loads(roots) => Loads(roots)')
    BY <2>1, <2>2 DEF Loads, LoadedTo, InRoot
  <2>5. Full(ConfigRoots, config) => Full(ConfigRoots, config)'
    BY <2>1, <2>2 DEF Full
  <2>. QED BY <2>1, <2>2, <2>3, <2>4, <2>5 DEF RestInv, AtRest
<1>. QED BY <1>1, <1>2, <1>3 DEF Next

\* On a disk at rest a call resolves as the contract says: the effective copies
\* of config and request, an error for what is absent or not ready, and no
\* broken skill passed over (src/skills/resolve.ts:95-128, loader.ts:35-115).
THEOREM ResolutionsAreExact == Spec => []ResolutionIsExact
<1>1. RestInv => ResolutionIsExact
  BY DEF RestInv, AtRest, ResolutionIsExact
<1> QED
  BY <1>1, FitInit, FitNext, RootInit, RootNext, RestInit, RestNext, PTL DEF Spec

=============================================================================
