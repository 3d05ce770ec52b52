------------------------------- MODULE TaskApi --------------------------------
(***************************************************************************)
(* src/task/execute.ts, src/task/action.ts and src/task/request.ts: a call *)
(* of executeTask() or executeSkillAction(), from its arguments to the     *)
(* runtime chain or to a structured error.                                 *)
(*                                                                         *)
(* The config is loaded, the skills are resolved (SkillScope), and for an  *)
(* action the target, the action and its inputs are checked. Whatever is   *)
(* thrown on the way ends the call with an error and no runtime.           *)
(***************************************************************************)
EXTENDS SkillScope, FiniteSetsExt

CONSTANTS
    Input,          \* names of inputs, declared or not
    Required,       \* the inputs the action requires
    Defaulted,      \* those it has a default for
    Declared        \* all it declares

ASSUME InputsAreDeclared == Required \subseteq Declared /\ Defaulted \subseteq Declared

VARIABLES
    kind,       \* "task" or "action"
    listed,     \* the caller has given an allowlist
    target,     \* the skill of an action
    supplied,   \* the inputs of an action
    inputs,     \* resolvedInputs: from the caller, or from a default
    roots0,     \* history: the roots missing when the call began
    toggled     \* history: the roots removed or created since

callVars == <<kind, listed, target, supplied>>
historyVars == <<roots0, toggled>>
vars == <<diskVars, allow, pc, queue, loadVars, scopeVars, callVars, inputs, historyVars>>

\* The allowlist of an action is [skill] unless the caller gives one, by hand
\* or through buildExecuteSkillActionRequest(); that of a task is empty.
EffectiveAllowlist(k, given, l, t) ==
    IF given THEN l ELSE IF k = "action" THEN {t} ELSE {}

Init ==
    /\ disk \in Disks
    /\ gone \in SUBSET Roots /\ changes = 0
    /\ kind \in {"task", "action"} /\ target \in Skill
    /\ listed \in BOOLEAN
    /\ \E l \in SUBSET Skill : allow = EffectiveAllowlist(kind, listed, l, target)
    /\ pc = "new"
    /\ queue = <<>> /\ root = None /\ listing = <<>> /\ parsing = FALSE
    /\ loaded = 0 /\ table = Empty /\ config = Empty
    /\ missing = {} /\ skills = {} /\ errors = NoErrors
    /\ supplied = {} /\ inputs = {}
    /\ roots0 = gone /\ toggled = {}

Fail(problems) == pc' = "failed" /\ errors' = problems

\* The prompt is checked, and the config loaded; both may end the call.
Start ==
    /\ pc = "new"
    /\ \/ pc' = "config" /\ BeginLoad(ConfigRoots) /\ UNCHANGED errors
       \/ /\ Fail({Problem("EXCEPTION", None)})
          /\ UNCHANGED <<queue, loadVars>>
    /\ UNCHANGED <<config, missing, skills, supplied, inputs>>

TargetUnchecked == TRUE

TargetAllowed == listed => target \in allow

Target == { c \in skills : c.name = target }

\* The guards of executeSkillAction() after the resolver, in their order.
ActionErrors(given) ==
    IF ~TargetAllowed THEN {Problem("SKILL_NOT_FOUND", target)}
    ELSE IF Target = {} THEN {Problem("SKILL_NOT_FOUND", target)}
    ELSE IF \A c \in Target : ~c.acts THEN {Problem("ACTION_NOT_FOUND", target)}
    ELSE { Problem("MISSING_REQUIRED_INPUT", i) : i \in Required \ given }
             \cup { Problem("UNKNOWN_INPUT", i) : i \in given \ Declared }

\* What the prompt lists: the inputs of the caller and the defaults.
ResolvedInputs(given) ==
    { [name |-> i, by |-> "caller"] : i \in given }
        \cup { [name |-> i, by |-> "default"] : i \in Defaulted \ given }

RunTask ==
    /\ pc = "resolved" /\ kind = "task"
    /\ IF errors # NoErrors THEN Fail(errors) ELSE pc' = "running" /\ UNCHANGED errors
    /\ UNCHANGED <<queue, loadVars, config, missing, skills, supplied, inputs>>

RunAction ==
    /\ pc = "resolved" /\ kind = "action"
    /\ supplied' \in SUBSET Input
    /\ LET found == IF errors # NoErrors THEN errors ELSE ActionErrors(supplied')
       IN  IF found # NoErrors
           THEN Fail(found) /\ UNCHANGED inputs
           ELSE /\ pc' = "running" /\ inputs' = ResolvedInputs(supplied')
                /\ UNCHANGED errors
    /\ UNCHANGED <<queue, loadVars, config, missing, skills>>

Resolve ==
    /\ LoadStep \/ ResolveStep
    /\ UNCHANGED <<supplied, inputs>>

CallStep ==
    /\ Start \/ Resolve \/ RunTask \/ RunAction
    /\ UNCHANGED <<diskVars, allow, kind, listed, target, historyVars>>

\* The disk changes while the call is under way.
DiskStep ==
    /\ pc \notin {"running", "failed"}
    /\ \E r \in Roots :
           \/ ToggleRoot(r) /\ toggled' = toggled \cup {r}
           \/ (\E e \in DOMAIN disk[r] : AlterSkill(r, e)) /\ UNCHANGED toggled
    /\ UNCHANGED <<allow, pc, queue, loadVars, scopeVars, callVars, inputs, roots0>>

Next == CallStep \/ DiskStep

Spec == Init /\ [][Next]_vars

-----------------------------------------------------------------------------
(* What a call promises.                                                   *)

Called(copies) == { c.name : c \in copies }

\* Whatever the disk does during the call, the runtime is given one copy of a
\* skill at most; for a scoped request, every allowed skill, ready when it was
\* read, and nothing else; for an action, the target, which declares the action,
\* every required input from the caller, and no input that is not declared
\* (skills/resolve.ts:7 "every allowlisted skill must be discoverable and
\* ready"; task/action.ts:35-41).
NothingUnfitRuns ==
    pc = "running" =>
        /\ \A c, d \in skills : c.name = d.name => c = d
        /\ Scoped => Called(skills) = allow /\ \A c \in skills : c.ready
        /\ kind = "action" =>
              /\ listed => target \in allow
              /\ \E c \in skills : c.name = target /\ c.acts
              /\ \A i \in Required : [name |-> i, by |-> "caller"] \in inputs
              /\ \A i \in inputs : i.name \in Declared

\* On every path, also with errors, what a scoped resolution returns is
\* allowed and ready, and its errors are of one class
\* (skills/resolve.ts:121-128).
ScopeHoldsOnEveryPath ==
    pc = "resolved" /\ Scoped =>
        /\ \A c \in skills : c.ready /\ c.name \in allow
        /\ \A p, q \in errors : p.code = q.code

\* The roots of the request that have been missing since the call began.
SteadilyMissing == (roots0 \ toggled) \cap RootsOf(RequestRoots)

\* A root of a scoped request that is missing throughout the call is named in
\* the one error of the call, whatever other request roots do, unless the call
\* ends in an exception: the config and its skills are loaded first, and a
\* SKILL.md there that does not parse ends the call before any request root is
\* looked at (skills/resolve.ts:142, loader.ts:131), although a missing root
\* "wins outright" (resolve.ts:55). A call that blames a root has seen it missing.
MissingRootIsNamed ==
    Scoped =>
        /\ \A r \in SteadilyMissing :
              /\ pc # "running"
              /\ \A p \in errors :
                    \/ p.code = "EXCEPTION"
                    \/ p.code = "SKILL_ROOT_MISSING" /\ r \in p.about
        /\ \A p \in errors :
              p.code = "SKILL_ROOT_MISSING" => p.about \subseteq roots0 \cup toggled

-----------------------------------------------------------------------------
(* The resolution by its contract, for a disk that does not change.        *)

\* What each root shows: one that is gone is as good as empty.
Layout == [r \in Roots |-> IF r \in gone THEN <<>> ELSE disk[r]]

SkillsUpTo(s, e) == { d \in 1..e : IsSkill(s[d]) }

\* The entries of a root that are looked into.
Reached(s) ==
    { e \in DOMAIN s : e <= MaxCandidates /\ Cardinality(SkillsUpTo(s, e - 1)) < MaxSkills }

Holds(c, n) == IsSkill(c) /\ c.name = n

\* The copy of a skill that a list of roots provides: of the last root that
\* has one, the last.
Provided(layout, roots, n) ==
    LET has(i) == { e \in Reached(layout[roots[i]]) : Holds(layout[roots[i]][e], n) }
        having == { i \in DOMAIN roots : has(i) # {} }
        i == Max(having)
    IN  IF having = {} THEN None ELSE CopyOf(roots[i], layout[roots[i]][Max(has(i))])

Effective(layout, n) ==
    IF Provided(layout, ConfigRoots, n) # None THEN Provided(layout, ConfigRoots, n)
    ELSE Provided(layout, RequestRoots, n)

\* A call on a disk at rest resolves as the contract says: the skills given,
\* with or without a scope, are the effective copies of config and request,
\* and a scoped call without errors is one whose skills are all found and
\* ready (skills/resolve.ts:95-128, skills/loader.ts:35).
ResolutionIsExact ==
    /\ changes = 0
    /\ pc = "resolved"
    /\ \A p \in errors : p.code # "SKILL_ROOT_MISSING"
    =>
        LET effective == { Effective(Layout, n) : n \in Skill } \ {None}
            fit == { c \in effective : c.name \in allow /\ c.ready }
        IN  /\ skills = IF Scoped THEN fit ELSE effective
            /\ errors = NoErrors <=> Called(fit) = allow
            /\ \A r \in Roots : \A e \in Reached(Layout[r]) : Layout[r][e] # Broken

=============================================================================
