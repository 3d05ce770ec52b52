------------------------------ MODULE SkillScope ------------------------------
(***************************************************************************)
(* src/skills/loader.ts and src/skills/resolve.ts: from the directories of *)
(* the config and of a request to the skills the request may use.          *)
(*                                                                         *)
(* resolveSkillsForRequest() loads the config's roots, checks that the     *)
(* request's roots exist, loads those, merges and judges. Between any two  *)
(* of its file operations the disk may change: a root goes or comes, a     *)
(* skill is removed, a command it requires is installed or removed. A root *)
(* is a sequence of entries in the order of their names.                   *)
(***************************************************************************)
EXTENDS Naturals, Sequences, FiniteSets

CONSTANTS
    Skill,          \* skill names
    None,           \* no root, no skill
    ConfigRoots,    \* the system's skills, then config.skills.dirs
    RequestRoots,   \* skillDirs of the request
    Disks,          \* the disks a call may start with
    MaxCandidates,  \* MAX_CANDIDATES_PER_ROOT
    MaxSkills,      \* MAX_SKILLS_PER_ROOT
    MaxChanges      \* bound of the model: changes of the disk during the call

VARIABLES
    disk,       \* the entries of each root
    gone,       \* the roots that do not exist now
    changes,
    allow,      \* the allowlist of the request; none given is the empty one
    pc,
    queue,      \* roots still to load or to check
    root,       \* the root being loaded
    listing,    \* entries of it still to visit
    parsing,    \* its SKILL.md has been seen and is about to be read
    loaded,     \* skills loaded from it
    table,      \* skillMap: name to copy
    config,     \* configSkills
    missing,    \* missingDirs
    skills,     \* the copies returned
    errors      \* the errors returned

diskVars == <<disk, gone, changes>>
loadVars == <<root, listing, parsing, loaded, table>>
scopeVars == <<config, missing, skills, errors>>

RootsOf(list) == { list[i] : i \in DOMAIN list }

Roots == RootsOf(ConfigRoots) \cup RootsOf(RequestRoots)

ASSUME RootLists == ConfigRoots \in Seq(Roots) /\ RequestRoots \in Seq(Roots)

\* What an entry of a root can be: not a skill; a directory whose SKILL.md
\* cannot be parsed or is too large; a skill, which may declare the action;
\* a directory with a script only, which requires and declares nothing.
Nothing == [kind |-> "nothing"]
Broken == [kind |-> "broken"]
SkillMd(n, ready, acts) == [kind |-> "skill", name |-> n, ready |-> ready, acts |-> acts]
Script(n) == [kind |-> "script", name |-> n, ready |-> TRUE, acts |-> FALSE]

Entries ==
    {Nothing, Broken} \cup { Script(n) : n \in Skill }
        \cup { SkillMd(n, ready, acts) : n \in Skill, ready \in BOOLEAN, acts \in BOOLEAN }

ASSUME DiskAssumption ==
    /\ Disks \subseteq [Roots -> Seq(Entries)]
    /\ MaxCandidates \in Nat /\ MaxSkills \in Nat
    /\ None \notin [root : Roots, name : Skill, ready : BOOLEAN, acts : BOOLEAN]

IsSkill(c) == c.kind \in {"skill", "script"}

Empty == [n \in Skill |-> None]

NoErrors == {}
Problem(code, about) == [code |-> code, about |-> about]

Scoped == allow # {}

-----------------------------------------------------------------------------
(* The disk.                                                               *)

Content(r, e) == IF r \in gone THEN Nothing ELSE disk[r][e]

Changed == changes < MaxChanges /\ changes' = changes + 1

\* A root is removed or created.
ToggleRoot(r) ==
    /\ Changed
    /\ gone' = IF r \in gone THEN gone \ {r} ELSE gone \cup {r}
    /\ UNCHANGED disk

\* A skill is removed, or what it requires comes or goes.
AlterSkill(r, e) ==
    /\ IsSkill(Content(r, e))
    /\ Changed
    /\ \/ disk' = [disk EXCEPT ![r][e] = Nothing]
       \/ disk[r][e].kind = "skill" /\ disk' = [disk EXCEPT ![r][e].ready = ~@]
    /\ UNCHANGED gone

-----------------------------------------------------------------------------
(* loadSkills() and loadSkillsFromDirs(): one root after the other.        *)

BeginLoad(roots) ==
    /\ queue' = roots
    /\ root' = None /\ listing' = <<>> /\ parsing' = FALSE
    /\ loaded' = 0
    /\ table' = Empty

Loading == pc \in {"config", "request"}

RootDone == ~parsing /\ (listing = <<>> \/ loaded >= MaxSkills)

Candidates(r) == { e \in DOMAIN disk[r] : e <= MaxCandidates }

\* realpath() and readdir(): a root that does not exist is skipped.
OpenRoot ==
    /\ Loading /\ RootDone /\ queue # <<>>
    /\ root' = Head(queue) /\ queue' = Tail(queue)
    /\ listing' = IF root' \in gone THEN <<>>
                  ELSE [e \in Candidates(root') |-> e]
    /\ loaded' = 0
    /\ UNCHANGED <<pc, parsing, table, scopeVars>>

CopyOf(r, c) == [root |-> r, name |-> c.name, ready |-> c.ready, acts |-> c.acts]

\* skillMap.set(): the last of a name wins.
Enter(c) ==
    /\ table' = [table EXCEPT ![c.name] = CopyOf(root, c)]
    /\ loaded' = loaded + 1
    /\ listing' = Tail(listing)

\* The next entry: skipped, entered, or about to be read.
VisitEntry ==
    /\ Loading /\ ~RootDone /\ ~parsing
    /\ LET c == Content(root, Head(listing))
       IN  \/ /\ c = Nothing
              /\ listing' = Tail(listing)
              /\ UNCHANGED <<parsing, loaded, table>>
           \/ c.kind = "script" /\ Enter(c) /\ UNCHANGED parsing
           \/ /\ c.kind \in {"skill", "broken"}
              /\ parsing' = TRUE
              /\ UNCHANGED <<listing, loaded, table>>
    /\ UNCHANGED <<pc, queue, root, scopeVars>>

\* readFile() and the parser; what they throw ends the whole call.
ParseEntry ==
    /\ Loading /\ parsing
    /\ LET c == Content(root, Head(listing))
       IN  \/ /\ c.kind = "skill" /\ Enter(c)
              /\ parsing' = FALSE
              /\ UNCHANGED <<pc, errors>>
           \/ /\ c.kind # "skill"
              /\ pc' = "failed" /\ errors' = {Problem("EXCEPTION", None)}
              /\ UNCHANGED <<table, loaded, listing, parsing>>
    /\ UNCHANGED <<queue, root, config, missing, skills>>

-----------------------------------------------------------------------------
(* resolveSkillsForRequest().                                              *)

CopiesIn(t) == { t[n] : n \in Skill } \ {None}

Allowed(copies) == { c \in copies : c.name \in allow }

\* The skills a scoped request may use.
Fit(copies) == { c \in Allowed(copies) : c.ready }

ConfigLoaded ==
    /\ pc = "config" /\ RootDone /\ queue = <<>>
    /\ config' = table
    /\ pc' = IF Scoped THEN "roots" ELSE "request"
    /\ BeginLoad(RequestRoots)
    /\ UNCHANGED <<missing, skills, errors>>

OnlyLastMissing(r) == IF r \in gone THEN {r} ELSE {}

MissingWith(r) == IF r \in gone THEN missing \cup {r} ELSE missing

\* stat() of the next root of a scoped request.
StatRoot ==
    /\ pc = "roots" /\ queue # <<>>
    /\ missing' = MissingWith(Head(queue))
    /\ queue' = Tail(queue)
    /\ UNCHANGED <<pc, loadVars, config, skills, errors>>

RootsChecked ==
    /\ pc = "roots" /\ queue = <<>>
    /\ IF missing # {}
       THEN /\ errors' = {Problem("SKILL_ROOT_MISSING", missing)}
            /\ skills' = Fit(CopiesIn(config))
            /\ pc' = "resolved"
            /\ UNCHANGED <<queue, loadVars>>
       ELSE /\ pc' = "request"
            /\ BeginLoad(RequestRoots)
            /\ UNCHANGED <<skills, errors>>
    /\ UNCHANGED <<config, missing>>

MergeRequestFirst(c, r) == [n \in Skill |-> IF r[n] # None THEN r[n] ELSE c[n]]

\* The copy of the config wins.
Merge(c, r) == [n \in Skill |-> IF c[n] # None THEN c[n] ELSE r[n]]

ScopeErrorsOfAllClasses(merged) ==
    { Problem("SKILL_NOT_FOUND", n) : n \in { m \in allow : merged[m] = None } }
        \cup { Problem("SKILL_NOT_READY", n) :
                  n \in { m \in allow : merged[m] # None /\ ~merged[m].ready } }

ScopeErrors(merged) ==
    LET absent == { n \in allow : merged[n] = None }
        unready == { n \in allow \ absent : ~merged[n].ready }
    IN  IF absent # {}
        THEN { Problem("SKILL_NOT_FOUND", n) : n \in absent }
        ELSE { Problem("SKILL_NOT_READY", n) : n \in unready }

RequestLoaded ==
    /\ pc = "request" /\ RootDone /\ queue = <<>>
    /\ LET merged == Merge(config, table)
       IN  /\ errors' = IF Scoped THEN ScopeErrors(merged) ELSE NoErrors
           /\ skills' = IF Scoped THEN Fit(CopiesIn(merged)) ELSE CopiesIn(merged)
    /\ pc' = "resolved"
    /\ UNCHANGED <<queue, loadVars, config, missing>>

LoadStep == OpenRoot \/ VisitEntry \/ ParseEntry

ResolveStep == ConfigLoaded \/ StatRoot \/ RootsChecked \/ RequestLoaded

=============================================================================
