------------------------------ MODULE MCTaskApi -------------------------------
(***************************************************************************)
(* TaskApi for TLC: two skills; a config with the system's root and one    *)
(* directory, a request with two; roots of up to four entries, chosen so   *)
(* that copies of a skill meet in one root, across roots, and across       *)
(* config and request, and that each cap of a root cuts one off.           *)
(***************************************************************************)
EXTENDS TaskApi

CONSTANTS s, t

MCConfigRoots == <<"system", "dir">>
MCRequestRoots == <<"first", "second">>

Good(n) == SkillMd(n, TRUE, TRUE)
Unready(n) == SkillMd(n, FALSE, TRUE)

MCDisks ==
    [ system : {<<Script(s)>>, <<>>},
      dir    : {<<Nothing>>, <<Good(s), Unready(s)>>, <<Broken>>},
      first  : {<<Good(t)>>, <<Nothing, Unready(t), Nothing, Good(t)>>},
      second : {<<>>, <<Good(s), Good(t), Broken>>} ]

=============================================================================
