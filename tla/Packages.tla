------------------------------ MODULE Packages ------------------------------
(***************************************************************************)
(* (module m :use [:p ...]): how fl-build.sh makes C functions out of the  *)
(* profiles a program names.  fl-resolve-deps-profiles turns profiles into *)
(* packages and packages into metadata, fl-generate-user-fns turns those   *)
(* into runtime/user-fns.c, and gcc compiles it.  fl-build-plan has a      *)
(* resolver of its own, for the plan it prints.                            *)
(***************************************************************************)
EXTENDS Naturals, Sequences

CONSTANTS
    Repositories,   \* the profiles and packages there may be, see Good
    UseLists        \* the lists of profiles a program may name

\* the resolver reports each profile on the standard output it prints packages to
Mark == "mark"

\* names of profiles and packages
Word == STRING

Metadata == [name : Word, skip : BOOLEAN, readable : BOOLEAN]

ASSUME PackagesAssumption ==
    /\ \A r \in Repositories :
          /\ \A p \in DOMAIN r.profiles : r.profiles[p].packages \in Seq(Word)
          /\ \A q \in DOMAIN r.packages : r.packages[q] \in Metadata
          /\ Mark \notin DOMAIN r.packages
    /\ \A u \in UseLists : u \in Seq(Word)

VARIABLES
    repo,       \* profiles and packages: names to what their files say
    uses,       \* the profiles of :use
    prof, item, \* the loop that runs: its profile and its element
    planned,    \* all_packages of the plan
    packages,   \* all_packages of the resolver
    seen,       \* seen_before: how many of them there were before this profile
    chosen,     \* RESOLVE_PACKAGES, the lines the resolver printed
    metas,      \* the metadata of the packages
    functions,  \* the names of the C functions of user-fns.c
    pkgStage    \* what runs; "generated" or "failed" in the end

pkgVars == <<repo, uses, prof, item, planned, packages, seen, chosen, metas, functions, pkgStage>>

Listed(seq) == {seq[i] : i \in DOMAIN seq}
Known(p) == p \in DOMAIN repo.profiles
Items(p) == IF Known(p) THEN repo.profiles[p].packages ELSE <<>>

(***************************************************************************)
(* Packages to C.                                                          *)
(***************************************************************************)
\* normalize_name_copy: - becomes _
Normal(n) == IF n = "a-b" THEN "a_b" ELSE n

Body(m) == <<"ufl", Normal(m.name)>>
Shim(m) == <<"fl", Normal(m.name)>>

(***************************************************************************)
PkgInit ==
    /\ repo \in Repositories
    /\ uses \in UseLists
    /\ prof = 1 /\ item = 1 /\ seen = 0
    /\ planned = <<>> /\ packages = <<>> /\ chosen = <<>> /\ metas = <<>> /\ functions = <<>>
    /\ pkgStage = "planning"

(***************************************************************************)
(* The plan.  A build reads nothing it leaves; it comes first here, for    *)
(* the two to be compared.                                                 *)
(***************************************************************************)
\* resolve_profiles: a package is listed once, wherever it comes from; a profile that
\* is missing has none
PlanPackage ==
    /\ pkgStage = "planning"
    /\ prof <= Len(uses) /\ item <= Len(Items(uses[prof]))
    /\ LET q == Items(uses[prof])[item] IN
       planned' = IF q \in Listed(planned) THEN planned ELSE Append(planned, q)
    /\ item' = item + 1
    /\ UNCHANGED <<repo, uses, prof, packages, seen, chosen, metas, functions, pkgStage>>

PlanNextProfile ==
    /\ pkgStage = "planning"
    /\ prof <= Len(uses) /\ item > Len(Items(uses[prof]))
    /\ prof' = prof + 1 /\ item' = 1
    /\ UNCHANGED <<repo, uses, planned, packages, seen, chosen, metas, functions, pkgStage>>

\* the build follows; it resolves only for a program that names profiles
Build ==
    /\ pkgStage = "planning"
    /\ prof > Len(uses) /\ uses # <<>>
    /\ prof' = 1 /\ item' = 0
    /\ pkgStage' = "resolving"
    /\ UNCHANGED <<repo, uses, planned, packages, seen, chosen, metas, functions>>

(***************************************************************************)
(* Profiles to packages.  Between profiles item is 0.                      *)
(***************************************************************************)
\* a profile that is missing is passed over, one that cannot be read ends the build
OpenProfile ==
    /\ pkgStage = "resolving" /\ item = 0
    /\ prof <= Len(uses)
    /\ \/ /\ ~Known(uses[prof])
          /\ prof' = prof + 1
          /\ UNCHANGED <<item, seen, chosen, pkgStage>>
       \/ /\ Known(uses[prof]) /\ repo.profiles[uses[prof]].readable
          /\ chosen' = Append(chosen, Mark)
          /\ item' = 1 /\ seen' = Len(packages)
          /\ UNCHANGED <<prof, pkgStage>>
       \/ /\ Known(uses[prof]) /\ ~repo.profiles[uses[prof]].readable
          /\ pkgStage' = "failed"
          /\ UNCHANGED <<prof, item, seen, chosen>>
    /\ UNCHANGED <<repo, uses, planned, packages, metas, functions>>

\* mutant: nothing is compared
CollectedAll(q) == Append(packages, q)

\* what an earlier profile has listed is left out
Collected(q) == IF \E i \in 1 .. seen : packages[i] = q THEN packages ELSE Append(packages, q)

CollectPackage ==
    /\ pkgStage = "resolving" /\ item > 0
    /\ item <= Len(Items(uses[prof]))
    /\ packages' = Collected(Items(uses[prof])[item])
    /\ item' = item + 1
    /\ UNCHANGED <<repo, uses, prof, planned, seen, chosen, metas, functions, pkgStage>>

CloseProfile ==
    /\ pkgStage = "resolving" /\ item > 0
    /\ item > Len(Items(uses[prof]))
    /\ prof' = prof + 1 /\ item' = 0
    /\ UNCHANGED <<repo, uses, planned, packages, seen, chosen, metas, functions, pkgStage>>

PrintPackages ==
    /\ pkgStage = "resolving" /\ item = 0 /\ prof > Len(uses)
    /\ chosen' = chosen \o packages
    /\ item' = 1 /\ pkgStage' = "resolved"
    /\ UNCHANGED <<repo, uses, prof, planned, packages, seen, metas, functions>>

(***************************************************************************)
(* Packages to metadata: those that are missing, the reports of the        *)
(* resolver among them, are passed over.                                   *)
(***************************************************************************)
CollectMetadata ==
    /\ pkgStage = "resolved" /\ item <= Len(chosen)
    /\ \/ /\ chosen[item] \notin DOMAIN repo.packages
          /\ item' = item + 1
          /\ UNCHANGED <<metas, pkgStage>>
       \/ /\ chosen[item] \in DOMAIN repo.packages /\ repo.packages[chosen[item]].readable
          /\ metas' = Append(metas, repo.packages[chosen[item]])
          /\ item' = item + 1
          /\ UNCHANGED pkgStage
       \/ /\ chosen[item] \in DOMAIN repo.packages /\ ~repo.packages[chosen[item]].readable
          /\ pkgStage' = "failed"
          /\ UNCHANGED <<item, metas>>
    /\ UNCHANGED <<repo, uses, prof, planned, packages, seen, chosen, functions>>

PrintMetadata ==
    /\ pkgStage = "resolved" /\ item > Len(chosen)
    /\ item' = 1 /\ pkgStage' = "described"
    /\ UNCHANGED <<repo, uses, prof, planned, packages, seen, chosen, metas, functions>>

(***************************************************************************)
(* emit_user_fns: the bodies, then a shim for each that does not do        *)
(* without.                                                                *)
(***************************************************************************)
EmitBody ==
    /\ pkgStage = "described" /\ item <= Len(metas)
    /\ functions' = Append(functions, Body(metas[item]))
    /\ item' = item + 1
    /\ UNCHANGED <<repo, uses, prof, planned, packages, seen, chosen, metas, pkgStage>>

BeginShims ==
    /\ pkgStage = "described" /\ item > Len(metas)
    /\ item' = 1 /\ pkgStage' = "shims"
    /\ UNCHANGED <<repo, uses, prof, planned, packages, seen, chosen, metas, functions>>

EmitShim ==
    /\ pkgStage = "shims" /\ item <= Len(metas)
    /\ functions' = IF metas[item].skip THEN functions ELSE Append(functions, Shim(metas[item]))
    /\ item' = item + 1
    /\ UNCHANGED <<repo, uses, prof, planned, packages, seen, chosen, metas, pkgStage>>

GenerateFns ==
    /\ pkgStage = "shims" /\ item > Len(metas)
    /\ pkgStage' = "generated"
    /\ UNCHANGED <<repo, uses, prof, item, planned, packages, seen, chosen, metas, functions>>

PkgNext ==
    \/ PlanPackage \/ PlanNextProfile \/ Build
    \/ OpenProfile \/ CollectPackage \/ CloseProfile \/ PrintPackages
    \/ CollectMetadata \/ PrintMetadata
    \/ EmitBody \/ BeginShims \/ EmitShim \/ GenerateFns

PkgSpec == PkgInit /\ [][PkgNext]_pkgVars

(***************************************************************************)
(* Properties.                                                             *)
(***************************************************************************)
NoneTwice(seq) == \A i, j \in DOMAIN seq : seq[i] = seq[j] => i = j

\* Repositories whose profiles list no package twice and whose packages have C
\* names of their own, as all of profiles/ and packages/.
Good ==
    /\ \A p \in DOMAIN repo.profiles : NoneTwice(repo.profiles[p].packages)
    /\ \A q, r \in DOMAIN repo.packages :
          Normal(repo.packages[q].name) = Normal(repo.packages[r].name) => q = r

\* the packages that a profile of :use lists
Wanted == UNION {Listed(Items(p)) : p \in Listed(uses)}

\* user-fns.c has the functions of every package that a profile of :use lists, each
\* of them once, however often profiles repeat each other and whatever is missing;
\* so gcc takes it; and the plan lists the packages the resolver finds, in its order
\* (fl-resolve-deps-profiles.c:697-705, fl-build-plan.c:467-500).
PackagesOnce ==
    pkgStage = "generated" /\ Good =>
        LET there == {repo.packages[q] : q \in Wanted \cap DOMAIN repo.packages}
        IN /\ NoneTwice(functions)
           /\ Listed(functions) = {Body(m) : m \in there} \cup {Shim(m) : m \in {n \in there : ~n.skip}}
           /\ planned = packages

\* profiles/web.json:4-5 describes the profile as "string + path" included, and lists
\* them under "depends": the functions of a profile another one depends on are there.
DependsIncluded ==
    pkgStage = "generated" /\ Good /\ (\A p \in DOMAIN repo.profiles : repo.profiles[p].readable) =>
        \A p \in Listed(uses) \cap DOMAIN repo.profiles :
            \A d \in repo.profiles[p].depends \cap DOMAIN repo.profiles :
                \A q \in Listed(repo.profiles[d].packages) \cap DOMAIN repo.packages :
                    Body(repo.packages[q]) \in Listed(functions)
=============================================================================
