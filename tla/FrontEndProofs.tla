--------------------------- MODULE FrontEndProofs ---------------------------
(***************************************************************************)
(* Proofs about the steps of a build in front of the compiler: profiles    *)
(* and packages (Packages), for every repository and list of profiles,     *)
(* loads (Loads), for every file system, and the parser (Reader), for      *)
(* every sequence of tokens.                                               *)
(***************************************************************************)
EXTENDS Packages, Loads, Reader, SequenceTheorems, TLAPS

(***************************************************************************)
(* Profiles and packages.                                                  *)
(***************************************************************************)
CFunctions == {"ufl", "fl"} \X {Normal(n) : n \in Word}

PkgTypeOK ==
    /\ repo \in Repositories /\ uses \in Seq(Word)
    /\ prof \in Nat \ {0} /\ item \in Nat /\ seen \in Nat
    /\ planned \in Seq(Word) /\ packages \in Seq(Word) /\ chosen \in Seq(Word \cup {Mark})
    /\ metas \in Seq(Metadata)
    /\ functions \in Seq(CFunctions)
    /\ pkgStage \in {"planning", "resolving", "resolved", "described", "shims", "generated", "failed"}
    /\ item = 0 => pkgStage \in {"resolving", "failed"}
    /\ pkgStage = "resolving" /\ item > 0 => prof \in DOMAIN uses

(* What a loop over lists of names collects, for any lists said: a place   *)
(* is a list and an index in it, and the loop goes through the places in   *)
(* this order.                                                             *)
Earlier(i, j, k, l) == i < k \/ (i = k /\ j < l)

\* q has a place before all places of r
First(said, q, r) ==
    \E i \in DOMAIN said : \E j \in DOMAIN said[i] :
        /\ said[i][j] = q
        /\ \A k \in DOMAIN said : \A l \in DOMAIN said[k] :
              said[k][l] = r => Earlier(i, j, k, l)

\* a list has what the places before place p, n say, and nothing else
Gathered(said, list, p, n) ==
    /\ \A a \in DOMAIN list : \E i \in DOMAIN said : \E j \in DOMAIN said[i] :
          list[a] = said[i][j] /\ Earlier(i, j, p, n)
    /\ \A i \in DOMAIN said : \A j \in DOMAIN said[i] :
          Earlier(i, j, p, n) => said[i][j] \in Listed(list)

\* each name is listed at its first place
Ordered(said, list) == \A a, b \in DOMAIN list : a < b => First(said, list[a], list[b])

\* what the profiles of :use say
Said == [i \in DOMAIN uses |-> Items(uses[i])]

Planning ==
    /\ pkgStage = "planning" =>
          /\ Gathered(Said, planned, prof, item)
          /\ seen = 0 /\ packages = <<>> /\ chosen = <<>> /\ metas = <<>> /\ functions = <<>>
    /\ Ordered(Said, planned)
    /\ pkgStage # "planning" => Listed(planned) = Wanted

Resolving ==
    /\ pkgStage = "resolving" =>
          /\ Gathered(Said, packages, prof, item)
          /\ seen <= Len(packages) /\ Len(packages) <= Len(planned)
          /\ \A a \in DOMAIN packages : packages[a] = planned[a]
          /\ item > 0 => \A a \in DOMAIN packages : a > seen =>
                \E j \in DOMAIN Said[prof] : j < item /\ packages[a] = Said[prof][j]
          /\ \A i \in DOMAIN chosen : chosen[i] = Mark
          /\ metas = <<>> /\ functions = <<>>
    /\ pkgStage \notin {"planning", "resolving", "failed"} => packages = planned

There(q) == q \in DOMAIN repo.packages

Describing ==
    /\ pkgStage = "resolved" =>
          /\ \A i, j \in DOMAIN chosen : chosen[i] = chosen[j] /\ There(chosen[i]) => i = j
          /\ \A q \in DOMAIN repo.packages : q \in Listed(chosen) <=> q \in Wanted
          /\ \A k \in DOMAIN metas : \E i \in DOMAIN chosen :
                i < item /\ There(chosen[i]) /\ metas[k] = repo.packages[chosen[i]]
          /\ \A i \in DOMAIN chosen :
                i < item /\ There(chosen[i]) => repo.packages[chosen[i]] \in Listed(metas)
          /\ functions = <<>>
    /\ \A k, l \in DOMAIN metas : Normal(metas[k].name) = Normal(metas[l].name) => k = l
    /\ pkgStage \in {"described", "shims", "generated"} =>
          Listed(metas) = {repo.packages[q] : q \in Wanted \cap DOMAIN repo.packages}

Emitting ==
    /\ pkgStage = "described" =>
          /\ item <= Len(metas) + 1
          /\ Len(functions) = item - 1
          /\ \A k \in DOMAIN functions : functions[k] = Body(metas[k])
    /\ pkgStage \in {"shims", "generated"} =>
          /\ Len(metas) <= Len(functions)
          /\ \A k \in DOMAIN metas : functions[k] = Body(metas[k])
          /\ \A k \in DOMAIN functions : k > Len(metas) =>
                \E i \in DOMAIN metas : i < item /\ ~metas[i].skip /\ functions[k] = Shim(metas[i])
          /\ \A i \in DOMAIN metas : i < item /\ ~metas[i].skip => Shim(metas[i]) \in Listed(functions)
          /\ \A k, l \in DOMAIN functions :
                k > Len(metas) /\ l > Len(metas) /\ functions[k] = functions[l] => k = l
    /\ pkgStage = "generated" => item > Len(metas)

PkgInv == PkgTypeOK /\ (Good => Planning /\ Resolving /\ Describing /\ Emitting)

-----------------------------------------------------------------------------
(* A name is appended if it is not there: the next place is gathered, and  *)
(* the list stays in the order of first places.                            *)
LEMMA GatherNext ==
    ASSUME NEW said \in Seq(Seq(Word)), NEW list \in Seq(Word),
           NEW p \in DOMAIN said, NEW n \in DOMAIN said[p],
           Gathered(said, list, p, n),
           NEW next, next = IF said[p][n] \in Listed(list) THEN list ELSE Append(list, said[p][n])
    PROVE  Gathered(said, next, p, n + 1)
<1> DEFINE q == said[p][n]
<1>1. /\ said[p] \in Seq(Word) /\ p \in Nat /\ n \in Nat /\ q \in Word
      /\ \A i \in DOMAIN said : i \in Nat /\ \A j \in DOMAIN said[i] : j \in Nat
  OBVIOUS
<1>2. /\ Listed(next) = Listed(list) \cup {q}
      /\ \A a \in DOMAIN next : next[a] = q \/ (a \in DOMAIN list /\ next[a] = list[a])
  <2>1. CASE q \in Listed(list)
    BY <2>1 DEF Listed
  <2>2. CASE q \notin Listed(list)
    <3>1. next = Append(list, q)
      BY <2>2
    <3>2. /\ DOMAIN next = DOMAIN list \cup {Len(list) + 1}
          /\ next[Len(list) + 1] = q /\ Len(list) + 1 \in DOMAIN next
          /\ \A a \in DOMAIN list : next[a] = list[a]
      BY SMTT(30), <3>1
    <3> QED BY <3>2 DEF Listed
  <2> QED BY <2>1, <2>2
<1>3. \A i \in DOMAIN said : \A j \in DOMAIN said[i] :
         Earlier(i, j, p, n + 1) <=> Earlier(i, j, p, n) \/ (i = p /\ j = n)
  BY <1>1 DEF Earlier
<1>4. \A a \in DOMAIN next : \E i \in DOMAIN said : \E j \in DOMAIN said[i] :
         next[a] = said[i][j] /\ Earlier(i, j, p, n + 1)
  BY <1>2, <1>3 DEF Gathered
<1>5. \A i \in DOMAIN said : \A j \in DOMAIN said[i] :
         Earlier(i, j, p, n + 1) => said[i][j] \in Listed(next)
  BY <1>2, <1>3 DEF Gathered
<1> QED BY <1>4, <1>5 DEF Gathered

LEMMA OrderedNext ==
    ASSUME NEW said \in Seq(Seq(Word)), NEW list \in Seq(Word),
           NEW p \in DOMAIN said, NEW n \in DOMAIN said[p],
           Gathered(said, list, p, n), Ordered(said, list),
           said[p][n] \notin Listed(list)
    PROVE  Ordered(said, Append(list, said[p][n]))
<1> DEFINE q == said[p][n]
           next == Append(list, q)
<1>1. /\ said[p] \in Seq(Word) /\ p \in Nat /\ n \in Nat /\ q \in Word
      /\ \A i \in DOMAIN said : i \in Nat /\ \A j \in DOMAIN said[i] : j \in Nat
  OBVIOUS
<1>2. /\ DOMAIN next = DOMAIN list \cup {Len(list) + 1}
      /\ next[Len(list) + 1] = q
      /\ \A a \in DOMAIN list : next[a] = list[a] /\ a \in Nat /\ a < Len(list) + 1
  OBVIOUS
<1>3. ASSUME NEW a \in DOMAIN list PROVE First(said, list[a], q)
  <2>1. PICK i \in DOMAIN said : \E j \in DOMAIN said[i] : list[a] = said[i][j] /\ Earlier(i, j, p, n)
    BY DEF Gathered
  <2>2. PICK j \in DOMAIN said[i] : list[a] = said[i][j] /\ Earlier(i, j, p, n)
    BY <2>1
  <2>3. ASSUME NEW k \in DOMAIN said, NEW l \in DOMAIN said[k], said[k][l] = q
        PROVE  Earlier(i, j, k, l)
    <3>1. ~Earlier(k, l, p, n)
      BY <2>3 DEF Gathered
    <3> QED BY SMTT(30), <2>2, <3>1, <1>1 DEF Earlier
  <2> QED BY <2>2, <2>3 DEF First
<1>4. SUFFICES ASSUME NEW a \in DOMAIN next, NEW b \in DOMAIN next, a < b
               PROVE  First(said, next[a], next[b])
  BY DEF Ordered
<1>5. a \in DOMAIN list
  BY <1>2, <1>4
<1>6. CASE b \in DOMAIN list
  BY <1>2, <1>4, <1>5, <1>6 DEF Ordered
<1>7. CASE b = Len(list) + 1
  BY <1>2, <1>3, <1>5, <1>7
<1> QED BY <1>2, <1>6, <1>7

(* At the end of a list the next one begins; after the last one all names  *)
(* have been gathered.                                                     *)
LEMMA GatherList ==
    ASSUME NEW said \in Seq(Seq(Word)), NEW list, NEW p \in DOMAIN said, NEW n \in Nat,
           Gathered(said, list, p, n), n > Len(said[p]) \/ (n = 0 /\ said[p] = <<>>),
           NEW m \in {0, 1}
    PROVE  Gathered(said, list, p + 1, m)
<1>1. /\ said[p] \in Seq(Word) /\ p \in Nat
      /\ \A i \in DOMAIN said : i \in Nat /\ \A j \in DOMAIN said[i] : j \in Nat /\ j > 0
  OBVIOUS
<1>2. \A i \in DOMAIN said : \A j \in DOMAIN said[i] :
         Earlier(i, j, p + 1, m) <=> Earlier(i, j, p, n)
  BY <1>1 DEF Earlier
<1> QED BY <1>2 DEF Gathered

LEMMA GatheredAll ==
    ASSUME NEW said \in Seq(Seq(Word)), NEW list \in Seq(Word), NEW p \in Nat, NEW n \in Nat,
           Gathered(said, list, p, n), p > Len(said)
    PROVE  Listed(list) = UNION {Listed(said[i]) : i \in DOMAIN said}
<1>1. \A i \in DOMAIN said : \A j \in DOMAIN said[i] : Earlier(i, j, p, n)
  BY DEF Earlier
<1>2. Listed(list) \subseteq UNION {Listed(said[i]) : i \in DOMAIN said}
  BY DEF Gathered, Listed
<1>3. \A i \in DOMAIN said : Listed(said[i]) \subseteq Listed(list)
  BY <1>1 DEF Gathered, Listed
<1> QED BY <1>2, <1>3

(* Nothing is listed twice in the order of first places.                   *)
LEMMA OrderedOnce ==
    ASSUME NEW said \in Seq(Seq(Word)), NEW list \in Seq(Word), Ordered(said, list)
    PROVE  NoneTwice(list)
<1>1. ASSUME NEW q PROVE ~First(said, q, q)
  BY DEF First, Earlier
<1> QED BY <1>1 DEF Ordered, NoneTwice

(* The list whose part is known goes on with the name at hand, if this is  *)
(* new.                                                                    *)
LEMMA PrefixNext ==
    ASSUME NEW said \in Seq(Seq(Word)), NEW whole \in Seq(Word), NEW list \in Seq(Word),
           NEW p \in DOMAIN said, NEW n \in DOMAIN said[p],
           Gathered(said, list, p, n), Ordered(said, whole),
           Listed(whole) = UNION {Listed(said[i]) : i \in DOMAIN said},
           Len(list) <= Len(whole), \A a \in DOMAIN list : list[a] = whole[a],
           said[p][n] \notin Listed(list)
    PROVE  Len(list) < Len(whole) /\ whole[Len(list) + 1] = said[p][n]
<1> DEFINE q == said[p][n]
           m == Len(list) + 1
<1>1. \A i \in DOMAIN said : i \in Nat /\ said[i] \in Seq(Word)
  OBVIOUS
<1>2. q \in Listed(whole)
  <2>1. q \in Listed(said[p])
    BY DEF Listed
  <2> QED BY <2>1
<1>3. PICK k \in DOMAIN whole : whole[k] = q
  BY <1>2 DEF Listed
<1>4. k >= m /\ m \in DOMAIN whole /\ k \in Nat
  BY SMTT(30), <1>3 DEF Listed
<1>5. CASE k = m
  BY <1>3, <1>4, <1>5
<1>6. CASE m < k
  <2>1. First(said, whole[m], q)
    BY <1>3, <1>4, <1>6 DEF Ordered
  <2>2. whole[m] \in Listed(list)
    BY <2>1 DEF First, Gathered
  <2>3. PICK a \in DOMAIN list : list[a] = whole[m]
    BY <2>2 DEF Listed
  <2>4. a \in DOMAIN whole /\ whole[a] = whole[m] /\ a # m
    BY <2>3, <1>4
  <2> QED BY <2>4, <1>4, OrderedOnce DEF NoneTwice
<1> QED BY <1>4, <1>5, <1>6

(***************************************************************************)
(* The steps of a build.                                                   *)
(***************************************************************************)
LEMMA Longer ==
    ASSUME NEW S, NEW s \in Seq(S), NEW t, t = s \/ \E x \in S : t = Append(s, x)
    PROVE  t \in Seq(S)
<1>1. CASE t = s
  BY <1>1
<1>2. CASE \E x \in S : t = Append(s, x)
  BY <1>2
<1> QED BY <1>1, <1>2

LEMMA SaidLists ==
    ASSUME PkgTypeOK
    PROVE  /\ Said \in Seq(Seq(Word)) /\ Len(Said) = Len(uses) /\ DOMAIN Said = 1 .. Len(uses)
           /\ \A i \in DOMAIN uses : Said[i] = Items(uses[i])
           /\ \A p : Items(p) \in Seq(Word)
           /\ Wanted = UNION {Listed(Said[i]) : i \in DOMAIN Said}
<1>1. \A p : Items(p) \in Seq(Word)
  <2>1. \A p \in DOMAIN repo.profiles : repo.profiles[p].packages \in Seq(Word)
    BY PackagesAssumption DEF PkgTypeOK
  <2>2. ASSUME NEW p PROVE Items(p) \in Seq(Word)
    <3>1. CASE Known(p)
      BY <2>1, <3>1 DEF Items, Known
    <3>2. CASE ~Known(p)
      <4>1. Items(p) = <<>>
        BY <3>2 DEF Items
      <4> QED BY <4>1
    <3> QED BY <3>1, <3>2
  <2> QED BY <2>2
<1>2. uses \in Seq(Word) /\ DOMAIN uses = 1 .. Len(uses) /\ Len(uses) \in Nat
  BY DEF PkgTypeOK
<1>3. Said = [i \in 1 .. Len(uses) |-> Items(uses[i])]
  BY <1>2 DEF Said
<1>4. Said \in Seq(Seq(Word)) /\ Len(Said) = Len(uses)
  BY <1>1, <1>2, <1>3, IsASeq, LenProperties
<1>5. Wanted = UNION {Listed(Said[i]) : i \in DOMAIN Said}
  <2>1. DOMAIN Said = DOMAIN uses /\ \A i \in DOMAIN uses : Said[i] = Items(uses[i])
    BY <1>2, <1>3
  <2>2. \A q : q \in Wanted <=> \E i \in DOMAIN uses : q \in Listed(Items(uses[i]))
    BY DEF Wanted, Listed
  <2> QED BY <2>1, <2>2
<1> QED BY <1>1, <1>2, <1>3, <1>4, <1>5

LEMMA Names ==
    ASSUME NEW m \in Metadata
    PROVE  /\ Body(m) \in CFunctions /\ Shim(m) \in CFunctions
           /\ \A n \in Metadata : /\ Body(m) # Shim(n)
                                  /\ Body(m) = Body(n) => Normal(m.name) = Normal(n.name)
                                  /\ Shim(m) = Shim(n) => Normal(m.name) = Normal(n.name)
<1>1. m.name \in Word
  BY DEF Metadata
<1>2. Normal(m.name) \in {Normal(n) : n \in Word}
  BY <1>1
<1> QED BY <1>2 DEF Body, Shim, CFunctions

LEMMA RepoTypes ==
    ASSUME PkgTypeOK
    PROVE  /\ \A q \in DOMAIN repo.packages : repo.packages[q] \in Metadata
           /\ ~There(Mark)
BY PackagesAssumption DEF PkgTypeOK, There

LEMMA PkgTypes == PkgTypeOK /\ [PkgNext]_pkgVars => PkgTypeOK'
<1> SUFFICES ASSUME PkgTypeOK, [PkgNext]_pkgVars PROVE PkgTypeOK'
  OBVIOUS
<1> USE DEF PkgTypeOK
<1>1. CASE PlanPackage
  <2>1. prof \in DOMAIN uses /\ item \in DOMAIN Items(uses[prof])
    BY <1>1, SaidLists DEF PlanPackage
  <2>2. Items(uses[prof])[item] \in Word
    BY <2>1, SaidLists
  <2>3. PICK q \in Word : planned' = planned \/ planned' = Append(planned, q)
    BY <1>1, <2>2 DEF PlanPackage
  <2>4. planned' \in Seq(Word)
    BY <2>3, Longer
  <2> QED BY <1>1, <2>4 DEF PlanPackage
<1>2. CASE PlanNextProfile \/ CloseProfile \/ PrintMetadata \/ BeginShims \/ GenerateFns
  BY SMTT(30), <1>2 DEF PlanNextProfile, CloseProfile, PrintMetadata, BeginShims, GenerateFns
<1>3. CASE Build
  BY <1>3 DEF Build
<1>4. CASE OpenProfile
  <2>1. chosen' \in Seq(Word \cup {Mark})
    <3>1. PICK q \in Word \cup {Mark} : chosen' = chosen \/ chosen' = Append(chosen, q)
      BY <1>4 DEF OpenProfile
    <3> QED BY <3>1, Longer
  <2>2. Len(packages) \in Nat /\ (prof <= Len(uses) => prof \in DOMAIN uses)
    OBVIOUS
  <2> QED BY <1>4, <2>1, <2>2 DEF OpenProfile
<1>5. CASE CollectPackage
  <2>1. item \in DOMAIN Items(uses[prof])
    BY <1>5, SaidLists DEF CollectPackage
  <2>2. Items(uses[prof])[item] \in Word
    BY <2>1, SaidLists
  <2>3. PICK q \in Word : packages' = packages \/ packages' = Append(packages, q)
    BY <1>5, <2>2 DEF CollectPackage, Collected
  <2>4. packages' \in Seq(Word)
    BY <2>3, Longer
  <2> QED BY <1>5, <2>4 DEF CollectPackage
<1>6. CASE PrintPackages
  <2>1. packages \in Seq(Word \cup {Mark})
    OBVIOUS
  <2>2. chosen' \in Seq(Word \cup {Mark})
    BY <1>6, <2>1, ConcatProperties DEF PrintPackages
  <2> QED BY <1>6, <2>2 DEF PrintPackages
<1>7. CASE CollectMetadata
  <2>1. metas' = metas \/ \E m \in Metadata : metas' = Append(metas, m)
    BY <1>7, RepoTypes DEF CollectMetadata
  <2>2. metas' \in Seq(Metadata)
    BY <2>1, Longer
  <2> QED BY <1>7, <2>2 DEF CollectMetadata
<1>8. CASE EmitBody
  <2>1. metas[item] \in Metadata
    BY <1>8 DEF EmitBody
  <2>2. functions' \in Seq(CFunctions)
    BY <1>8, <2>1, Names DEF EmitBody
  <2> QED BY <1>8, <2>2 DEF EmitBody
<1>9. CASE EmitShim
  <2>1. metas[item] \in Metadata
    BY <1>9 DEF EmitShim
  <2>2. functions' \in Seq(CFunctions)
    BY <1>9, <2>1, Names DEF EmitShim
  <2> QED BY <1>9, <2>2 DEF EmitShim
<1>10. CASE UNCHANGED pkgVars
  BY <1>10 DEF pkgVars
<1> QED BY <1>1, <1>2, <1>3, <1>4, <1>5, <1>6, <1>7, <1>8, <1>9, <1>10 DEF PkgNext

LEMMA PkgStart == PkgInit => PkgInv
<1> SUFFICES ASSUME PkgInit PROVE PkgInv
  OBVIOUS
<1>1. PkgTypeOK
  BY PackagesAssumption DEF PkgInit, PkgTypeOK
<1>2. Planning
  <2>1. Gathered(Said, <<>>, 1, 1)
    <3>1. \A i \in DOMAIN Said : i \in Nat /\ i > 0 /\ \A j \in DOMAIN Said[i] : j \in Nat /\ j > 0
      BY <1>1, SaidLists
    <3> QED BY <3>1 DEF Gathered, Earlier
  <2>2. Ordered(Said, <<>>)
    BY DEF Ordered
  <2> QED BY <2>1, <2>2 DEF PkgInit, Planning
<1>3. Resolving /\ Describing /\ Emitting
  BY DEF PkgInit, Resolving, Describing, Emitting
<1> QED BY <1>1, <1>2, <1>3 DEF PkgInv

\* no step changes what the files say, nor :use
LEMMA PkgFixed ==
    ASSUME [PkgNext]_pkgVars
    PROVE  repo' = repo /\ uses' = uses /\ Said' = Said /\ Wanted' = Wanted /\ (Good' <=> Good)
<1>1. repo' = repo /\ uses' = uses
  BY DEF PkgNext, pkgVars, PlanPackage, PlanNextProfile, Build, OpenProfile, CollectPackage, CloseProfile,
         PrintPackages, CollectMetadata, PrintMetadata, EmitBody, BeginShims, EmitShim, GenerateFns
<1> QED BY <1>1 DEF Said, Wanted, Good, Items, Known, Listed

LEMMA PlanningStep == PkgInv /\ Good /\ [PkgNext]_pkgVars => Planning'
<1> SUFFICES ASSUME PkgTypeOK, Planning, Resolving, [PkgNext]_pkgVars PROVE Planning'
  BY DEF PkgInv
<1>1. Said' = Said /\ Wanted' = Wanted
  BY PkgFixed
<1>2. CASE PlanPackage
  <2> DEFINE q == Said[prof][item]
  <2>1. prof \in DOMAIN Said /\ item \in DOMAIN Said[prof] /\ Said[prof] = Items(uses[prof])
    BY <1>2, SaidLists DEF PlanPackage, PkgTypeOK
  <2>2. planned' = IF q \in Listed(planned) THEN planned ELSE Append(planned, q)
    BY <1>2, <2>1 DEF PlanPackage
  <2>3. Gathered(Said, planned, prof, item) /\ Ordered(Said, planned)
    BY <1>2 DEF PlanPackage, Planning
  <2>4. Gathered(Said, planned', prof, item + 1)
    BY <2>1, <2>2, <2>3, GatherNext, SaidLists DEF PkgTypeOK
  <2>5. Ordered(Said, planned')
    <3>1. CASE q \in Listed(planned)
      BY <2>2, <2>3, <3>1
    <3>2. CASE q \notin Listed(planned)
      BY <2>1, <2>2, <2>3, <3>2, OrderedNext, SaidLists DEF PkgTypeOK
    <3> QED BY <3>1, <3>2
  <2> QED BY <1>1, <1>2, <2>4, <2>5 DEF PlanPackage, Planning
<1>3. CASE PlanNextProfile
  <2>1. prof \in DOMAIN Said /\ item \in Nat /\ item > Len(Said[prof])
    BY <1>3, SaidLists DEF PlanNextProfile, PkgTypeOK
  <2>2. Gathered(Said, planned, prof + 1, 1)
    BY <1>3, <2>1, GatherList, SaidLists DEF PlanNextProfile, Planning
  <2> QED BY <1>1, <1>3, <2>2 DEF PlanNextProfile, Planning
<1>4. CASE Build
  <2>1. Listed(planned) = Wanted
    BY <1>4, SaidLists, GatheredAll DEF Build, Planning, PkgTypeOK
  <2> QED BY <1>1, <1>4, <2>1 DEF Build, Planning
<1>5. CASE OpenProfile \/ CollectPackage \/ CloseProfile \/ PrintPackages \/ CollectMetadata \/ PrintMetadata
           \/ EmitBody \/ BeginShims \/ EmitShim \/ GenerateFns
  <2>1. pkgStage # "planning" /\ pkgStage' # "planning" /\ planned' = planned
    BY <1>5 DEF OpenProfile, CollectPackage, CloseProfile, PrintPackages, CollectMetadata, PrintMetadata,
                EmitBody, BeginShims, EmitShim, GenerateFns
  <2> QED BY <1>1, <2>1 DEF Planning
<1>6. CASE UNCHANGED pkgVars
  BY <1>1, <1>6 DEF pkgVars, Planning
<1> QED BY <1>2, <1>3, <1>4, <1>5, <1>6 DEF PkgNext

LEMMA ResolvingStep == PkgInv /\ Good /\ [PkgNext]_pkgVars => Resolving'
<1> SUFFICES ASSUME PkgTypeOK, Good, Planning, Resolving, [PkgNext]_pkgVars PROVE Resolving'
  BY DEF PkgInv
<1>1. Said' = Said /\ Wanted' = Wanted
  BY PkgFixed
<1>2. CASE PlanPackage \/ PlanNextProfile
  BY <1>2 DEF PlanPackage, PlanNextProfile, Resolving
<1>3. CASE Build
  <2>1. Gathered(Said, <<>>, 1, 0)
    <3>1. \A i \in DOMAIN Said : i \in Nat /\ i > 0 /\ \A j \in DOMAIN Said[i] : j \in Nat /\ j > 0
      BY SaidLists
    <3> QED BY <3>1 DEF Gathered, Earlier
  <2>2. /\ seen = 0 /\ packages = <<>> /\ chosen = <<>> /\ metas = <<>> /\ functions = <<>>
        /\ Len(planned) \in Nat
    BY <1>3 DEF Build, Planning, PkgTypeOK
  <2> QED BY <1>1, <1>3, <2>1, <2>2 DEF Build, Resolving
<1>4. CASE OpenProfile
  <2>1. /\ Gathered(Said, packages, prof, 0) /\ packages \in Seq(Word)
        /\ seen <= Len(packages) /\ Len(packages) <= Len(planned)
        /\ \A a \in DOMAIN packages : packages[a] = planned[a]
        /\ \A i \in DOMAIN chosen : chosen[i] = Mark
        /\ metas = <<>> /\ functions = <<>>
    BY <1>4 DEF OpenProfile, Resolving, PkgTypeOK
  <2>2. prof \in DOMAIN Said /\ Said[prof] = Items(uses[prof])
    <3>1. prof <= Len(uses) /\ prof \in Nat \ {0} /\ Len(uses) \in Nat /\ DOMAIN uses = 1 .. Len(uses)
      BY <1>4 DEF OpenProfile, PkgTypeOK
    <3>2. prof \in DOMAIN uses
      BY <3>1
    <3> QED BY <3>1, <3>2, SaidLists
  <2>3. CASE ~Known(uses[prof])
    <3>1. Said[prof] = <<>>
      BY <2>2, <2>3 DEF Items
    <3>2. Gathered(Said, packages, prof + 1, 0)
      BY <2>1, <2>2, <3>1, GatherList, SaidLists
    <3> QED BY <1>1, <1>4, <2>1, <2>3, <3>2 DEF OpenProfile, Resolving
  <2>4. CASE Known(uses[prof]) /\ repo.profiles[uses[prof]].readable
    <3>1. Gathered(Said, packages, prof, 1)
      <4>1. /\ prof \in Nat
            /\ \A i \in DOMAIN Said : i \in Nat /\ \A j \in DOMAIN Said[i] : j \in Nat /\ j > 0
        BY SaidLists DEF PkgTypeOK
      <4>2. \A i \in DOMAIN Said : \A j \in DOMAIN Said[i] : Earlier(i, j, prof, 1) <=> Earlier(i, j, prof, 0)
        BY <4>1 DEF Earlier
      <4> QED BY <2>1, <4>2 DEF Gathered
    <3>2. chosen' = Append(chosen, Mark) /\ item' = 1 /\ seen' = Len(packages)
      BY <1>4, <2>4 DEF OpenProfile
    <3>3. \A i \in DOMAIN chosen' : chosen'[i] = Mark
      BY <2>1, <3>2 DEF PkgTypeOK
    <3>4. \A a \in DOMAIN packages : ~(a > Len(packages))
      BY <2>1
    <3>5. prof' = prof /\ pkgStage' = pkgStage /\ Len(packages) \in Nat
      BY <1>4, <2>1, <2>4 DEF OpenProfile
    <3> QED BY <1>1, <1>4, <2>1, <3>1, <3>2, <3>3, <3>4, <3>5 DEF OpenProfile, Resolving
  <2>5. CASE Known(uses[prof]) /\ ~repo.profiles[uses[prof]].readable
    BY <1>4, <2>5 DEF OpenProfile, Resolving
  <2> QED BY <2>3, <2>4, <2>5
<1>5. CASE CollectPackage
  <2> DEFINE q == Said[prof][item]
  <2>1. /\ Gathered(Said, packages, prof, item) /\ packages \in Seq(Word) /\ planned \in Seq(Word)
        /\ seen <= Len(packages) /\ Len(packages) <= Len(planned)
        /\ \A a \in DOMAIN packages : packages[a] = planned[a]
        /\ \A a \in DOMAIN packages : a > seen =>
              \E j \in DOMAIN Said[prof] : j < item /\ packages[a] = Said[prof][j]
        /\ \A i \in DOMAIN chosen : chosen[i] = Mark
        /\ metas = <<>> /\ functions = <<>>
    BY <1>5 DEF CollectPackage, Resolving, PkgTypeOK
  <2>2. /\ Said \in Seq(Seq(Word)) /\ prof \in DOMAIN Said /\ item \in DOMAIN Said[prof]
        /\ Said[prof] = Items(uses[prof]) /\ uses[prof] \in Word
    BY <1>5, SaidLists DEF CollectPackage, PkgTypeOK
  <2>3. packages' = IF \E i \in 1 .. seen : packages[i] = q THEN packages ELSE Append(packages, q)
    BY <1>5, <2>2 DEF CollectPackage, Collected
  <2>4. NoneTwice(Said[prof])
    BY <2>2 DEF Good, Items, Known, NoneTwice
  <2>5. (\E i \in 1 .. seen : packages[i] = q) <=> q \in Listed(packages)
    <3>1. ASSUME NEW a \in DOMAIN packages, packages[a] = q PROVE a \in 1 .. seen
      <4>1. CASE a > seen
        <5>1. PICK j \in DOMAIN Said[prof] : j < item /\ q = Said[prof][j]
          BY <2>1, <3>1, <4>1
        <5> QED BY <2>2, <2>4, <5>1 DEF NoneTwice
      <4>2. CASE ~(a > seen)
        BY <2>1, <4>2 DEF PkgTypeOK
      <4> QED BY <4>1, <4>2
    <3>2. 1 .. seen \subseteq DOMAIN packages
      BY <2>1 DEF PkgTypeOK
    <3> QED BY <3>1, <3>2 DEF Listed
  <2>6. packages' = IF q \in Listed(packages) THEN packages ELSE Append(packages, q)
    BY <2>3, <2>5
  <2>7. Gathered(Said, packages', prof, item + 1)
    BY <2>1, <2>2, <2>6, GatherNext
  <2>8. /\ Len(packages') <= Len(planned) /\ seen <= Len(packages')
        /\ \A a \in DOMAIN packages' : packages'[a] = planned[a]
        /\ \A a \in DOMAIN packages' : a > seen =>
              \E j \in DOMAIN Said[prof] : j < item + 1 /\ packages'[a] = Said[prof][j]
    <3>1. CASE q \in Listed(packages)
      <4>1. packages' = packages
        BY <2>6, <3>1
      <4>2. \A j \in DOMAIN Said[prof] : j < item => j < item + 1
        BY <2>2
      <4> QED BY <2>1, <4>1, <4>2
    <3>2. CASE q \notin Listed(packages)
      <4>1. packages' = Append(packages, q)
        BY <2>6, <3>2
      <4>2. Len(packages) < Len(planned) /\ planned[Len(packages) + 1] = q
        <5>1. pkgStage # "planning"
          BY <1>5 DEF CollectPackage
        <5>2. Ordered(Said, planned) /\ Listed(planned) = UNION {Listed(Said[i]) : i \in DOMAIN Said}
          BY <5>1, SaidLists DEF Planning
        <5> QED BY ZenonT(40), <2>1, <2>2, <3>2, <5>2, PrefixNext
      <4>3. /\ DOMAIN packages' = DOMAIN packages \cup {Len(packages) + 1}
            /\ packages'[Len(packages) + 1] = q
            /\ \A a \in DOMAIN packages : packages'[a] = packages[a]
            /\ Len(packages') = Len(packages) + 1 /\ Len(packages) \in Nat /\ Len(planned) \in Nat
        BY <2>1, <4>1
      <4>4. \A j \in DOMAIN Said[prof] : j < item => j < item + 1
        BY <2>2
      <4>5. item < item + 1
        BY <2>2
      <4>6. Len(packages') <= Len(planned) /\ seen <= Len(packages')
        BY <2>1, <4>2, <4>3 DEF PkgTypeOK
      <4> QED BY <2>1, <2>2, <4>2, <4>3, <4>4, <4>5, <4>6
    <3> QED BY <3>1, <3>2
  <2> HIDE DEF q
  <2> QED BY <1>1, <1>5, <2>1, <2>7, <2>8 DEF CollectPackage, Resolving
<1>6. CASE CloseProfile
  <2>1. prof \in DOMAIN Said /\ item \in Nat /\ item > Len(Said[prof])
    <3>1. prof \in DOMAIN uses /\ DOMAIN uses = 1 .. Len(uses) /\ item \in Nat /\ item > Len(Items(uses[prof]))
      BY <1>6 DEF CloseProfile, PkgTypeOK
    <3> QED BY <3>1, SaidLists
  <2>2. Gathered(Said, packages, prof + 1, 0)
    BY <1>6, <2>1, GatherList, SaidLists DEF CloseProfile, Resolving
  <2> QED BY <1>1, <1>6, <2>2 DEF CloseProfile, Resolving
<1>7. CASE PrintPackages
  <2>1. packages = planned
    <3>1. /\ Gathered(Said, packages, prof, item) /\ packages \in Seq(Word) /\ planned \in Seq(Word)
          /\ Len(packages) <= Len(planned) /\ \A a \in DOMAIN packages : packages[a] = planned[a]
          /\ Ordered(Said, planned) /\ Listed(planned) = Wanted
      BY <1>7 DEF PrintPackages, Resolving, Planning, PkgTypeOK
    <3>2. Listed(packages) = Wanted
      BY <1>7, <3>1, GatheredAll, SaidLists DEF PrintPackages, PkgTypeOK
    <3>3. NoneTwice(planned)
      BY <3>1, OrderedOnce, SaidLists
    <3>4. ASSUME NEW b \in DOMAIN planned PROVE b \in DOMAIN packages
      <4>1. PICK a \in DOMAIN packages : packages[a] = planned[b]
        BY <3>1, <3>2 DEF Listed
      <4>2. a \in DOMAIN planned /\ planned[a] = planned[b]
        BY <3>1, <4>1
      <4> QED BY <3>3, <4>1, <4>2 DEF NoneTwice
    <3>5. Len(packages) = Len(planned)
      BY <3>1, <3>4
    <3> QED BY <3>1, <3>5
  <2> QED BY <1>7, <2>1 DEF PrintPackages, Resolving
<1>8. CASE CollectMetadata \/ PrintMetadata \/ EmitBody \/ BeginShims \/ EmitShim \/ GenerateFns
  BY <1>8 DEF CollectMetadata, PrintMetadata, EmitBody, BeginShims, EmitShim, GenerateFns, Resolving
<1>9. CASE UNCHANGED pkgVars
  BY <1>1, <1>9 DEF pkgVars, Resolving
<1> QED BY <1>2, <1>3, <1>4, <1>5, <1>6, <1>7, <1>8, <1>9 DEF PkgNext

LEMMA DescribingStep == PkgInv /\ Good /\ [PkgNext]_pkgVars => Describing'
<1> SUFFICES ASSUME PkgTypeOK, Good, Planning, Resolving, Describing, [PkgNext]_pkgVars PROVE Describing'
  BY DEF PkgInv
<1>1. repo' = repo /\ Wanted' = Wanted
  BY PkgFixed
<1>2. CASE PlanPackage \/ PlanNextProfile \/ Build \/ OpenProfile \/ CollectPackage \/ CloseProfile
  <2>1. metas' = <<>> /\ pkgStage' \in {"planning", "resolving", "failed"}
    <3>1. metas = <<>>
      BY <1>2 DEF PlanPackage, PlanNextProfile, Build, OpenProfile, CollectPackage, CloseProfile,
                  Planning, Resolving
    <3> QED BY <1>2, <3>1 DEF PlanPackage, PlanNextProfile, Build, OpenProfile, CollectPackage, CloseProfile
  <2> QED BY <2>1 DEF Describing
<1>3. CASE PrintPackages
  <2>1. /\ chosen \in Seq(Word \cup {Mark}) /\ packages \in Seq(Word) /\ chosen' = chosen \o packages
        /\ \A i \in DOMAIN chosen : chosen[i] = Mark
        /\ metas' = <<>> /\ functions' = <<>> /\ item' = 1 /\ pkgStage' = "resolved"
    BY <1>3 DEF PrintPackages, Resolving, PkgTypeOK
  <2>2. packages = planned /\ NoneTwice(packages) /\ Listed(packages) = Wanted
    <3>1. Ordered(Said, planned) /\ Listed(planned) = Wanted /\ planned \in Seq(Word)
      BY <1>3 DEF PrintPackages, Planning, PkgTypeOK
    <3>2. packages = planned
      BY <1>1, <1>3, ResolvingStep, PkgTypes DEF PrintPackages, Resolving, PkgInv, Emitting
    <3> QED BY <3>1, <3>2, OrderedOnce, SaidLists
  <2>3. /\ DOMAIN chosen' = 1 .. Len(chosen) + Len(packages) /\ Len(chosen) \in Nat /\ Len(packages) \in Nat
        /\ \A i \in DOMAIN chosen : i \in DOMAIN chosen' /\ chosen'[i] = Mark
        /\ \A i \in DOMAIN packages : i + Len(chosen) \in DOMAIN chosen' /\ chosen'[i + Len(chosen)] = packages[i]
    BY <2>1
  <2>4. \A i \in DOMAIN chosen' : i \in DOMAIN chosen \/ i - Len(chosen) \in DOMAIN packages
    BY <2>1, <2>3
  <2>5. ~There(Mark)
    BY RepoTypes
  <2>6. ASSUME NEW i \in DOMAIN chosen', There(chosen'[i])
        PROVE  i - Len(chosen) \in DOMAIN packages /\ packages[i - Len(chosen)] = chosen'[i] /\ i \in Nat
    <3>1. i - Len(chosen) \in DOMAIN packages /\ i \in Nat
      BY <2>3, <2>4, <2>5, <2>6
    <3>2. (i - Len(chosen)) + Len(chosen) = i
      BY <2>3, <3>1
    <3> QED BY <2>3, <3>1, <3>2
  <2>7. \A i, j \in DOMAIN chosen' : chosen'[i] = chosen'[j] /\ There(chosen'[i]) => i = j
    <3> SUFFICES ASSUME NEW i \in DOMAIN chosen', NEW j \in DOMAIN chosen', chosen'[i] = chosen'[j], There(chosen'[i])
                 PROVE  i = j
      OBVIOUS
    <3>1. i - Len(chosen) = j - Len(chosen)
      BY <2>2, <2>6 DEF NoneTwice
    <3> QED BY <2>3, <2>6, <3>1
  <2>8. \A q \in DOMAIN repo.packages : q \in Listed(chosen') <=> q \in Wanted
    <3> SUFFICES ASSUME NEW q \in DOMAIN repo.packages PROVE q \in Listed(chosen') <=> q \in Wanted
      OBVIOUS
    <3>1. ASSUME q \in Listed(chosen') PROVE q \in Listed(packages)
      <4>1. PICK i \in DOMAIN chosen' : chosen'[i] = q
        BY <3>1 DEF Listed
      <4> QED BY <2>6, <4>1 DEF Listed, There
    <3>2. ASSUME q \in Listed(packages) PROVE q \in Listed(chosen')
      BY <2>3, <3>2 DEF Listed
    <3> QED BY <2>2, <3>1, <3>2
  <2>9. \A i \in DOMAIN chosen' : ~(i < 1)
    BY <2>3
  <2> QED BY <1>1, <2>1, <2>7, <2>8, <2>9 DEF Describing, There
<1>4. CASE CollectMetadata
  <2> DEFINE q == chosen[item]
  <2>1. /\ pkgStage = "resolved" /\ item \in DOMAIN chosen /\ metas \in Seq(Metadata) /\ item \in Nat
        /\ \A i, j \in DOMAIN chosen : chosen[i] = chosen[j] /\ There(chosen[i]) => i = j
        /\ \A r \in DOMAIN repo.packages : r \in Listed(chosen) <=> r \in Wanted
        /\ \A k \in DOMAIN metas : \E i \in DOMAIN chosen :
              i < item /\ There(chosen[i]) /\ metas[k] = repo.packages[chosen[i]]
        /\ \A i \in DOMAIN chosen :
              i < item /\ There(chosen[i]) => repo.packages[chosen[i]] \in Listed(metas)
        /\ \A k, l \in DOMAIN metas : Normal(metas[k].name) = Normal(metas[l].name) => k = l
        /\ functions = <<>>
    <3>1. item \in 1 .. Len(chosen)
      BY <1>4 DEF CollectMetadata, PkgTypeOK
    <3> QED BY <1>4, <3>1 DEF CollectMetadata, PkgTypeOK, Describing
  <2>2. functions' = functions /\ chosen' = chosen
    BY <1>4 DEF CollectMetadata
  <2>3. \A i \in DOMAIN chosen : i < item + 1 <=> i < item \/ i = item
    BY <2>1 DEF PkgTypeOK
  <2>4. CASE ~There(q)
    <3>1. metas' = metas /\ item' = item + 1 /\ pkgStage' = pkgStage
      BY <1>4, <2>4 DEF CollectMetadata, There
    <3> QED BY <1>1, <2>1, <2>2, <2>3, <2>4, <3>1 DEF Describing, There
  <2>5. CASE There(q) /\ repo.packages[q].readable
    <3>1. metas' = Append(metas, repo.packages[q]) /\ item' = item + 1 /\ pkgStage' = pkgStage
      BY <1>4, <2>5 DEF CollectMetadata, There
    <3>2. repo.packages[q] \in Metadata
      BY <2>5, RepoTypes DEF There
    <3>3. /\ DOMAIN metas' = DOMAIN metas \cup {Len(metas) + 1} /\ metas'[Len(metas) + 1] = repo.packages[q]
          /\ \A k \in DOMAIN metas : metas'[k] = metas[k]
          /\ Len(metas) + 1 \in DOMAIN metas'
      BY <2>1, <3>1, <3>2
    <3>4. \A k \in DOMAIN metas' : \E i \in DOMAIN chosen :
             i < item + 1 /\ There(chosen[i]) /\ metas'[k] = repo.packages[chosen[i]]
      BY <2>1, <2>3, <2>5, <3>3
    <3>5. \A i \in DOMAIN chosen : i < item + 1 /\ There(chosen[i]) => repo.packages[chosen[i]] \in Listed(metas')
      BY <2>1, <2>3, <3>3 DEF Listed
    <3>6. ASSUME NEW k \in DOMAIN metas PROVE Normal(metas[k].name) # Normal(repo.packages[q].name)
      <4>1. PICK i \in DOMAIN chosen : i < item /\ There(chosen[i]) /\ metas[k] = repo.packages[chosen[i]]
        BY <2>1
      <4>2. chosen[i] # q
        BY <2>1, <4>1 DEF PkgTypeOK
      <4> QED BY <2>5, <4>1, <4>2 DEF Good, There
    <3>7. \A k, l \in DOMAIN metas' : Normal(metas'[k].name) = Normal(metas'[l].name) => k = l
      BY <2>1, <3>3, <3>6
    <3> HIDE DEF q
    <3> QED BY <1>1, <2>1, <2>2, <3>1, <3>4, <3>5, <3>7 DEF Describing, There
  <2>6. CASE There(q) /\ ~repo.packages[q].readable
    <3>1. metas' = metas /\ pkgStage' = "failed"
      BY <1>4, <2>6 DEF CollectMetadata, There
    <3> QED BY <2>1, <3>1 DEF Describing
  <2> QED BY <2>4, <2>5, <2>6
<1>5. CASE PrintMetadata
  <2>1. \A i \in DOMAIN chosen : i < item
    BY <1>5 DEF PrintMetadata, PkgTypeOK
  <2>2. Listed(metas) = {repo.packages[q] : q \in Wanted \cap DOMAIN repo.packages}
    <3>1. Listed(metas) \subseteq {repo.packages[q] : q \in Wanted \cap DOMAIN repo.packages}
      BY <1>5 DEF PrintMetadata, Describing, Listed, There
    <3>2. ASSUME NEW q \in Wanted \cap DOMAIN repo.packages PROVE repo.packages[q] \in Listed(metas)
      <4>1. PICK i \in DOMAIN chosen : chosen[i] = q
        BY <1>5 DEF PrintMetadata, Describing, Listed
      <4> QED BY <1>5, <2>1, <4>1 DEF PrintMetadata, Describing, There
    <3> QED BY <3>1, <3>2
  <2>3. \A k, l \in DOMAIN metas : Normal(metas[k].name) = Normal(metas[l].name) => k = l
    BY DEF Describing
  <2>4. metas' = metas /\ pkgStage' = "described"
    BY <1>5 DEF PrintMetadata
  <2>5. Listed(metas)' = Listed(metas)
    BY <2>4 DEF Listed
  <2> QED BY <1>1, <2>2, <2>3, <2>4, <2>5 DEF Describing
<1>6. CASE EmitBody \/ BeginShims \/ EmitShim \/ GenerateFns
  <2>1. /\ metas' = metas
        /\ pkgStage \in {"described", "shims", "generated"} /\ pkgStage' \in {"described", "shims", "generated"}
    BY <1>6 DEF EmitBody, BeginShims, EmitShim, GenerateFns
  <2> QED BY <1>1, <2>1 DEF Describing, Listed
<1>7. CASE UNCHANGED pkgVars
  <2>1. /\ item' = item /\ chosen' = chosen /\ metas' = metas /\ functions' = functions /\ pkgStage' = pkgStage
        /\ Listed(metas)' = Listed(metas) /\ Listed(chosen)' = Listed(chosen)
    BY <1>7 DEF pkgVars, Listed
  <2> QED BY <1>1, <2>1 DEF Describing, There
<1> QED BY <1>2, <1>3, <1>4, <1>5, <1>6, <1>7 DEF PkgNext

LEMMA EmittingStep == PkgInv /\ Good /\ [PkgNext]_pkgVars => Emitting'
<1> SUFFICES ASSUME PkgTypeOK, Describing, Emitting, [PkgNext]_pkgVars PROVE Emitting'
  BY DEF PkgInv
<1>1. metas \in Seq(Metadata) /\ functions \in Seq(CFunctions) /\ item \in Nat
  BY DEF PkgTypeOK
<1>2. CASE PlanPackage \/ PlanNextProfile \/ Build \/ OpenProfile \/ CollectPackage \/ CloseProfile
           \/ PrintPackages \/ CollectMetadata
  <2>1. pkgStage' \notin {"described", "shims", "generated"}
    BY <1>2 DEF PlanPackage, PlanNextProfile, Build, OpenProfile, CollectPackage, CloseProfile,
                PrintPackages, CollectMetadata
  <2> QED BY <2>1 DEF Emitting
<1>3. CASE PrintMetadata
  <2>1. functions = <<>> /\ item' = 1 /\ functions' = functions /\ metas' = metas /\ pkgStage' = "described"
    BY <1>3 DEF PrintMetadata, Describing
  <2> QED BY <1>1, <2>1 DEF Emitting
<1>4. CASE EmitBody
  <2>1. /\ pkgStage = "described" /\ item \in DOMAIN metas /\ Len(functions) = item - 1
        /\ \A k \in DOMAIN functions : functions[k] = Body(metas[k])
        /\ functions' = Append(functions, Body(metas[item])) /\ item' = item + 1
        /\ metas' = metas /\ pkgStage' = pkgStage
    <3>1. item \in 1 .. Len(metas)
      BY <1>1, <1>4 DEF EmitBody, PkgTypeOK
    <3> QED BY <1>1, <1>4, <3>1 DEF EmitBody, Emitting
  <2>2. /\ DOMAIN functions' = DOMAIN functions \cup {item} /\ functions'[item] = Body(metas[item])
        /\ \A k \in DOMAIN functions : functions'[k] = functions[k]
        /\ Len(functions') = item
    BY <1>1, <2>1, Names
  <2>3. item' <= Len(metas') + 1 /\ Len(functions') = item' - 1
    BY <1>1, <2>1, <2>2
  <2>4. \A k \in DOMAIN functions' : functions'[k] = Body(metas[k])
    BY <2>1, <2>2
  <2> QED BY <2>1, <2>3, <2>4 DEF Emitting, Body
<1>5. CASE BeginShims
  <2>1. /\ item = Len(metas) + 1 /\ Len(functions) = Len(metas)
        /\ \A k \in DOMAIN functions : functions[k] = Body(metas[k])
        /\ functions' = functions /\ metas' = metas /\ item' = 1 /\ pkgStage' = "shims"
    BY <1>1, <1>5 DEF BeginShims, Emitting
  <2>2. /\ DOMAIN functions = DOMAIN metas
        /\ \A k \in DOMAIN functions : ~(k > Len(metas)) /\ ~(k < 1)
    BY <1>1, <2>1
  <2> QED BY <1>1, <2>1, <2>2 DEF Emitting, Body, Shim
<1>6. CASE EmitShim
  <2> DEFINE m == metas[item]
  <2>1. /\ pkgStage = "shims" /\ item \in DOMAIN metas /\ m \in Metadata
        /\ item' = item + 1 /\ metas' = metas /\ pkgStage' = "shims"
        /\ functions' = IF m.skip THEN functions ELSE Append(functions, Shim(m))
    <3>1. item \in 1 .. Len(metas)
      BY <1>1, <1>6 DEF EmitShim, PkgTypeOK
    <3> QED BY <1>1, <1>6, <3>1 DEF EmitShim
  <2>2. /\ Len(metas) <= Len(functions)
        /\ \A k \in DOMAIN metas : functions[k] = Body(metas[k])
        /\ \A k \in DOMAIN functions : k > Len(metas) =>
              \E i \in DOMAIN metas : i < item /\ ~metas[i].skip /\ functions[k] = Shim(metas[i])
        /\ \A i \in DOMAIN metas : i < item /\ ~metas[i].skip => Shim(metas[i]) \in Listed(functions)
        /\ \A k, l \in DOMAIN functions :
              k > Len(metas) /\ l > Len(metas) /\ functions[k] = functions[l] => k = l
    BY <2>1 DEF Emitting
  <2>3. \A i \in DOMAIN metas : i < item + 1 <=> i < item \/ i = item
    BY <1>1
  <2>4. CASE m.skip
    BY <2>1, <2>2, <2>3, <2>4 DEF Emitting, Body, Shim, Listed
  <2>5. CASE ~m.skip
    <3>1. functions' = Append(functions, Shim(m))
      BY <2>1, <2>5
    <3>2. /\ DOMAIN functions' = DOMAIN functions \cup {Len(functions) + 1}
          /\ functions'[Len(functions) + 1] = Shim(m)
          /\ \A k \in DOMAIN functions : functions'[k] = functions[k] /\ k < Len(functions) + 1
          /\ Len(functions') = Len(functions) + 1 /\ Len(functions) + 1 > Len(metas)
          /\ DOMAIN metas \subseteq DOMAIN functions
      BY <1>1, <2>1, <2>2, <3>1, Names
    <3>3. Len(metas) <= Len(functions')
      BY <1>1, <2>2, <3>2
    <3>4. \A k \in DOMAIN metas : functions'[k] = Body(metas[k])
      BY <2>2, <3>2
    <3>5. \A k \in DOMAIN functions' : k > Len(metas) =>
             \E i \in DOMAIN metas : i < item + 1 /\ ~metas[i].skip /\ functions'[k] = Shim(metas[i])
      BY <2>1, <2>2, <2>3, <2>5, <3>2
    <3>6. \A i \in DOMAIN metas : i < item + 1 /\ ~metas[i].skip => Shim(metas[i]) \in Listed(functions')
      BY <2>1, <2>2, <2>3, <3>2 DEF Listed
    <3>7. ASSUME NEW k \in DOMAIN functions, k > Len(metas) PROVE functions[k] # Shim(m)
      <4>1. PICK i \in DOMAIN metas : i < item /\ functions[k] = Shim(metas[i])
        BY <2>2, <3>7
      <4>2. metas[i] \in Metadata /\ i # item
        BY <1>1, <4>1
      <4>3. Normal(metas[i].name) # Normal(m.name)
        BY <2>1, <4>2 DEF Describing
      <4> QED BY <2>1, <4>1, <4>2, <4>3, Names
    <3>8. \A k, l \in DOMAIN functions' :
             k > Len(metas) /\ l > Len(metas) /\ functions'[k] = functions'[l] => k = l
      BY <2>2, <3>2, <3>7
    <3> HIDE DEF m
    <3> QED BY ZenonT(40), <2>1, <3>3, <3>4, <3>5, <3>6, <3>8 DEF Emitting, Body, Shim
  <2> QED BY <2>4, <2>5
<1>7. CASE GenerateFns
  BY <1>7 DEF GenerateFns, Emitting, Body, Shim, Listed
<1>8. CASE UNCHANGED pkgVars
  BY <1>8 DEF pkgVars, Emitting, Body, Shim, Listed
<1> QED BY <1>2, <1>3, <1>4, <1>5, <1>6, <1>7, <1>8 DEF PkgNext

(* What the loops of a build have done so far, in any state of any build,  *)
(* for every repository and every list of profiles.                        *)
THEOREM PackagesInvariant == PkgSpec => []PkgInv
<1>1. PkgInv /\ [PkgNext]_pkgVars => PkgInv'
  BY PkgTypes, PlanningStep, ResolvingStep, DescribingStep, EmittingStep, PkgFixed DEF PkgInv
<1> QED BY <1>1, PkgStart, PTL DEF PkgSpec

(* user-fns.c has every function of the packages that the profiles list,   *)
(* once, and the plan is the list that the resolver makes                  *)
(* (fl-resolve-deps-profiles.c:697-705, fl-build-plan.c:467-500).          *)
THEOREM FunctionsOnce == PkgSpec => []PackagesOnce
<1>1. PkgInv => PackagesOnce
  <2> SUFFICES ASSUME PkgTypeOK, Good, Planning, Resolving, Describing, Emitting, pkgStage = "generated"
               PROVE  /\ NoneTwice(functions)
                      /\ Listed(functions) =
                            {Body(repo.packages[q]) : q \in Wanted \cap DOMAIN repo.packages}
                            \cup {Shim(m) : m \in {n \in {repo.packages[q] : q \in Wanted \cap DOMAIN repo.packages} : ~n.skip}}
                      /\ planned = packages
    BY DEF PkgInv, PackagesOnce
  <2>1. planned = packages
    BY DEF Resolving
  <2>2. /\ metas \in Seq(Metadata) /\ functions \in Seq(CFunctions) /\ Len(metas) <= Len(functions)
        /\ \A k \in DOMAIN metas : k < item /\ metas[k] \in Metadata
        /\ DOMAIN metas \subseteq DOMAIN functions
        /\ \A k \in DOMAIN functions : ~(k > Len(metas)) <=> k \in DOMAIN metas
    BY DEF PkgTypeOK, Emitting
  <2>3. /\ \A k \in DOMAIN metas : functions[k] = Body(metas[k])
        /\ \A k \in DOMAIN functions : k > Len(metas) =>
              \E i \in DOMAIN metas : ~metas[i].skip /\ functions[k] = Shim(metas[i])
        /\ \A i \in DOMAIN metas : ~metas[i].skip => Shim(metas[i]) \in Listed(functions)
        /\ \A k, l \in DOMAIN functions :
              k > Len(metas) /\ l > Len(metas) /\ functions[k] = functions[l] => k = l
    BY <2>2 DEF Emitting
  <2>4. \A k, l \in DOMAIN metas : Normal(metas[k].name) = Normal(metas[l].name) => k = l
    BY DEF Describing
  <2>5. NoneTwice(functions)
    <3> SUFFICES ASSUME NEW k \in DOMAIN functions, NEW l \in DOMAIN functions, functions[k] = functions[l]
                 PROVE  k = l
      BY DEF NoneTwice
    <3>1. CASE k \in DOMAIN metas /\ l \in DOMAIN metas
      BY <2>2, <2>3, <2>4, <3>1, Names
    <3>2. CASE k \in DOMAIN metas /\ l \notin DOMAIN metas
      BY <2>2, <2>3, <3>2, Names
    <3>3. CASE k \notin DOMAIN metas /\ l \in DOMAIN metas
      BY <2>2, <2>3, <3>3, Names
    <3>4. CASE k \notin DOMAIN metas /\ l \notin DOMAIN metas
      BY <2>2, <2>3, <3>4
    <3> QED BY <3>1, <3>2, <3>3, <3>4
  <2> DEFINE there == {repo.packages[q] : q \in Wanted \cap DOMAIN repo.packages}
  <2>6. Listed(metas) = there
    BY DEF Describing
  <2>7. \A f : f \in Listed(functions) <=> \/ \E m \in there : f = Body(m)
                                        \/ \E m \in there : ~m.skip /\ f = Shim(m)
    <3> HIDE DEF there
    <3> SUFFICES ASSUME NEW f
                 PROVE  f \in Listed(functions) <=> \/ \E k \in DOMAIN metas : f = Body(metas[k])
                                                   \/ \E k \in DOMAIN metas : ~metas[k].skip /\ f = Shim(metas[k])
      BY <2>6 DEF Listed
    <3>1. ASSUME f \in Listed(functions)
          PROVE  \/ \E k \in DOMAIN metas : f = Body(metas[k])
                 \/ \E k \in DOMAIN metas : ~metas[k].skip /\ f = Shim(metas[k])
      <4>1. PICK k \in DOMAIN functions : f = functions[k]
        BY <3>1 DEF Listed
      <4> QED BY <2>2, <2>3, <4>1
    <3>2. ASSUME NEW k \in DOMAIN metas PROVE Body(metas[k]) \in Listed(functions)
      BY <2>2, <2>3 DEF Listed
    <3> QED BY <2>3, <3>1, <3>2
  <2> QED BY <2>1, <2>5, <2>7
<1> QED BY <1>1, PackagesInvariant, PTL

-----------------------------------------------------------------------------
(***************************************************************************)
(* Loads.                                                                  *)
(***************************************************************************)
Files == UNION {DOMAIN d : d \in Disks}
Forms == LoadLines \cup {Own(f) : f \in Files}
OpenFiles == [file : Files \cup {Preprocessed}, lines : Seq(Forms), at : Nat \ {0}]
Targets == {Resolve(f.dir, l) : f \in Files, l \in LoadLines}

LoadTypeOK ==
    /\ disk \in Disks
    /\ open \in Seq(OpenFiles)
    /\ visited \subseteq Targets \cup {Root}
    /\ plan \in Seq(Targets) /\ text \in Seq(Forms) /\ nodes \in Seq(Forms)
    /\ loadStage \in {"source", "planning", "planned", "inlining", "text", "expanding", "expanded", "overflow"}
    /\ loadStage \in {"planning", "inlining"} =>
          \A a \in DOMAIN open :
              open[a].file \in DOMAIN disk /\ open[a].lines = Append(disk[open[a].file], Own(open[a].file))

\* the lines that lead into another file
Taken == IF loadStage = "planning" THEN {"line", "inline", "comment"} ELSE {"line"}

\* no file is open twice, and what the lines before the place a file is read at lead
\* to has been visited
Walked(d, st, been, kinds) ==
    /\ Root \in been
    /\ \A a \in DOMAIN st : st[a].file \in been
    /\ \A a, b \in DOMAIN st : st[a].file = st[b].file => a = b
    /\ \A f \in been \cap DOMAIN d : \A i \in DOMAIN d[f] :
          /\ d[f][i].kind \in kinds
          /\ \A a \in DOMAIN st : st[a].file = f => i < st[a].at
          => Resolve(f.dir, d[f][i]) \in been

Walking == loadStage \in {"planning", "inlining"} => Walked(disk, open, visited, Taken)

\* no load in a comment
NoComments == \A f \in Loaded : \A i \in DOMAIN disk[f] : disk[f][i].kind # "comment"

Planned ==
    /\ loadStage = "source" => plan = <<>>
    /\ loadStage = "planning" =>
          /\ visited = Entries(plan) \cup {Root}
          /\ NoComments => visited \cap DOMAIN disk \subseteq Loaded
    /\ loadStage \notin {"source", "planning"} =>
          /\ Loaded \subseteq Entries(plan) \cup {Root}
          /\ NoComments => Entries(plan) \cap DOMAIN disk \subseteq Loaded

\* each text once, after the texts it needs, unless these need it
InOrder(d, seq) ==
    \A i \in DOMAIN seq : \A g \in Needs(d, seq[i].file) :
        seq[i].file \in From(d, g) \/ \E j \in DOMAIN seq : j < i /\ seq[j] = Own(g)

Inlining ==
    /\ loadStage \in {"source", "planning", "planned"} => text = <<>> /\ nodes = <<>>
    /\ loadStage = "inlining" =>
          /\ visited \cap DOMAIN disk \subseteq Loaded
          /\ \A a, b \in DOMAIN open : a <= b => open[b].file \in From(disk, open[a].file)
          /\ \A a \in DOMAIN open : a = Len(open) \/ open[a].at <= Len(open[a].lines)
          /\ \A i \in DOMAIN text : \E f \in visited \cap DOMAIN disk : text[i] = Own(f)
          /\ \A f \in visited \cap DOMAIN disk :
                Own(f) \in Entries(text)
                <=> \A a \in DOMAIN open : open[a].file = f => open[a].at > Len(open[a].lines)
          /\ nodes = <<>>
    /\ loadStage \in {"text", "expanding", "expanded"} => Entries(text) = {Own(f) : f \in Loaded}
    /\ NoneTwice(text) /\ InOrder(disk, text)

Expanding ==
    /\ loadStage # "overflow"
    /\ loadStage = "text" => nodes = <<>>
    /\ loadStage = "expanding" =>
          /\ Len(open) = 1 /\ open[1].lines = text
          /\ Len(nodes) = open[1].at - 1 /\ Len(nodes) <= Len(text)
          /\ \A i \in DOMAIN nodes : nodes[i] = text[i]
    /\ loadStage = "expanded" => nodes = text

LoadInv == LoadTypeOK /\ Walking /\ Planned /\ (Tidy => Inlining /\ Expanding)

-----------------------------------------------------------------------------
(* The files that a file leads to: itself, what it needs, and nothing that *)
(* a closed set with it leaves out.                                        *)
LEMMA FromSelf == ASSUME NEW d, NEW f \in DOMAIN d PROVE f \in From(d, f)
BY DEF From

LEMMA FromNeeds ==
    ASSUME NEW d, NEW r, NEW f \in From(d, r), NEW g \in Needs(d, f)
    PROVE  g \in From(d, r)
<1>1. g \in DOMAIN d
  BY DEF Needs
<1>2. ASSUME NEW S \in SUBSET DOMAIN d, r \in S, Closed(d, S) PROVE g \in S
  BY <1>2 DEF From, Closed
<1> QED BY <1>1, <1>2 DEF From

LEMMA FromClosed ==
    ASSUME NEW d, NEW S \in SUBSET DOMAIN d, NEW r \in S, Closed(d, S)
    PROVE  From(d, r) \subseteq S
BY DEF From

(* What the steps do to the stack of open files.                           *)
LEMMA Advance ==
    ASSUME NEW st \in Seq(OpenFiles), st # <<>>,
           NEW next, next = [st EXCEPT ![Len(st)].at = @ + 1]
    PROVE  /\ next \in Seq(OpenFiles) /\ Len(next) = Len(st) /\ DOMAIN next = DOMAIN st
           /\ \A a \in DOMAIN st : /\ next[a].file = st[a].file /\ next[a].lines = st[a].lines
                                   /\ next[a].at = IF a = Len(st) THEN st[a].at + 1 ELSE st[a].at
<1>1. Len(st) \in DOMAIN st /\ \A a \in DOMAIN st : st[a] \in OpenFiles
  OBVIOUS
<1>2. [st[Len(st)] EXCEPT !.at = @ + 1] \in OpenFiles
  <2>1. ASSUME NEW x \in OpenFiles PROVE [x EXCEPT !.at = @ + 1] \in OpenFiles
    <3>1. x.at + 1 \in Nat \ {0}
      BY DEF OpenFiles
    <3> QED BY <3>1 DEF OpenFiles
  <2> QED BY <1>1, <2>1
<1>3. next = [st EXCEPT ![Len(st)] = [st[Len(st)] EXCEPT !.at = @ + 1]]
  OBVIOUS
<1>4. next \in Seq(OpenFiles) /\ Len(next) = Len(st)
  BY <1>1, <1>2, <1>3, ExceptSeq
<1>5. /\ next[Len(st)] = [st[Len(st)] EXCEPT !.at = @ + 1]
      /\ \A a \in DOMAIN st : a # Len(st) => next[a] = st[a]
  BY <1>1, <1>3
<1> QED BY <1>1, <1>4, <1>5 DEF OpenFiles

LEMMA Push ==
    ASSUME NEW st \in Seq(OpenFiles), NEW x \in OpenFiles, NEW next, next = Append(st, x)
    PROVE  /\ next \in Seq(OpenFiles) /\ Len(next) = Len(st) + 1 /\ Len(st) \in Nat
           /\ DOMAIN next = DOMAIN st \cup {Len(st) + 1}
           /\ next[Len(st) + 1] = x /\ \A a \in DOMAIN st : next[a] = st[a] /\ a \in Nat /\ a < Len(st) + 1
OBVIOUS

LEMMA Pop ==
    ASSUME NEW st \in Seq(OpenFiles), st # <<>>, NEW next, next = SubSeq(st, 1, Len(st) - 1)
    PROVE  /\ next \in Seq(OpenFiles) /\ Len(next) = Len(st) - 1 /\ Len(st) \in Nat
           /\ DOMAIN next = DOMAIN st \ {Len(st)} /\ Len(st) \in DOMAIN st
           /\ \A a \in DOMAIN next : next[a] = st[a]
<1>1. Len(st) \in Nat \ {0} /\ \A i \in 1 .. Len(st) - 1 : st[i] \in OpenFiles
  OBVIOUS
<1>2. next \in Seq(OpenFiles) /\ Len(next) = Len(st) - 1 /\ \A i \in 1 .. Len(st) - 1 : next[i] = st[i]
  <2> DEFINE n == Len(st) - 1
  <2>1. n \in Nat /\ \A i \in 1 .. n : st[i] \in OpenFiles
    BY <1>1
  <2> HIDE DEF n
  <2>2. /\ SubSeq(st, 1, n) \in Seq(OpenFiles) /\ Len(SubSeq(st, 1, n)) = IF 1 <= n THEN n - 1 + 1 ELSE 0
        /\ \A i \in 1 .. n - 1 + 1 : SubSeq(st, 1, n)[i] = st[1 + i - 1]
    BY <2>1, SubSeqProperties
  <2>3. Len(SubSeq(st, 1, n)) = n /\ \A i \in 1 .. n : SubSeq(st, 1, n)[i] = st[i]
    BY <2>1, <2>2
  <2> QED BY <2>2, <2>3 DEF n
<1> QED BY <1>1, <1>2

LEMMA DiskTypes ==
    ASSUME LoadTypeOK
    PROVE  /\ Root \in DOMAIN disk /\ DOMAIN disk \subseteq Files
           /\ \A f \in DOMAIN disk : disk[f] \in Seq(LoadLines) /\ Own(f) \in Forms
           /\ \A f : Own(f) \notin LoadLines /\ Own(f).kind = "own" /\ Own(f).file = f
BY LoadsAssumption DEF LoadTypeOK, Files, Forms, Own, LoadLines

LEMMA Opening ==
    ASSUME LoadTypeOK, NEW f \in DOMAIN disk
    PROVE  /\ OpenFile(f) \in OpenFiles
           /\ OpenFile(f).file = f /\ OpenFile(f).at = 1 /\ OpenFile(f).lines = Append(disk[f], Own(f))
<1>1. Append(disk[f], Own(f)) \in Seq(Forms)
  <2>1. disk[f] \in Seq(Forms)
    BY DiskTypes DEF Forms
  <2> QED BY <2>1, DiskTypes
<1> QED BY <1>1, DiskTypes DEF OpenFile, Opened, OpenFiles

(* The lines of an open file are its loads, and then its text.             *)
LEMMA LinesOf ==
    ASSUME LoadTypeOK, loadStage \in {"planning", "inlining"}, NEW a \in DOMAIN open, NEW f, f = open[a].file
    PROVE  /\ f \in DOMAIN disk /\ disk[f] \in Seq(LoadLines) /\ Len(disk[f]) \in Nat
           /\ open[a].lines = Append(disk[f], Own(f)) /\ Len(open[a].lines) = Len(disk[f]) + 1
           /\ \A i \in DOMAIN disk[f] : open[a].lines[i] = disk[f][i]
           /\ open[a].lines[Len(disk[f]) + 1] = Own(f)
           /\ open[a].at \in Nat \ {0}
<1>1. /\ f \in DOMAIN disk /\ open[a].lines = Append(disk[f], Own(f)) /\ open[a] \in OpenFiles
  BY DEF LoadTypeOK
<1>2. disk[f] \in Seq(LoadLines)
  BY <1>1, DiskTypes
<1> QED BY <1>1, <1>2 DEF OpenFiles

(* The line that is read.                                                  *)
LEMMA LineRead ==
    ASSUME LoadTypeOK, NEW kinds, Reading(kinds)
    PROVE  /\ open # <<>> /\ Len(open) \in DOMAIN open /\ Inner = open[Len(open)] /\ Inner \in OpenFiles
           /\ Inner.at \in DOMAIN Inner.lines /\ Line = Inner.lines[Inner.at] /\ Line \in Forms
           /\ Line.kind \in kinds
           /\ "own" \notin kinds => Line \in LoadLines
<1>1. Len(open) \in DOMAIN open /\ Inner = open[Len(open)] /\ Inner \in OpenFiles /\ Line.kind \in kinds
  BY DEF Reading, Inner, LoadTypeOK
<1>2. Inner.at \in 1 .. Len(Inner.lines) /\ Inner.lines \in Seq(Forms)
  BY <1>1 DEF Reading, OpenFiles
<1>3. Line = Inner.lines[Inner.at] /\ Line \in Forms
  BY <1>2 DEF Line
<1>4. "own" \notin kinds => Line \in LoadLines
  <2>1. Line \in LoadLines \/ \E f \in Files : Line = Own(f)
    BY <1>3 DEF Forms
  <2> QED BY <1>1, <2>1, DiskTypes
<1> QED BY <1>1, <1>2, <1>3, <1>4 DEF Reading

LEMMA LoadsFixed ==
    ASSUME [LoadsNext]_loadVars
    PROVE  disk' = disk /\ Loaded' = Loaded /\ (Tidy' <=> Tidy) /\ (NoComments' <=> NoComments)
<1>1. disk' = disk
  BY DEF LoadsNext, loadVars, Plan, CollectLoad, CollectText, CollectReturn, Preprocess, InlineLoad, InlineText,
         InlineReturn, ExpandLoads, ExpandLoad, ExpandText, ExpandReturn, Return
<1>2. Loaded' = Loaded
  BY <1>1 DEF Loaded
<1> QED BY <1>1, <1>2 DEF Tidy, NoComments

(* Where a step that reads a load goes.                                    *)
LEMMA Going ==
    ASSUME LoadTypeOK, NEW kinds, Reading(kinds), NEW g, NEW goes \in BOOLEAN
    PROVE  /\ Advanced \in Seq(OpenFiles) /\ Into(g, goes) \in Seq(OpenFiles)
           /\ Len(Advanced) = Len(open) /\ DOMAIN Advanced = DOMAIN open /\ Len(open) \in Nat
           /\ \A a \in DOMAIN open :
                 /\ Advanced[a].file = open[a].file /\ Advanced[a].lines = open[a].lines
                 /\ Advanced[a].at = IF a = Len(open) THEN open[a].at + 1 ELSE open[a].at
           /\ goes /\ Exists(g) =>
                 /\ Len(Into(g, goes)) = Len(open) + 1
                 /\ DOMAIN Into(g, goes) = DOMAIN open \cup {Len(open) + 1}
                 /\ Into(g, goes)[Len(open) + 1] = OpenFile(g)
                 /\ \A a \in DOMAIN open : Into(g, goes)[a] = Advanced[a] /\ a \in Nat /\ a < Len(open) + 1
           /\ ~(goes /\ Exists(g)) => Into(g, goes) = Advanced
<1>1. open \in Seq(OpenFiles) /\ open # <<>>
  BY LineRead DEF LoadTypeOK
<1>2. Advanced = [open EXCEPT ![Len(open)].at = @ + 1]
  BY DEF Advanced
<1>3. /\ Advanced \in Seq(OpenFiles) /\ Len(Advanced) = Len(open) /\ DOMAIN Advanced = DOMAIN open
      /\ \A a \in DOMAIN open :
            /\ Advanced[a].file = open[a].file /\ Advanced[a].lines = open[a].lines
            /\ Advanced[a].at = IF a = Len(open) THEN open[a].at + 1 ELSE open[a].at
  BY <1>1, <1>2, Advance
<1>4. Len(open) \in Nat
  BY <1>1
<1>5. CASE goes /\ Exists(g)
  <2>1. Into(g, goes) = Append(Advanced, OpenFile(g)) /\ OpenFile(g) \in OpenFiles
    BY <1>5, Opening DEF Into, Exists
  <2>2. /\ Into(g, goes) \in Seq(OpenFiles) /\ Len(Into(g, goes)) = Len(open) + 1
        /\ DOMAIN Into(g, goes) = DOMAIN open \cup {Len(open) + 1} /\ Into(g, goes)[Len(open) + 1] = OpenFile(g)
        /\ \A a \in DOMAIN open : Into(g, goes)[a] = Advanced[a] /\ a \in Nat /\ a < Len(open) + 1
    BY <1>3, <2>1, Push
  <2> QED BY <1>3, <1>4, <1>5, <2>2
<1>6. CASE ~(goes /\ Exists(g))
  <2>1. Into(g, goes) = Advanced
    BY <1>6 DEF Into
  <2> QED BY <1>3, <1>4, <1>6, <2>1
<1> QED BY <1>5, <1>6

\* the step into the first file
LEMMA Started ==
    ASSUME NEW x \in OpenFiles, NEW st, st = <<x>>
    PROVE  st \in Seq(OpenFiles) /\ Len(st) = 1 /\ DOMAIN st = {1} /\ st[1] = x
OBVIOUS

LEMMA LoadTypes == LoadTypeOK /\ [LoadsNext]_loadVars => LoadTypeOK'
<1> SUFFICES ASSUME LoadTypeOK, [LoadsNext]_loadVars PROVE LoadTypeOK'
  OBVIOUS
<1>1. /\ disk \in Disks /\ disk' = disk /\ open \in Seq(OpenFiles)
      /\ visited \subseteq Targets \cup {Root}
      /\ plan \in Seq(Targets) /\ text \in Seq(Forms) /\ nodes \in Seq(Forms)
      /\ loadStage \in {"planning", "inlining"} =>
            \A a \in DOMAIN open :
                open[a].file \in DOMAIN disk /\ open[a].lines = Append(disk[open[a].file], Own(open[a].file))
  BY LoadsFixed DEF LoadTypeOK
<1>2. CASE Plan \/ Preprocess
  <2>1. /\ open' = <<OpenFile(Root)>> /\ visited' = {Root} /\ plan' = plan /\ text' = text /\ nodes' = nodes
        /\ loadStage' \in {"planning", "inlining"}
    BY <1>2 DEF Plan, Preprocess
  <2>2. OpenFile(Root) \in OpenFiles /\ OpenFile(Root).file = Root /\ Root \in DOMAIN disk
        /\ OpenFile(Root).lines = Append(disk[Root], Own(Root))
    BY DiskTypes, Opening
  <2>3. open' \in Seq(OpenFiles) /\ DOMAIN open' = {1} /\ open'[1] = OpenFile(Root)
    BY <2>1, <2>2, Started
  <2>4. \A a \in DOMAIN open' : open'[a].file \in DOMAIN disk /\ open'[a].lines = Append(disk[open'[a].file], Own(open'[a].file))
    BY <2>2, <2>3
  <2> QED BY <1>1, <2>1, <2>3, <2>4 DEF LoadTypeOK
<1>3. ASSUME NEW kinds, Reading(kinds), loadStage \in {"planning", "inlining"}, NEW g, NEW goes \in BOOLEAN,
             open' = Into(g, goes)
      PROVE  /\ open' \in Seq(OpenFiles)
             /\ \A a \in DOMAIN open' :
                   open'[a].file \in DOMAIN disk /\ open'[a].lines = Append(disk[open'[a].file], Own(open'[a].file))
  <2>1. open' \in Seq(OpenFiles)
    BY <1>3, Going
  <2>2. CASE goes /\ Exists(g)
    <3>1. /\ DOMAIN open' = DOMAIN open \cup {Len(open) + 1} /\ open'[Len(open) + 1] = OpenFile(g)
          /\ \A a \in DOMAIN open : open'[a].file = open[a].file /\ open'[a].lines = open[a].lines
      BY <1>3, <2>2, Going
    <3>2. g \in DOMAIN disk /\ OpenFile(g).file = g /\ OpenFile(g).lines = Append(disk[g], Own(g))
      BY <2>2, Opening DEF Exists
    <3> QED BY <1>1, <1>3, <2>1, <3>1, <3>2
  <2>3. CASE ~(goes /\ Exists(g))
    <3>1. DOMAIN open' = DOMAIN open /\ \A a \in DOMAIN open : open'[a].file = open[a].file /\ open'[a].lines = open[a].lines
      BY <1>3, <2>3, Going
    <3> QED BY <1>1, <1>3, <2>1, <3>1
  <2> QED BY <2>2, <2>3
<1>4. ASSUME NEW kinds, Reading(kinds), loadStage \in {"planning", "inlining"}, "own" \notin kinds
      PROVE  Resolve(Inner.file.dir, Line) \in Targets
  <2>1. Line \in LoadLines /\ Inner.file \in Files
    BY <1>1, <1>4, LineRead, DiskTypes
  <2> QED BY <2>1 DEF Targets
<1>5. CASE CollectLoad
  <2>1. "own" \notin {"line", "inline", "comment"}
    OBVIOUS
  <2>2. PICK g : /\ g \in Targets /\ plan' = Append(plan, g) /\ visited' = visited \cup {g}
                 /\ open' = Into(g, g \notin visited)
    BY <1>4, <1>5, <2>1 DEF CollectLoad, Target
  <2>3. plan' \in Seq(Targets) /\ visited' \subseteq Targets \cup {Root}
    BY <1>1, <2>2, Longer
  <2>4. (g \notin visited) \in BOOLEAN
    OBVIOUS
  <2>5. /\ open' \in Seq(OpenFiles)
        /\ \A a \in DOMAIN open' :
              open'[a].file \in DOMAIN disk /\ open'[a].lines = Append(disk[open'[a].file], Own(open'[a].file))
    BY <1>3, <1>5, <2>2, <2>4 DEF CollectLoad
  <2> QED BY <1>1, <1>5, <2>3, <2>5 DEF CollectLoad, LoadTypeOK
<1>6. CASE CollectText \/ InlineText
  <2>1. PICK kinds : Reading(kinds)
    BY <1>6 DEF CollectText, InlineText
  <2>2. open' = Into(Root, FALSE) /\ loadStage' = loadStage /\ loadStage \in {"planning", "inlining"}
        /\ visited' = visited /\ plan' = plan /\ nodes' = nodes
    BY <1>6 DEF CollectText, InlineText, Into
  <2>3. /\ open' \in Seq(OpenFiles)
        /\ \A a \in DOMAIN open' :
              open'[a].file \in DOMAIN disk /\ open'[a].lines = Append(disk[open'[a].file], Own(open'[a].file))
    BY <1>3, <2>1, <2>2
  <2>4. text' \in Seq(Forms)
    <3>1. text' = text \/ text' = Append(text, Line)
      BY <1>6 DEF CollectText, InlineText
    <3>2. Line \in Forms
      BY <2>1, LineRead
    <3> QED BY <1>1, <3>1, <3>2, Longer
  <2> QED BY <1>1, <2>2, <2>3, <2>4 DEF LoadTypeOK
<1>7. CASE InlineLoad
  <2>1. "own" \notin {"line"}
    OBVIOUS
  <2>2. PICK g : g \in Targets /\ visited' = visited \cup {g} /\ open' = Into(g, New(g))
    BY <1>4, <1>7, <2>1 DEF InlineLoad
  <2>3. New(g) \in BOOLEAN
    BY DEF New
  <2>4. /\ open' \in Seq(OpenFiles)
        /\ \A a \in DOMAIN open' :
              open'[a].file \in DOMAIN disk /\ open'[a].lines = Append(disk[open'[a].file], Own(open'[a].file))
    BY <1>3, <1>7, <2>2, <2>3 DEF InlineLoad
  <2> QED BY <1>1, <1>7, <2>2, <2>4 DEF InlineLoad, LoadTypeOK
<1>8. CASE CollectReturn \/ InlineReturn \/ ExpandReturn
  <2>1. /\ open # <<>> /\ open' = SubSeq(open, 1, Len(open) - 1)
        /\ visited' = visited /\ plan' = plan /\ text' = text /\ nodes' = nodes
        /\ loadStage' = loadStage \/ loadStage' \in {"planned", "text", "expanded"}
    BY <1>8 DEF CollectReturn, InlineReturn, ExpandReturn, Return
  <2>2. open' \in Seq(OpenFiles) /\ DOMAIN open' \subseteq DOMAIN open /\ \A a \in DOMAIN open' : open'[a] = open[a]
    BY <1>1, <2>1, Pop
  <2> QED BY <1>1, <2>1, <2>2 DEF LoadTypeOK
<1>9. CASE ExpandLoads
  <2>1. Opened(Preprocessed, text) \in OpenFiles
    BY <1>1 DEF Opened, OpenFiles
  <2>2. open' \in Seq(OpenFiles)
    BY <1>9, <2>1, Started DEF ExpandLoads
  <2> QED BY <1>1, <1>9, <2>2 DEF ExpandLoads, LoadTypeOK
<1>10. CASE ExpandLoad
  <2>1. PICK g : open' = Into(g, ~(Len(open) > Depth))
    BY <1>10 DEF ExpandLoad
  <2>2. Reading({"line", "inline"}) /\ (~(Len(open) > Depth)) \in BOOLEAN
    BY <1>10 DEF ExpandLoad
  <2>3. open' \in Seq(OpenFiles)
    BY <2>1, <2>2, Going
  <2> QED BY <1>1, <1>10, <2>3 DEF ExpandLoad, LoadTypeOK
<1>11. CASE ExpandText
  <2>1. Reading({"comment", "own"})
    BY <1>11 DEF ExpandText
  <2>2. open' = Advanced /\ Line \in Forms
    BY <1>11, <2>1, LineRead DEF ExpandText
  <2>3. open' \in Seq(OpenFiles)
    <3>1. FALSE \in BOOLEAN
      OBVIOUS
    <3> QED BY <2>1, <2>2, <3>1, Going
  <2>4. nodes' \in Seq(Forms)
    BY <1>1, <1>11, <2>2, Longer DEF ExpandText
  <2> QED BY <1>1, <1>11, <2>3, <2>4 DEF ExpandText, LoadTypeOK
<1>12. CASE UNCHANGED loadVars
  BY <1>12 DEF loadVars, LoadTypeOK
<1> QED BY <1>2, <1>5, <1>6, <1>7, <1>8, <1>9, <1>10, <1>11, <1>12 DEF LoadsNext

-----------------------------------------------------------------------------
(* The line that is read is a load of the innermost file, or its text.     *)
LEMMA LoadRead ==
    ASSUME LoadTypeOK, loadStage \in {"planning", "inlining"}, NEW kinds, Reading(kinds), NEW f, f = Inner.file
    PROVE  /\ f \in DOMAIN disk /\ disk[f] \in Seq(LoadLines)
           /\ \/ Inner.at \in DOMAIN disk[f] /\ Line = disk[f][Inner.at] /\ Line.kind # "own"
              \/ Inner.at = Len(disk[f]) + 1 /\ Line = Own(f) /\ Line.kind = "own"
<1>1. /\ Len(open) \in DOMAIN open /\ Inner = open[Len(open)] /\ Inner.at \in DOMAIN Inner.lines
      /\ Line = Inner.lines[Inner.at]
  BY LineRead
<1>2. /\ f \in DOMAIN disk /\ disk[f] \in Seq(LoadLines) /\ Len(disk[f]) \in Nat
      /\ Inner.lines = Append(disk[f], Own(f)) /\ Len(Inner.lines) = Len(disk[f]) + 1
      /\ \A i \in DOMAIN disk[f] : Inner.lines[i] = disk[f][i]
      /\ Inner.lines[Len(disk[f]) + 1] = Own(f)
  BY <1>1, LinesOf
<1>3. Inner.at \in DOMAIN disk[f] \/ Inner.at = Len(disk[f]) + 1
  BY <1>1, <1>2
<1>4. CASE Inner.at \in DOMAIN disk[f]
  <2>1. Line = disk[f][Inner.at] /\ disk[f][Inner.at] \in LoadLines
    BY <1>1, <1>2, <1>4
  <2> QED BY <1>2, <1>4, <2>1 DEF LoadLines
<1>5. CASE Inner.at = Len(disk[f]) + 1
  BY <1>1, <1>2, <1>5, DiskTypes
<1> QED BY <1>2, <1>3, <1>4, <1>5

LEMMA WalkLoad ==
    ASSUME LoadTypeOK, loadStage \in {"planning", "inlining"}, NEW kinds, Reading(kinds), "own" \notin kinds,
           Walked(disk, open, visited, kinds),
           NEW g, g = Resolve(Inner.file.dir, Line), NEW goes \in BOOLEAN, goes <=> g \notin visited,
           NEW st, st = Into(g, goes), NEW been, been = visited \cup {g}
    PROVE  Walked(disk, st, been, kinds)
<1> DEFINE f == Inner.file
           last == Len(open)
<1>1. /\ open \in Seq(OpenFiles) /\ last \in DOMAIN open /\ Inner = open[last] /\ open[last].at \in Nat
  BY LineRead DEF LoadTypeOK, OpenFiles
<1>2. f \in DOMAIN disk /\ Inner.at \in DOMAIN disk[f] /\ Line = disk[f][Inner.at] /\ disk[f] \in Seq(LoadLines)
  BY LoadRead, LineRead
<1>3. /\ \A a \in DOMAIN open : /\ a \in DOMAIN st /\ st[a].file = open[a].file
                                /\ st[a].at = IF a = last THEN open[a].at + 1 ELSE open[a].at
      /\ \A a \in DOMAIN st : a \notin DOMAIN open =>
            g \notin visited /\ a = last + 1 /\ st[a].file = g /\ st[a].at = 1
      /\ g \notin visited /\ g \in DOMAIN disk => last + 1 \in DOMAIN st /\ last + 1 \notin DOMAIN open
  <2>1. last \in Nat
    BY <1>1
  <2>2. CASE goes /\ Exists(g)
    <3>1. /\ DOMAIN st = DOMAIN open \cup {last + 1} /\ st[last + 1] = OpenFile(g)
          /\ \A a \in DOMAIN open : a < last + 1
                /\ st[a].file = open[a].file
                /\ st[a].at = IF a = last THEN open[a].at + 1 ELSE open[a].at
      BY ZenonT(40), <2>2, Going
    <3>2. OpenFile(g).file = g /\ OpenFile(g).at = 1
      BY <2>2, Opening DEF Exists
    <3>3. last + 1 \notin DOMAIN open
      BY <2>1, <3>1
    <3> HIDE DEF last, f
    <3>4. \A a \in DOMAIN open : /\ a \in DOMAIN st /\ st[a].file = open[a].file
                                 /\ st[a].at = IF a = last THEN open[a].at + 1 ELSE open[a].at
      BY <3>1
    <3>5. \A a \in DOMAIN st : a \notin DOMAIN open =>
             g \notin visited /\ a = last + 1 /\ st[a].file = g /\ st[a].at = 1
      BY <2>2, <3>1, <3>2
    <3>6. last + 1 \in DOMAIN st
      BY <3>1
    <3> QED BY <3>3, <3>4, <3>5, <3>6
  <2>3. CASE ~(goes /\ Exists(g))
    <3>1. st = Advanced
      BY <2>3, Going
    <3>2. /\ DOMAIN st = DOMAIN open
          /\ \A a \in DOMAIN open :
                /\ st[a].file = open[a].file
                /\ st[a].at = IF a = last THEN open[a].at + 1 ELSE open[a].at
      BY <3>1, Going
    <3> QED BY <2>3, <3>2 DEF Exists
  <2> QED BY <2>2, <2>3
<1>4. /\ Root \in visited /\ \A a \in DOMAIN open : open[a].file \in visited
      /\ \A a, b \in DOMAIN open : open[a].file = open[b].file => a = b
  BY DEF Walked
<1>5. \A a \in DOMAIN st : st[a].file \in been
  BY <1>3, <1>4
<1>6. \A a, b \in DOMAIN st : st[a].file = st[b].file => a = b
  BY <1>3, <1>4
<1>7. ASSUME NEW h \in been \cap DOMAIN disk, NEW i \in DOMAIN disk[h], disk[h][i].kind \in kinds,
             \A a \in DOMAIN st : st[a].file = h => i < st[a].at
      PROVE  Resolve(h.dir, disk[h][i]) \in been
  <2>0. i \in Nat \ {0}
    BY <1>7, DiskTypes
  <2>1. CASE h \notin visited
    <3>1. last + 1 \in DOMAIN st /\ st[last + 1].file = h /\ st[last + 1].at = 1
      BY <1>3, <1>7, <2>1
    <3>2. i < 1
      BY <1>7, <3>1
    <3> QED BY <2>0, <3>2
  <2>2. CASE h \in visited /\ h = f /\ i = Inner.at
    BY <1>2, <2>2
  <2>3. CASE h \in visited /\ ~(h = f /\ i = Inner.at)
    <3>1. ASSUME NEW a \in DOMAIN open, open[a].file = h PROVE i < open[a].at
      <4>1. i < st[a].at
        BY <1>3, <1>7, <3>1
      <4>2. CASE a = last
        BY <1>1, <1>3, <2>0, <2>3, <3>1, <4>1, <4>2
      <4>3. CASE a # last
        BY <1>3, <4>1, <4>3
      <4> QED BY <4>2, <4>3
    <3> QED BY <1>7, <2>3, <3>1 DEF Walked
  <2> QED BY <2>1, <2>2, <2>3
<1> HIDE DEF f, last
<1> QED BY <1>4, <1>5, <1>6, <1>7 DEF Walked

LEMMA WalkText ==
    ASSUME LoadTypeOK, loadStage \in {"planning", "inlining"}, NEW kinds, Reading(kinds), NEW taken,
           Walked(disk, open, visited, taken), kinds \cap taken = {}
    PROVE  Walked(disk, Advanced, visited, taken)
<1> DEFINE f == Inner.file
           last == Len(open)
           st == Advanced
<1>1. /\ open \in Seq(OpenFiles) /\ last \in DOMAIN open /\ Inner = open[last] /\ open[last].at \in Nat
      /\ Line.kind \in kinds
  BY LineRead DEF LoadTypeOK, OpenFiles
<1>2. f \in DOMAIN disk /\ disk[f] \in Seq(LoadLines) /\ (Inner.at \in DOMAIN disk[f] => Line = disk[f][Inner.at])
  BY LoadRead
<1>3. FALSE \in BOOLEAN
  OBVIOUS
<1>4. DOMAIN st = DOMAIN open /\ \A a \in DOMAIN open :
         st[a].file = open[a].file /\ st[a].at = IF a = last THEN open[a].at + 1 ELSE open[a].at
  BY <1>3, Going
<1> HIDE DEF st
<1>5. ASSUME NEW h \in visited \cap DOMAIN disk, NEW i \in DOMAIN disk[h], disk[h][i].kind \in taken,
             \A a \in DOMAIN st : st[a].file = h => i < st[a].at
      PROVE  Resolve(h.dir, disk[h][i]) \in visited
  <2>0. i \in Nat
    BY <1>5, DiskTypes
  <2>1. ~(h = f /\ i = Inner.at)
    BY <1>1, <1>2, <1>5
  <2>2. ASSUME NEW a \in DOMAIN open, open[a].file = h PROVE i < open[a].at
    <3>1. i < st[a].at
      BY <1>4, <1>5, <2>2
    <3>2. CASE a = last
      BY <1>1, <1>4, <2>0, <2>1, <2>2, <3>1, <3>2
    <3>3. CASE a # last
      BY <1>4, <3>1, <3>3
    <3> QED BY <3>2, <3>3
  <2> QED BY <1>5, <2>2 DEF Walked
<1> HIDE DEF f, last
<1>6. Walked(disk, st, visited, taken)
  BY <1>4, <1>5 DEF Walked
<1> QED BY <1>6 DEF st

LEMMA WalkReturn ==
    ASSUME LoadTypeOK, loadStage \in {"planning", "inlining"}, open # <<>>, Inner.at > Len(Inner.lines),
           NEW taken, Walked(disk, open, visited, taken), NEW st, st = SubSeq(open, 1, Len(open) - 1)
    PROVE  Walked(disk, st, visited, taken)
<1> DEFINE last == Len(open)
<1>1. /\ DOMAIN st = DOMAIN open \ {last} /\ last \in DOMAIN open /\ \A a \in DOMAIN st : st[a] = open[a]
  BY Pop DEF LoadTypeOK
<1>2. /\ Inner = open[last] /\ Len(disk[Inner.file]) \in Nat /\ Len(Inner.lines) = Len(disk[Inner.file]) + 1
      /\ Inner.at \in Nat
  BY <1>1, LinesOf DEF Inner
<1>3. ASSUME NEW h \in visited \cap DOMAIN disk, NEW i \in DOMAIN disk[h], disk[h][i].kind \in taken,
             \A a \in DOMAIN st : st[a].file = h => i < st[a].at
      PROVE  Resolve(h.dir, disk[h][i]) \in visited
  <2>1. i \in Nat /\ i <= Len(disk[h])
    BY DiskTypes
  <2>2. ASSUME NEW a \in DOMAIN open, open[a].file = h PROVE i < open[a].at
    <3>1. CASE a = last
      BY <1>2, <2>1, <2>2, <3>1
    <3>2. CASE a # last
      BY <1>1, <1>3, <2>2, <3>2
    <3> QED BY <3>1, <3>2
  <2> QED BY <1>3, <2>2 DEF Walked
<1> QED BY <1>1, <1>3 DEF Walked

LEMMA WalkingStep == LoadTypeOK /\ Walking /\ [LoadsNext]_loadVars => Walking'
<1> SUFFICES ASSUME LoadTypeOK, Walking, [LoadsNext]_loadVars PROVE Walking'
  OBVIOUS
<1>1. loadStage \in {"planning", "inlining"} => Walked(disk, open, visited, Taken)
  BY DEF Walking
<1>2. disk' = disk
  BY LoadsFixed
<1>3. ASSUME loadStage' \in {"planning", "inlining"} => Walked(disk, open', visited', Taken') PROVE Walking'
  BY <1>2, <1>3 DEF Walking
<1>4. CASE Plan \/ Preprocess
  <2>1. open' = <<OpenFile(Root)>> /\ visited' = {Root}
    BY <1>4 DEF Plan, Preprocess
  <2>2. DOMAIN open' = {1} /\ open'[1].file = Root /\ open'[1].at = 1 /\ Root \in DOMAIN disk
    BY <2>1, DiskTypes, Opening, Started
  <2>3. \A i \in DOMAIN disk[Root] : ~(i < 1)
    BY DiskTypes
  <2>4. Walked(disk, open', visited', Taken')
    BY <2>1, <2>2, <2>3 DEF Walked
  <2> QED BY <1>3, <2>4
<1>5. CASE CollectLoad
  <2>1. /\ loadStage = "planning" /\ loadStage' = "planning" /\ Taken = {"line", "inline", "comment"} /\ Taken' = Taken
        /\ Reading(Taken) /\ "own" \notin Taken
    BY <1>5 DEF CollectLoad, Taken
  <2>2. PICK g : g = Resolve(Inner.file.dir, Line) /\ open' = Into(g, g \notin visited) /\ visited' = visited \cup {g}
    BY <1>5 DEF CollectLoad, Target
  <2>3. (g \notin visited) \in BOOLEAN
    OBVIOUS
  <2>4. Walked(disk, open', visited', Taken)
    BY <1>1, <2>1, <2>2, <2>3, WalkLoad
  <2> QED BY <1>3, <2>1, <2>4
<1>6. CASE InlineLoad
  <2>1. /\ loadStage = "inlining" /\ loadStage' = "inlining" /\ Taken = {"line"} /\ Taken' = Taken
        /\ Reading(Taken) /\ "own" \notin Taken
    BY <1>6 DEF InlineLoad, Taken
  <2>2. PICK g : g = Resolve(Inner.file.dir, Line) /\ open' = Into(g, New(g)) /\ visited' = visited \cup {g}
    BY <1>6 DEF InlineLoad
  <2>3. New(g) \in BOOLEAN /\ (New(g) <=> g \notin visited)
    BY <2>1 DEF New, OnStack, Walking, Walked
  <2>4. Walked(disk, open', visited', Taken)
    BY <1>1, <2>1, <2>2, <2>3, WalkLoad
  <2> QED BY <1>3, <2>1, <2>4
<1>7. CASE CollectText
  <2>1. /\ loadStage = "planning" /\ loadStage' = "planning" /\ Taken = {"line", "inline", "comment"} /\ Taken' = Taken
        /\ Reading({"own"}) /\ open' = Advanced /\ visited' = visited
    BY <1>7 DEF CollectText, Taken
  <2>2. {"own"} \cap Taken = {}
    BY <2>1
  <2> QED BY <1>1, <1>3, <2>1, <2>2, WalkText
<1>8. CASE InlineText
  <2>1. /\ loadStage = "inlining" /\ loadStage' = "inlining" /\ Taken = {"line"} /\ Taken' = Taken
        /\ Reading({"inline", "comment", "own"}) /\ open' = Advanced /\ visited' = visited
    BY <1>8 DEF InlineText, Taken
  <2>2. {"inline", "comment", "own"} \cap Taken = {}
    BY <2>1
  <2> QED BY <1>1, <1>3, <2>1, <2>2, WalkText
<1>9. CASE CollectReturn \/ InlineReturn
  <2>1. /\ loadStage \in {"planning", "inlining"} /\ open # <<>> /\ Inner.at > Len(Inner.lines)
        /\ open' = SubSeq(open, 1, Len(open) - 1) /\ visited' = visited
        /\ loadStage' = loadStage \/ loadStage' \notin {"planning", "inlining"}
    BY <1>9 DEF CollectReturn, InlineReturn, Return
  <2>2. Walked(disk, open', visited', Taken)
    BY <1>1, <2>1, WalkReturn
  <2>3. loadStage' = loadStage => Taken' = Taken
    BY DEF Taken
  <2> QED BY <1>3, <2>1, <2>2, <2>3
<1>10. CASE ExpandLoads \/ ExpandLoad \/ ExpandText \/ ExpandReturn
  BY <1>10 DEF ExpandLoads, ExpandLoad, ExpandText, ExpandReturn, Return, Walking
<1>11. CASE UNCHANGED loadVars
  BY <1>1, <1>3, <1>11 DEF loadVars, Taken
<1> QED BY <1>4, <1>5, <1>6, <1>7, <1>8, <1>9, <1>10, <1>11 DEF LoadsNext

-----------------------------------------------------------------------------
(* A walk that has ended has been to all loaded files.                     *)
LEMMA WalkedAll ==
    ASSUME LoadTypeOK, NEW st, DOMAIN st = {}, NEW been, NEW kinds, Walked(disk, st, been, kinds),
           \A f \in DOMAIN disk : \A i \in DOMAIN disk[f] : disk[f][i].kind # "comment" => disk[f][i].kind \in kinds
    PROVE  Loaded \subseteq been
<1> DEFINE S == been \cap DOMAIN disk
<1>1. Root \in S
  BY DiskTypes DEF Walked
<1>2. Closed(disk, S)
  <2> SUFFICES ASSUME NEW f \in S, NEW g \in Needs(disk, f) PROVE g \in S
    BY DEF Closed
  <2>1. PICK i \in DOMAIN disk[f] : disk[f][i].kind # "comment" /\ g = Resolve(f.dir, disk[f][i])
    BY DEF Needs
  <2>2. g \in been
    BY <2>1 DEF Walked
  <2> QED BY <2>2 DEF Needs
<1>3. S \in SUBSET DOMAIN disk
  OBVIOUS
<1> HIDE DEF S
<1>4. Loaded \subseteq S
  BY <1>1, <1>2, <1>3, FromClosed DEF Loaded
<1> QED BY <1>4 DEF S

(* The last file that is open ends.                                        *)
LEMMA LastReturn ==
    ASSUME LoadTypeOK, open # <<>>
    PROVE  Len(open) = 1 <=> DOMAIN SubSeq(open, 1, Len(open) - 1) = {}
<1>1. /\ DOMAIN SubSeq(open, 1, Len(open) - 1) = DOMAIN open \ {Len(open)} /\ Len(open) \in DOMAIN open
      /\ DOMAIN open = 1 .. Len(open) /\ Len(open) \in Nat
  BY Pop DEF LoadTypeOK
<1>2. CASE Len(open) = 1
  BY <1>1, <1>2
<1>3. CASE Len(open) # 1
  <2>1. 1 \in DOMAIN open \ {Len(open)}
    BY <1>1, <1>3
  <2> QED BY <1>1, <1>3, <2>1
<1> QED BY <1>2, <1>3

LEMMA PlannedStep == LoadTypeOK /\ Walking /\ Planned /\ [LoadsNext]_loadVars => Planned'
<1> SUFFICES ASSUME LoadTypeOK, Walking, Planned, [LoadsNext]_loadVars PROVE Planned'
  OBVIOUS
<1>1. disk' = disk /\ Loaded' = Loaded /\ (NoComments' <=> NoComments)
  BY LoadsFixed
<1>2. Loaded \subseteq DOMAIN disk /\ Root \in Loaded
  BY DiskTypes, FromSelf DEF Loaded, From
<1>3. CASE Plan
  <2>1. plan' = <<>> /\ visited' = {Root} /\ loadStage' = "planning"
    BY <1>3 DEF Plan, Planned
  <2>2. Entries(plan') = {}
    BY <2>1 DEF Entries
  <2> QED BY <1>1, <1>2, <2>1, <2>2 DEF Planned
<1>4. CASE CollectLoad
  <2>1. /\ loadStage = "planning" /\ loadStage' = "planning" /\ Reading({"line", "inline", "comment"})
    BY <1>4 DEF CollectLoad
  <2>2. PICK g : /\ g = Resolve(Inner.file.dir, Line) /\ g \in Targets
                 /\ plan' = Append(plan, g) /\ visited' = visited \cup {g}
    <3>1. Line \in LoadLines
      BY <2>1, LineRead
    <3>2. Inner.file \in Files
      BY <2>1, LineRead, LoadRead, DiskTypes
    <3> QED BY <1>4, <3>1, <3>2 DEF CollectLoad, Target, Targets
  <2>3. Entries(plan') = Entries(plan) \cup {g}
    <3>1. plan \in Seq(Targets)
      BY DEF LoadTypeOK
    <3>2. /\ DOMAIN plan' = DOMAIN plan \cup {Len(plan) + 1} /\ plan'[Len(plan) + 1] = g
          /\ \A i \in DOMAIN plan : plan'[i] = plan[i]
      BY <2>2, <3>1
    <3> QED BY <3>2 DEF Entries
  <2>4. ASSUME NoComments, g \in DOMAIN disk PROVE g \in Loaded
    <3>1. Inner.file \in visited
      BY <2>1, LineRead DEF Walking, Walked
    <3>2. Inner.file \in DOMAIN disk /\ Inner.at \in DOMAIN disk[Inner.file] /\ Line = disk[Inner.file][Inner.at]
      BY <2>1, LineRead, LoadRead
    <3>3. Inner.file \in Loaded
      BY <2>1, <2>4, <3>1, <3>2 DEF Planned
    <3>4. g \in Needs(disk, Inner.file)
      BY <2>2, <2>4, <3>2, <3>3 DEF Needs, NoComments
    <3> QED BY <3>3, <3>4, FromNeeds DEF Loaded
  <2> QED BY <1>1, <2>1, <2>2, <2>3, <2>4 DEF Planned
<1>5. CASE CollectText
  BY <1>1, <1>5 DEF CollectText, Planned
<1>6. CASE CollectReturn
  <2>1. /\ loadStage = "planning" /\ open # <<>> /\ Inner.at > Len(Inner.lines)
        /\ open' = SubSeq(open, 1, Len(open) - 1) /\ visited' = visited /\ plan' = plan
        /\ loadStage' = IF Len(open) = 1 THEN "planned" ELSE "planning"
    BY <1>6 DEF CollectReturn, Return
  <2>2. CASE Len(open) = 1
    <3>1. Walked(disk, open, visited, {"line", "inline", "comment"})
      BY <2>1 DEF Walking, Taken
    <3>2. Walked(disk, open', visited, {"line", "inline", "comment"})
      BY <2>1, <3>1, WalkReturn
    <3>3. \A f \in DOMAIN disk : \A i \in DOMAIN disk[f] : disk[f][i].kind \in {"line", "inline", "comment"}
      <4>1. \A f \in DOMAIN disk : \A i \in DOMAIN disk[f] : disk[f][i] \in LoadLines
        BY DiskTypes
      <4>2. \A l \in LoadLines : l.kind \in {"line", "inline", "comment"}
        BY DEF LoadLines
      <4> QED BY <4>1, <4>2
    <3>4. Loaded \subseteq visited
      BY <2>1, <2>2, <3>2, <3>3, LastReturn, WalkedAll
    <3> QED BY <1>1, <2>1, <2>2, <3>4 DEF Planned
  <2>3. CASE Len(open) # 1
    BY <1>1, <2>1, <2>3 DEF Planned
  <2> QED BY <2>2, <2>3
<1>7. CASE Preprocess \/ InlineLoad \/ InlineText \/ InlineReturn \/ ExpandLoads \/ ExpandLoad \/ ExpandText
           \/ ExpandReturn
  <2>1. plan' = plan /\ loadStage \notin {"source", "planning"} /\ loadStage' \notin {"source", "planning"}
    BY <1>7 DEF Preprocess, InlineLoad, InlineText, InlineReturn, ExpandLoads, ExpandLoad, ExpandText,
                ExpandReturn, Return
  <2> QED BY <1>1, <2>1 DEF Planned
<1>8. CASE UNCHANGED loadVars
  BY <1>1, <1>8 DEF loadVars, Planned
<1> QED BY <1>3, <1>4, <1>5, <1>6, <1>7, <1>8 DEF LoadsNext

LEMMA Single ==
    ASSUME NEW st \in Seq(OpenFiles), Len(st) = 1
    PROVE  1 \in DOMAIN st /\ st[1] \in OpenFiles
OBVIOUS

LEMMA ExpandingStep == LoadTypeOK /\ Tidy /\ Inlining /\ Expanding /\ [LoadsNext]_loadVars => Expanding'
<1> SUFFICES ASSUME LoadTypeOK, Inlining, Expanding, [LoadsNext]_loadVars PROVE Expanding'
  OBVIOUS
<1>1. open \in Seq(OpenFiles) /\ text \in Seq(Forms) /\ nodes \in Seq(Forms)
  BY DEF LoadTypeOK
<1>2. CASE Plan \/ CollectLoad \/ CollectText \/ CollectReturn \/ Preprocess \/ InlineLoad \/ InlineText
  <2>1. loadStage' \in {"planning", "planned", "inlining"}
    BY <1>2 DEF Plan, CollectLoad, CollectText, CollectReturn, Return, Preprocess, InlineLoad, InlineText
  <2> QED BY <2>1 DEF Expanding
<1>3. CASE InlineReturn
  <2>1. nodes' = <<>> /\ loadStage' \in {"inlining", "text"}
    BY <1>3 DEF InlineReturn, Return, Inlining
  <2> QED BY <2>1 DEF Expanding
<1>4. CASE ExpandLoads
  <2>1. /\ open' = <<Opened(Preprocessed, text)>> /\ nodes' = <<>> /\ text' = text /\ loadStage' = "expanding"
    BY <1>4 DEF ExpandLoads, Expanding
  <2>2. Opened(Preprocessed, text) \in OpenFiles
    BY <1>1 DEF Opened, OpenFiles
  <2>3. Len(open') = 1 /\ open'[1].lines = text /\ open'[1].at = 1
    BY <2>1, <2>2, Started DEF Opened
  <2> QED BY <1>1, <2>1, <2>3 DEF Expanding
<1>5. ASSUME loadStage = "expanding"
      PROVE  /\ Len(open) = 1 /\ Len(open) \in DOMAIN open /\ Inner = open[1] /\ Inner.lines = text
             /\ Inner.at = Len(nodes) + 1 /\ Len(nodes) <= Len(text)
             /\ \A i \in DOMAIN nodes : nodes[i] = text[i]
  <2>0. Len(open) = 1
    BY <1>5 DEF Expanding
  <2>1. 1 \in DOMAIN open /\ open[1] \in OpenFiles
    BY <1>1, <2>0, Single
  <2>2. Inner = open[1]
    BY <2>0 DEF Inner
  <2> QED BY <1>1, <1>5, <2>0, <2>1, <2>2 DEF Expanding, OpenFiles
<1>6. ASSUME loadStage = "expanding", NEW kinds, Reading(kinds)
      PROVE  Inner.at \in DOMAIN text /\ Line = text[Inner.at] /\ Line.kind = "own" /\ Line.kind \in kinds
  <2>1. Inner.at \in DOMAIN text /\ Line = text[Inner.at] /\ Line.kind \in kinds
    BY <1>5, <1>6, LineRead
  <2>2. \E f \in Loaded : text[Inner.at] = Own(f)
    BY <1>6, <2>1 DEF Inlining, Entries
  <2> QED BY <2>1, <2>2, DiskTypes
<1>7. CASE ExpandLoad
  <2>1. loadStage = "expanding" /\ Reading({"line", "inline"})
    BY <1>7 DEF ExpandLoad
  <2>2. "own" \in {"line", "inline"}
    BY <1>6, <2>1
  <2> QED BY <2>2
<1>8. CASE ExpandText
  <2>1. loadStage = "expanding" /\ Reading({"comment", "own"}) /\ open' = Advanced
    BY <1>8 DEF ExpandText
  <2>2. Inner.at \in DOMAIN text /\ Line = text[Inner.at] /\ Line.kind = "own" /\ Line \in Forms
    BY <1>6, <2>1, LineRead
  <2>3. nodes' = Append(nodes, Line) /\ text' = text /\ loadStage' = "expanding"
    BY <1>8, <2>2 DEF ExpandText
  <2>4. /\ DOMAIN nodes' = DOMAIN nodes \cup {Len(nodes) + 1} /\ nodes'[Len(nodes) + 1] = Line
        /\ \A i \in DOMAIN nodes : nodes'[i] = nodes[i]
        /\ Len(nodes') = Len(nodes) + 1 /\ Len(nodes) \in Nat
    BY <1>1, <2>2, <2>3
  <2>5. /\ Inner.at = Len(nodes) + 1 /\ \A i \in DOMAIN nodes : nodes[i] = text[i]
        /\ Inner = open[1] /\ Len(open) = 1 /\ 1 \in DOMAIN open /\ Inner.lines = text
    BY <1>5, <2>1
  <2>6. Len(open') = 1 /\ open'[1].lines = text /\ open'[1].at = Inner.at + 1
    <3>1. FALSE \in BOOLEAN
      OBVIOUS
    <3> QED BY <2>1, <2>5, <3>1, Going
  <2>7. Len(nodes') <= Len(text)
    BY <1>1, <2>2, <2>4, <2>5
  <2>8. \A i \in DOMAIN nodes' : nodes'[i] = text[i]
    BY <2>2, <2>4, <2>5
  <2>9. Len(nodes') = open'[1].at - 1
    BY <2>4, <2>5, <2>6
  <2> QED BY <2>3, <2>6, <2>7, <2>8, <2>9 DEF Expanding
<1>9. CASE ExpandReturn
  <2>1. loadStage = "expanding" /\ Inner.at > Len(Inner.lines) /\ nodes' = nodes /\ text' = text
    BY <1>9 DEF ExpandReturn, Return
  <2>2. Len(open) = 1 /\ Len(nodes) = Len(text) /\ \A i \in DOMAIN nodes : nodes[i] = text[i]
    BY <1>1, <1>5, <2>1
  <2>3. nodes = text /\ loadStage' = "expanded"
    BY <1>1, <1>9, <2>2 DEF ExpandReturn, Return
  <2> QED BY <2>1, <2>3 DEF Expanding
<1>10. CASE UNCHANGED loadVars
  BY <1>10 DEF loadVars, Expanding
<1> QED BY <1>2, <1>3, <1>4, <1>7, <1>8, <1>9, <1>10 DEF LoadsNext

(* The text of a file is written when all it loads has been visited.       *)
LEMMA InlineOwn ==
    ASSUME LoadTypeOK, Tidy, Walking, Inlining, loadStage = "inlining", NEW kinds, Reading(kinds),
           Line.kind = "own", NEW f, f = Inner.file
    PROVE  /\ Own(f) \notin Entries(text)
           /\ \A g \in Needs(disk, f) : f \in From(disk, g) \/ Own(g) \in Entries(text)
<1> DEFINE last == Len(open)
<1>1. /\ open \in Seq(OpenFiles) /\ last \in DOMAIN open /\ Inner = open[last] /\ last \in Nat
  BY LineRead DEF LoadTypeOK
<1>2. /\ f \in DOMAIN disk /\ disk[f] \in Seq(LoadLines) /\ f \in visited
      /\ open[last].at = Len(disk[f]) + 1 /\ Len(open[last].lines) = Len(disk[f]) + 1 /\ Len(disk[f]) \in Nat
  BY <1>1, LoadRead, LinesOf DEF Walking, Walked
<1>3. ~(open[last].at > Len(open[last].lines))
  BY <1>2
<1>4. Own(f) \notin Entries(text)
  BY <1>1, <1>2, <1>3 DEF Inlining
<1>5. ASSUME NEW g \in Needs(disk, f) PROVE f \in From(disk, g) \/ Own(g) \in Entries(text)
  <2>1. PICK i \in DOMAIN disk[f] : disk[f][i].kind # "comment" /\ g = Resolve(f.dir, disk[f][i])
    BY DEF Needs
  <2>2. disk[f][i].kind = "line" /\ i \in Nat /\ i <= Len(disk[f])
    <3>1. disk[f][i].kind \in {"line", "inline", "comment"}
      <4>1. disk[f][i] \in LoadLines
        BY <1>2
      <4> QED BY <4>1 DEF LoadLines
    <3> QED BY <1>2, <2>1, <3>1 DEF Tidy
  <2>3. \A a \in DOMAIN open : open[a].file = f => i < open[a].at
    BY <1>1, <1>2, <2>2 DEF Walking, Walked
  <2>4. g \in visited /\ g \in DOMAIN disk
    BY <1>2, <2>1, <2>2, <2>3 DEF Walking, Walked, Taken, Needs
  <2>5. CASE \A a \in DOMAIN open : open[a].file = g => open[a].at > Len(open[a].lines)
    BY <2>4, <2>5 DEF Inlining
  <2>6. ASSUME NEW a \in DOMAIN open, open[a].file = g PROVE f \in From(disk, g)
    <3>1. a <= last
      BY <1>1
    <3> QED BY <1>1, <2>6, <3>1 DEF Inlining
  <2> QED BY <2>5, <2>6
<1> QED BY <1>4, <1>5

LEMMA InOrderNext ==
    ASSUME NEW d, NEW S, NEW seq \in Seq(S), NoneTwice(seq), InOrder(d, seq), NEW f, Own(f) \in S,
           Own(f) \notin Entries(seq), \A g \in Needs(d, f) : f \in From(d, g) \/ Own(g) \in Entries(seq)
    PROVE  /\ NoneTwice(Append(seq, Own(f))) /\ InOrder(d, Append(seq, Own(f)))
           /\ Entries(Append(seq, Own(f))) = Entries(seq) \cup {Own(f)}
<1> DEFINE next == Append(seq, Own(f))
<1>1. /\ DOMAIN next = DOMAIN seq \cup {Len(seq) + 1} /\ next[Len(seq) + 1] = Own(f)
      /\ \A i \in DOMAIN seq : next[i] = seq[i] /\ i < Len(seq) + 1
  OBVIOUS
<1> HIDE DEF next
<1>2. Entries(next) = Entries(seq) \cup {Own(f)}
  BY <1>1 DEF Entries
<1>3. NoneTwice(next)
  BY <1>1 DEF NoneTwice, Entries
<1>4. InOrder(d, next)
  <2> SUFFICES ASSUME NEW i \in DOMAIN next, NEW g \in Needs(d, next[i].file), next[i].file \notin From(d, g)
               PROVE  \E j \in DOMAIN next : j < i /\ next[j] = Own(g)
    BY DEF InOrder
  <2>1. CASE i \in DOMAIN seq
    BY <1>1, <2>1 DEF InOrder
  <2>2. CASE i = Len(seq) + 1
    <3>1. next[i].file = f
      BY <1>1, <2>2 DEF Own
    <3>2. PICK j \in DOMAIN seq : seq[j] = Own(g)
      BY <3>1 DEF Entries
    <3> QED BY <1>1, <2>2, <3>2
  <2> QED BY <1>1, <2>1, <2>2
<1> QED BY <1>2, <1>3, <1>4 DEF next

LEMMA InliningStep == LoadTypeOK /\ Tidy /\ Walking /\ Inlining /\ [LoadsNext]_loadVars => Inlining'
<1> SUFFICES ASSUME LoadTypeOK, Tidy, Walking, Inlining, [LoadsNext]_loadVars PROVE Inlining'
  OBVIOUS
<1>1. disk' = disk /\ Loaded' = Loaded
  BY LoadsFixed
<1>2. NoneTwice(text) /\ InOrder(disk, text) /\ text \in Seq(Forms)
  BY DEF Inlining, LoadTypeOK
<1>3. Loaded \subseteq DOMAIN disk /\ Root \in Loaded
  BY DiskTypes, FromSelf DEF Loaded, From
<1>4. CASE Plan \/ CollectLoad \/ CollectText \/ CollectReturn
  <2>1. /\ loadStage' \in {"planning", "planned"} /\ text' = text /\ nodes' = nodes
        /\ loadStage \in {"source", "planning", "planned"}
    BY <1>4 DEF Plan, CollectLoad, CollectText, CollectReturn, Return
  <2> QED BY <1>1, <1>2, <2>1 DEF Inlining
<1>5. CASE Preprocess
  <2>1. /\ loadStage' = "inlining" /\ open' = <<OpenFile(Root)>> /\ visited' = {Root}
        /\ text' = <<>> /\ nodes' = <<>> /\ text' = text
    BY <1>5 DEF Preprocess, Inlining
  <2>2. /\ DOMAIN open' = {1} /\ Len(open') = 1 /\ open'[1].file = Root /\ open'[1].at = 1 /\ Root \in DOMAIN disk
        /\ open'[1].lines = Append(disk[Root], Own(Root)) /\ disk[Root] \in Seq(LoadLines)
    BY <2>1, DiskTypes, Opening, Started
  <2>3. Len(open'[1].lines) = Len(disk[Root]) + 1 /\ Len(disk[Root]) \in Nat
    BY <2>2
  <2>4. ~(open'[1].at > Len(open'[1].lines)) /\ open'[1].at <= Len(open'[1].lines)
    BY <2>2, <2>3
  <2>5. Root \in From(disk, Root)
    BY <2>2, FromSelf
  <2>6. Entries(text') = {} /\ DOMAIN text' = {}
    BY <2>1 DEF Entries
  <2>7. \A f \in visited' \cap DOMAIN disk :
           Own(f) \in Entries(text')
           <=> \A a \in DOMAIN open' : open'[a].file = f => open'[a].at > Len(open'[a].lines)
    BY <2>1, <2>2, <2>4, <2>6
  <2>8. \A a, b \in DOMAIN open' : a <= b => open'[b].file \in From(disk, open'[a].file)
    BY <2>2, <2>5
  <2>9. \A a \in DOMAIN open' : a = Len(open') \/ open'[a].at <= Len(open'[a].lines)
    BY <2>2
  <2>10. visited' \cap DOMAIN disk \subseteq Loaded
    BY <1>3, <2>1
  <2>11. NoneTwice(text') /\ InOrder(disk, text') /\ loadStage' = "inlining" /\ nodes' = <<>>
    BY <1>2, <2>1
  <2> QED BY <1>1, <2>6, <2>7, <2>8, <2>9, <2>10, <2>11 DEF Inlining
<1>6. CASE InlineLoad
  <2> DEFINE f == Inner.file
             last == Len(open)
             g == Resolve(f.dir, Line)
  <2>1. /\ loadStage = "inlining" /\ loadStage' = "inlining" /\ Reading({"line"}) /\ nodes' = nodes /\ text' = text
        /\ visited' = visited \cup {g} /\ open' = Into(g, New(g))
    BY <1>6 DEF InlineLoad
  <2>2. New(g) \in BOOLEAN /\ (New(g) <=> g \notin visited)
    BY <2>1 DEF New, OnStack, Walking, Walked
  <2>3. /\ last \in DOMAIN open /\ Inner = open[last] /\ last \in Nat /\ DOMAIN open = 1 .. last
        /\ Line.kind = "line"
    BY <2>1, LineRead DEF LoadTypeOK
  <2>4. /\ f \in DOMAIN disk /\ disk[f] \in Seq(LoadLines) /\ f \in visited
        /\ Inner.at \in DOMAIN disk[f] /\ Line = disk[f][Inner.at]
    BY <2>1, <2>3, LoadRead DEF Walking, Walked
  <2>5. open[last].at + 1 <= Len(open[last].lines) /\ open[last].at \in Nat /\ Len(open[last].lines) \in Nat
    BY <2>1, <2>3, <2>4, LinesOf
  <2>6. g \in DOMAIN disk => g \in Needs(disk, f)
    BY <2>3, <2>4 DEF Needs
  <2>7. visited' \cap DOMAIN disk \subseteq Loaded
    BY <2>1, <2>4, <2>6, FromNeeds DEF Inlining, Loaded
  <2>8. /\ \A a \in DOMAIN open :
              /\ a \in DOMAIN open' /\ open'[a].file = open[a].file /\ open'[a].lines = open[a].lines
              /\ open'[a].at = IF a = last THEN open[a].at + 1 ELSE open[a].at
        /\ \A a \in DOMAIN open' : a \in DOMAIN open \/ a = last + 1
        /\ last + 1 \in DOMAIN open' <=> g \notin visited /\ g \in DOMAIN disk
        /\ last + 1 \in DOMAIN open' =>
              /\ open'[last + 1].file = g /\ open'[last + 1].at <= Len(open'[last + 1].lines)
              /\ ~(open'[last + 1].at > Len(open'[last + 1].lines))
              /\ Len(open') = last + 1
    <3>1. CASE New(g) /\ Exists(g)
      <4>1. /\ DOMAIN open' = DOMAIN open \cup {last + 1} /\ Len(open') = last + 1
            /\ open'[last + 1] = OpenFile(g)
            /\ \A a \in DOMAIN open :
                  /\ open'[a].file = open[a].file /\ open'[a].lines = open[a].lines
                  /\ open'[a].at = IF a = last THEN open[a].at + 1 ELSE open[a].at
        BY ZenonT(40), <2>1, <2>2, <3>1, Going
      <4>2. /\ g \in DOMAIN disk /\ OpenFile(g).file = g /\ OpenFile(g).at = 1
            /\ OpenFile(g).lines = Append(disk[g], Own(g)) /\ disk[g] \in Seq(LoadLines)
        BY <3>1, Opening, DiskTypes DEF Exists
      <4>3. Len(OpenFile(g).lines) = Len(disk[g]) + 1 /\ Len(disk[g]) \in Nat
        BY <4>2
      <4>4. 1 <= Len(OpenFile(g).lines) /\ ~(1 > Len(OpenFile(g).lines))
        BY <4>3
      <4> HIDE DEF f, g, last
      <4> QED BY <2>2, <3>1, <4>1, <4>2, <4>4
    <3>2. CASE ~(New(g) /\ Exists(g))
      <4>1. /\ DOMAIN open' = DOMAIN open
            /\ \A a \in DOMAIN open :
                  /\ open'[a].file = open[a].file /\ open'[a].lines = open[a].lines
                  /\ open'[a].at = IF a = last THEN open[a].at + 1 ELSE open[a].at
        BY <2>1, <2>2, <3>2, Going
      <4>2. last + 1 \notin DOMAIN open
        BY <2>3
      <4> HIDE DEF f, g, last
      <4> QED BY <2>2, <3>2, <4>1, <4>2 DEF Exists
    <3> QED BY <3>1, <3>2
  <2> HIDE DEF f, g, last
  <2>9. \A a, b \in DOMAIN open' : a <= b => open'[b].file \in From(disk, open'[a].file)
    <3> SUFFICES ASSUME NEW a \in DOMAIN open', NEW b \in DOMAIN open', a <= b
                 PROVE  open'[b].file \in From(disk, open'[a].file)
      OBVIOUS
    <3>1. CASE a \in DOMAIN open /\ b \in DOMAIN open
      BY <2>1, <2>8, <3>1 DEF Inlining
    <3>2. CASE a \in DOMAIN open /\ b = last + 1
      <4>1. f \in From(disk, open[a].file)
        <5>1. a <= last
          BY <2>3, <3>2
        <5> QED BY <2>1, <2>3, <3>2, <5>1 DEF Inlining, f
      <4>2. g \in Needs(disk, f)
        BY <2>6, <2>8, <3>2
      <4> QED BY <2>8, <3>2, <4>1, <4>2, FromNeeds
    <3>3. CASE a = last + 1
      <4>1. b = last + 1
        BY <2>3, <2>8, <3>3
      <4> QED BY <2>8, <3>3, <4>1, FromSelf
    <3> QED BY <2>8, <3>1, <3>2, <3>3
  <2>10. \A a \in DOMAIN open' : a = Len(open') \/ open'[a].at <= Len(open'[a].lines)
    BY <2>1, <2>5, <2>8 DEF Inlining, last
  <2>11. \A i \in DOMAIN text : \E h \in visited' \cap DOMAIN disk : text[i] = Own(h)
    BY <2>1 DEF Inlining
  <2>12. ASSUME NEW h \in visited' \cap DOMAIN disk
         PROVE  Own(h) \in Entries(text)
                <=> \A a \in DOMAIN open' : open'[a].file = h => open'[a].at > Len(open'[a].lines)
    <3>1. CASE h \in visited
      <4>1. Own(h) \in Entries(text)
            <=> \A a \in DOMAIN open : open[a].file = h => open[a].at > Len(open[a].lines)
        BY <2>1, <2>12, <3>1 DEF Inlining
      <4>2. \A a \in DOMAIN open : open'[a].at > Len(open'[a].lines) <=> open[a].at > Len(open[a].lines)
        BY <2>5, <2>8
      <4> QED BY <2>8, <3>1, <4>1, <4>2
    <3>2. CASE h \notin visited
      <4>1. h = g /\ last + 1 \in DOMAIN open'
        BY <2>1, <2>8, <2>12, <3>2
      <4>2. Own(h) \notin Entries(text)
        <5>1. ASSUME NEW i \in DOMAIN text, text[i] = Own(h) PROVE FALSE
          <6>1. PICK e \in visited : Own(h) = Own(e)
            BY <2>1, <5>1 DEF Inlining
          <6> QED BY <3>2, <6>1 DEF Own
        <5> QED BY <5>1 DEF Entries
      <4> QED BY <2>8, <4>1, <4>2
    <3> QED BY <3>1, <3>2
  <2>13. nodes' = <<>>
    BY <2>1 DEF Inlining
  <2>14. text' = text /\ loadStage' = "inlining" /\ Entries(text') = Entries(text)
    BY <2>1
  <2>15. NoneTwice(text') /\ InOrder(disk, text')
    BY <1>2, <2>14
  <2>16. \A h \in visited' \cap DOMAIN disk :
            Own(h) \in Entries(text')
            <=> \A a \in DOMAIN open' : open'[a].file = h => open'[a].at > Len(open'[a].lines)
    BY <2>12, <2>14
  <2>17. \A i \in DOMAIN text' : \E h \in visited' \cap DOMAIN disk : text'[i] = Own(h)
    BY <2>11, <2>14
  <2> QED BY <1>1, <2>7, <2>9, <2>10, <2>13, <2>14, <2>15, <2>16, <2>17 DEF Inlining
<1>7. CASE InlineText
  <2> DEFINE f == Inner.file
             last == Len(open)
  <2>1. /\ loadStage = "inlining" /\ loadStage' = "inlining" /\ Reading({"inline", "comment", "own"})
        /\ open' = Advanced /\ visited' = visited /\ nodes' = nodes
        /\ text' = IF Line.kind = "comment" THEN text ELSE Append(text, Line)
    BY <1>7 DEF InlineText
  <2>2. /\ last \in DOMAIN open /\ Inner = open[last] /\ Line.kind \in {"inline", "comment", "own"}
    BY <2>1, LineRead
  <2>3. /\ f \in DOMAIN disk /\ disk[f] \in Seq(LoadLines) /\ f \in visited
        /\ \/ Inner.at \in DOMAIN disk[f] /\ Line = disk[f][Inner.at] /\ Line.kind # "own"
           \/ Inner.at = Len(disk[f]) + 1 /\ Line = Own(f) /\ Line.kind = "own"
    BY <2>1, <2>2, LoadRead DEF Walking, Walked
  <2>4. Len(open[last].lines) = Len(disk[f]) + 1 /\ Len(disk[f]) \in Nat /\ open[last].at \in Nat
    BY <2>1, <2>2, LinesOf
  <2>5. /\ DOMAIN open' = DOMAIN open /\ Len(open') = last
        /\ \A a \in DOMAIN open :
              /\ open'[a].file = open[a].file /\ open'[a].lines = open[a].lines
              /\ open'[a].at = IF a = last THEN open[a].at + 1 ELSE open[a].at
    <3>1. FALSE \in BOOLEAN
      OBVIOUS
    <3> QED BY <2>1, <3>1, Going
  <2> HIDE DEF f, last
  <2>6. visited' \cap DOMAIN disk \subseteq Loaded /\ nodes' = <<>>
    BY <2>1 DEF Inlining
  <2>7. \A a, b \in DOMAIN open' : a <= b => open'[b].file \in From(disk, open'[a].file)
    BY <2>1, <2>5 DEF Inlining
  <2>8. \A a \in DOMAIN open' : a = Len(open') \/ open'[a].at <= Len(open'[a].lines)
    BY <2>1, <2>5 DEF Inlining, last
  <2>9. \A i \in DOMAIN text : \E h \in visited \cap DOMAIN disk : text[i] = Own(h)
    BY <2>1 DEF Inlining
  <2>10. \A h \in visited \cap DOMAIN disk :
            Own(h) \in Entries(text)
            <=> \A a \in DOMAIN open : open[a].file = h => open[a].at > Len(open[a].lines)
    BY <2>1 DEF Inlining
  <2>11. CASE Line.kind = "own"
    <3>1. Inner.at = Len(disk[f]) + 1 /\ Line = Own(f) /\ text' = Append(text, Own(f)) /\ Own(f) \in Forms
      BY <2>1, <2>3, <2>11, DiskTypes
    <3>2. /\ Own(f) \notin Entries(text)
          /\ \A g \in Needs(disk, f) : f \in From(disk, g) \/ Own(g) \in Entries(text)
      BY <2>1, <2>11, InlineOwn DEF f
    <3>3. /\ NoneTwice(text') /\ InOrder(disk, text') /\ Entries(text') = Entries(text) \cup {Own(f)}
      BY <1>2, <3>1, <3>2, InOrderNext
    <3>4. \A i \in DOMAIN text' : \E h \in visited' \cap DOMAIN disk : text'[i] = Own(h)
      <4>1. \A i \in DOMAIN text' : text'[i] \in Entries(text) \cup {Own(f)}
        BY <3>3 DEF Entries
      <4> QED BY <2>1, <2>3, <2>9, <4>1 DEF Entries
    <3>5. ASSUME NEW h \in visited' \cap DOMAIN disk
          PROVE  Own(h) \in Entries(text')
                 <=> \A a \in DOMAIN open' : open'[a].file = h => open'[a].at > Len(open'[a].lines)
      <4>1. CASE h = f
        <5>1. ASSUME NEW a \in DOMAIN open', open'[a].file = h PROVE open'[a].at > Len(open'[a].lines)
          <6>1. a = last
            BY <2>1, <2>2, <2>5, <4>1, <5>1 DEF Walking, Walked, f
          <6> QED BY <2>2, <2>4, <2>5, <3>1, <6>1
        <5> QED BY <3>3, <4>1, <5>1
      <4>2. CASE h # f
        <5>1. Own(h) # Own(f)
          BY <4>2 DEF Own
        <5>2. \A a \in DOMAIN open : open[a].file = h => a # last
          BY <2>2, <4>2 DEF f
        <5> QED BY <2>1, <2>5, <2>10, <3>3, <3>5, <5>1, <5>2
      <4> QED BY <4>1, <4>2
    <3> QED BY <1>1, <2>1, <2>6, <2>7, <2>8, <3>3, <3>4, <3>5 DEF Inlining
  <2>12. CASE Line.kind = "comment"
    <3>1. text' = text /\ Inner.at \in DOMAIN disk[f]
      BY <2>1, <2>3, <2>12
    <3>2. open[last].at + 1 <= Len(open[last].lines)
      BY <2>2, <2>3, <2>4, <3>1
    <3>3. \A a \in DOMAIN open : open'[a].at > Len(open'[a].lines) <=> open[a].at > Len(open[a].lines)
      BY <2>4, <2>5, <3>2
    <3>4. \A h \in visited' \cap DOMAIN disk :
             Own(h) \in Entries(text')
             <=> \A a \in DOMAIN open' : open'[a].file = h => open'[a].at > Len(open'[a].lines)
      BY <2>1, <2>5, <2>10, <3>1, <3>3
    <3>5. \A i \in DOMAIN text' : \E h \in visited' \cap DOMAIN disk : text'[i] = Own(h)
      BY <2>1, <2>9, <3>1
    <3>6. NoneTwice(text') /\ InOrder(disk, text')
      BY <1>2, <3>1
    <3> QED BY <1>1, <2>1, <2>6, <2>7, <2>8, <3>4, <3>5, <3>6 DEF Inlining
  <2>13. CASE Line.kind = "inline"
    BY <2>3, <2>13 DEF Tidy
  <2> QED BY <2>2, <2>11, <2>12, <2>13
<1>8. CASE InlineReturn
  <2> DEFINE last == Len(open)
  <2>1. /\ loadStage = "inlining" /\ open # <<>> /\ Inner.at > Len(Inner.lines)
        /\ open' = SubSeq(open, 1, last - 1) /\ visited' = visited /\ text' = text /\ nodes' = nodes
        /\ loadStage' = IF last = 1 THEN "text" ELSE "inlining"
    BY <1>8 DEF InlineReturn, Return
  <2>2. /\ DOMAIN open' = DOMAIN open \ {last} /\ Len(open') = last - 1 /\ last \in DOMAIN open /\ last \in Nat
        /\ \A a \in DOMAIN open' : open'[a] = open[a]
    <3>1. open \in Seq(OpenFiles)
      BY DEF LoadTypeOK
    <3> HIDE DEF last
    <3>2. open' = SubSeq(open, 1, Len(open) - 1) /\ last = Len(open)
      BY <2>1 DEF last
    <3> QED BY <2>1, <3>1, <3>2, Pop
  <2>3. open[last].at > Len(open[last].lines)
    BY <2>1 DEF Inner
  <2> HIDE DEF last
  <2>4. /\ visited \cap DOMAIN disk \subseteq Loaded /\ nodes = <<>>
        /\ \A a \in DOMAIN open : a = last \/ open[a].at <= Len(open[a].lines)
        /\ \A i \in DOMAIN text : \E h \in visited \cap DOMAIN disk : text[i] = Own(h)
        /\ \A h \in visited \cap DOMAIN disk :
              Own(h) \in Entries(text)
              <=> \A a \in DOMAIN open : open[a].file = h => open[a].at > Len(open[a].lines)
    BY <2>1 DEF Inlining, last
  <2>5. \A h \in visited \cap DOMAIN disk :
           Own(h) \in Entries(text)
           <=> \A a \in DOMAIN open' : open'[a].file = h => open'[a].at > Len(open'[a].lines)
    BY <2>2, <2>3, <2>4
  <2>6. CASE last = 1
    <3>1. DOMAIN open' = {}
      BY <2>1, <2>6, LastReturn DEF last
    <3>2. Loaded \subseteq visited
      <4>1. Walked(disk, open, visited, {"line"})
        BY <2>1 DEF Walking, Walked, Taken
      <4>2. Walked(disk, open', visited, {"line"})
        BY <2>1, <4>1, WalkReturn DEF last
      <4>3. \A h \in DOMAIN disk : \A i \in DOMAIN disk[h] : disk[h][i].kind # "comment" => disk[h][i].kind \in {"line"}
        <5>1. \A h \in DOMAIN disk : \A i \in DOMAIN disk[h] : disk[h][i] \in LoadLines
          BY DiskTypes
        <5>2. \A l \in LoadLines : l.kind \in {"line", "inline", "comment"}
          BY DEF LoadLines
        <5> QED BY <5>1, <5>2 DEF Tidy
      <4> QED BY <3>1, <4>2, <4>3, WalkedAll
    <3>3. Entries(text) = {Own(h) : h \in Loaded}
      <4>1. \A h \in Loaded : Own(h) \in Entries(text)
        BY <1>3, <2>5, <3>1, <3>2
      <4>2. \A i \in DOMAIN text : \E h \in Loaded : text[i] = Own(h)
        BY <2>4
      <4> QED BY <4>1, <4>2 DEF Entries
    <3>4. loadStage' = "text" /\ Entries(text') = {Own(h) : h \in Loaded}
      BY <2>1, <2>6, <3>3
    <3>5. NoneTwice(text') /\ InOrder(disk, text')
      BY <1>2, <2>1
    <3> QED BY <1>1, <3>4, <3>5 DEF Inlining
  <2>7. CASE last # 1
    <3>1. loadStage' = "inlining" /\ nodes' = <<>> /\ visited' \cap DOMAIN disk \subseteq Loaded
      BY <2>1, <2>4, <2>7
    <3>2. \A a, b \in DOMAIN open' : a <= b => open'[b].file \in From(disk, open'[a].file)
      BY <2>1, <2>2 DEF Inlining
    <3>3. \A a \in DOMAIN open' : a = Len(open') \/ open'[a].at <= Len(open'[a].lines)
      BY <2>2, <2>4
    <3>4. \A h \in visited' \cap DOMAIN disk :
             Own(h) \in Entries(text')
             <=> \A a \in DOMAIN open' : open'[a].file = h => open'[a].at > Len(open'[a].lines)
      BY <2>1, <2>5
    <3>5. \A i \in DOMAIN text' : \E h \in visited' \cap DOMAIN disk : text'[i] = Own(h)
      BY <2>1, <2>4
    <3>6. NoneTwice(text') /\ InOrder(disk, text')
      BY <1>2, <2>1
    <3> QED BY <1>1, <3>1, <3>2, <3>3, <3>4, <3>5, <3>6 DEF Inlining
  <2> QED BY <2>6, <2>7
<1>9. CASE ExpandLoads \/ ExpandLoad \/ ExpandText \/ ExpandReturn
  <2>1. /\ text' = text /\ loadStage \in {"text", "expanding"}
        /\ loadStage' \in {"expanding", "expanded", "overflow"}
    BY <1>9 DEF ExpandLoads, ExpandLoad, ExpandText, ExpandReturn, Return
  <2>2. Entries(text') = {Own(f) : f \in Loaded} /\ NoneTwice(text') /\ InOrder(disk, text')
    BY <1>2, <2>1 DEF Inlining
  <2> QED BY <1>1, <2>1, <2>2 DEF Inlining
<1>10. CASE UNCHANGED loadVars
  BY <1>1, <1>10 DEF loadVars, Inlining
<1> QED BY <1>4, <1>5, <1>6, <1>7, <1>8, <1>9, <1>10 DEF LoadsNext

LEMMA LoadsStart == LoadsInit => LoadInv
<1> SUFFICES ASSUME LoadsInit PROVE LoadInv
  OBVIOUS
<1>1. LoadTypeOK
  BY DEF LoadsInit, LoadTypeOK
<1>2. Walking /\ Planned /\ Expanding
  BY DEF LoadsInit, Walking, Walked, Planned, Expanding
<1>3. Inlining
  BY DEF LoadsInit, Inlining, NoneTwice, InOrder
<1> QED BY <1>1, <1>2, <1>3 DEF LoadInv

(* What the walks through the files have done so far, in any state of any  *)
(* build, for every file system.                                           *)
THEOREM LoadsInvariant == LoadsSpec => []LoadInv
<1>1. LoadInv /\ [LoadsNext]_loadVars => LoadInv'
  BY LoadTypes, WalkingStep, PlannedStep, InliningStep, ExpandingStep, LoadsFixed DEF LoadInv
<1> QED BY <1>1, LoadsStart, PTL DEF LoadsSpec

(* With every load on a line of its own, the program has the text of each  *)
(* loaded file once, after those it needs, whatever diamonds and cycles    *)
(* the loads form and whatever is missing, and cgc's depth is never        *)
(* reached (fl-build-helper.c:380-446, docs/SPEC.md:90).                   *)
THEOREM TextsOnce == LoadsSpec => []IncludedOnce
<1>1. LoadInv => IncludedOnce
  <2> SUFFICES ASSUME LoadTypeOK, Inlining, Expanding, loadStage \in {"expanded", "overflow"}
               PROVE  /\ loadStage = "expanded"
                      /\ Entries(nodes) = {Own(f) : f \in Loaded}
                      /\ \A i, j \in DOMAIN nodes : nodes[i] = nodes[j] => i = j
                      /\ \A i, j \in DOMAIN nodes :
                            nodes[i].file \in Needs(disk, nodes[j].file)
                            /\ nodes[j].file \notin From(disk, nodes[i].file) => i < j
    BY DEF LoadInv, IncludedOnce
  <2>1. loadStage = "expanded" /\ nodes = text
    BY DEF Expanding
  <2>2. Entries(nodes) = {Own(f) : f \in Loaded} /\ NoneTwice(nodes) /\ InOrder(disk, nodes)
    BY <2>1 DEF Inlining
  <2>3. ASSUME NEW i \in DOMAIN nodes, NEW j \in DOMAIN nodes, nodes[i].file \in Needs(disk, nodes[j].file),
               nodes[j].file \notin From(disk, nodes[i].file)
        PROVE  i < j
    <3>1. PICK k \in DOMAIN nodes : k < j /\ nodes[k] = Own(nodes[i].file)
      BY <2>2, <2>3 DEF InOrder
    <3>2. \E f \in Loaded : nodes[i] = Own(f)
      BY <2>2 DEF Entries
    <3>3. nodes[i] = nodes[k]
      BY <3>1, <3>2, DiskTypes
    <3> QED BY <2>2, <3>1, <3>3 DEF NoneTwice
  <2> QED BY <2>1, <2>2, <2>3 DEF NoneTwice
<1> QED BY <1>1, LoadsInvariant, PTL

(* What a build includes is in its plan, and when no load is in a comment  *)
(* the plan has no other file that exists (fl-build-plan.c:262-331 against *)
(* fl-build-helper.c:332-446).                                             *)
THEOREM PlanIsTheBuild == LoadsSpec => []PlanAgrees
<1>1. LoadInv => PlanAgrees
  <2> SUFFICES ASSUME LoadTypeOK, Planned, Inlining, Expanding, loadStage = "expanded"
               PROVE  /\ \A n \in Entries(nodes) : n.file \in Entries(plan) \cup {Root}
                      /\ NoComments => \A f \in Entries(plan) : Exists(f) => Own(f) \in Entries(nodes)
    BY DEF LoadInv, PlanAgrees, NoComments
  <2>1. Entries(nodes) = {Own(f) : f \in Loaded}
    BY DEF Expanding, Inlining
  <2>2. Loaded \subseteq Entries(plan) \cup {Root} /\ (NoComments => Entries(plan) \cap DOMAIN disk \subseteq Loaded)
    BY DEF Planned
  <2> QED BY <2>1, <2>2, DiskTypes DEF Exists
<1> QED BY <1>1, LoadsInvariant, PTL

(***************************************************************************)
(* The parser.                                                             *)
(***************************************************************************)
Frames == [what : {"top", "(", "[", "block", "@"}, first : Nat, name : Seq(Tokens), items : Seq(Nat)]

ReadTypeOK ==
    /\ tokens \in Texts
    /\ idx \in 1 .. Len(tokens) + 1
    /\ calls \in Seq(Frames) /\ calls # <<>>
    /\ \A k \in DOMAIN calls : k = 1 <=> calls[k].what = "top"
    /\ made = [i \in DOMAIN tokens |-> made[i]]
    /\ reading \in {"reading", "parsed", "crashed"}

\* the tokens at which the calls under way have begun, in the order of the text; "@" waits
\* for the node behind it
Shape ==
    /\ calls[1].first = 0
    /\ \A k \in DOMAIN calls \ {1} :
          /\ calls[k].first \in 1 .. idx - 1
          /\ calls[k].what = tokens[calls[k].first] /\ calls[k].what \in {"(", "[", "@"}
    /\ \A j, k \in DOMAIN calls : j < k => calls[j].first < calls[k].first
    /\ \A k \in DOMAIN calls : calls[k].what = "@" =>
          IF k < Len(calls) THEN calls[k].items = <<>> /\ calls[k + 1].first = calls[k].first + 1
          ELSE \/ calls[k].items = <<>> /\ idx = calls[k].first + 1
               \/ calls[k].items = <<calls[k].first + 1>>
    /\ At(idx - 1) = "@" => Current.what = "@" /\ Current.first = idx - 1 /\ Current.items = <<>>

Waiting == {calls[k].first : k \in DOMAIN calls}

\* the lists that wait have not ended before the next token; one that has been made has
\* ended, perhaps at a token that is still to end others around it
Standing(e) ==
    /\ \A o \in Lists \cap Waiting : idx <= e[o]
    /\ \A o \in Lists \ Waiting : o < idx =>
          \/ e[o] < idx
          \/ e[o] = idx /\ idx \in Closing /\ ~Matches(o, idx) /\ \A w \in Waiting : w < o

\* each call waits for a member of the call around it, the last one so far, and has the
\* members that are made
Nested(e) ==
    \A k \in DOMAIN calls : calls[k].what # "@" =>
        /\ InTextOrder(calls[k].items, {i \in Members(e, calls[k].first) : i < idx} \ Waiting)
        /\ k < Len(calls) =>
              /\ calls[k + 1].first \in Members(e, calls[k].first)
              /\ \A i \in Members(e, calls[k].first) : i < idx => i <= calls[k + 1].first

Written(e) == \A i \in DOMAIN tokens : i < idx /\ Node(e, i) /\ i \notin Waiting => Right(e, i)

\* lists that have ended, or may not end at all, so far
Partly(h) ==
    /\ \A o \in Lists : o < idx =>
          /\ o < h[o] /\ h[o] \in Closing \cup {Len(tokens) + 1}
          /\ o \in Waiting => h[o] = Len(tokens) + 1
          /\ o \notin Waiting =>
                \/ h[o] < idx
                \/ h[o] = idx /\ idx \in Closing /\ ~Matches(o, idx) /\ \A w \in Waiting : w < o
          /\ \A c \in Closing : o < c /\ c <= h[o] /\ c < idx =>
                (c = h[o] <=> ~ \E p \in Lists : o < p /\ p < c /\ c <= h[p] /\ Matches(p, c))

\* what a text that has been read is read as
Understood == (\A e \in Endings : Ends(e) => ReadAs(e)) /\ \E e \in Endings : Ends(e)

ReadInv ==
    /\ ReadTypeOK
    /\ Plain =>
          /\ reading = "reading" =>
                /\ Shape
                /\ \A e \in Endings : Ends(e) => Standing(e) /\ Nested(e) /\ Written(e)
                /\ \E h \in Endings : Partly(h)
          /\ reading # "reading" => Understood

-----------------------------------------------------------------------------
(* The text does not change, and neither does what it means.               *)
LEMMA TextFixed ==
    ASSUME tokens' = tokens
    PROVE  /\ Lists' = Lists /\ Closing' = Closing /\ Endings' = Endings /\ (Plain' <=> Plain)
           /\ \A i : At(i)' = At(i)
           /\ \A o, c : Matches(o, c)' <=> Matches(o, c)
           /\ \A e : Ends(e)' <=> Ends(e)
           /\ \A e, i : Node(e, i)' <=> Node(e, i)
           /\ \A e, o : Members(e, o)' = Members(e, o)
<1>1. Lists' = Lists /\ Closing' = Closing
  BY DEF Lists, Closing
<1>2. Endings' = Endings
  BY <1>1 DEF Endings
<1>3. \A i : At(i)' = At(i)
  BY DEF At
<1>4. Plain' <=> Plain
  BY <1>3 DEF Plain
<1>5. \A o, c : Matches(o, c)' <=> Matches(o, c)
  BY DEF Matches
<1>6. ASSUME NEW e PROVE Ends(e)' <=> Ends(e)
  BY <1>1, <1>5 DEF Ends
<1>7. ASSUME NEW e, NEW i PROVE Node(e, i)' <=> Node(e, i)
  <2>1. Stray(e, i)' <=> Stray(e, i)
    BY <1>1, <1>5 DEF Stray
  <2> QED BY <1>1, <2>1 DEF Node
<1>8. ASSUME NEW e, NEW o PROVE Members(e, o)' = Members(e, o)
  <2>1. \A p, i : Encloses(e, p, i)' <=> Encloses(e, p, i)
    BY <1>1 DEF Encloses
  <2> QED BY <1>1, <1>3, <1>7, <2>1 DEF Members
<1> QED BY <1>1, <1>2, <1>3, <1>4, <1>5, <1>6, <1>7, <1>8

(* A node is in one list, and in none when it is an operand.               *)
LEMMA MemberOnce ==
    ASSUME tokens \in Seq(Tokens),
           NEW e \in Endings, NEW o \in Lists \cup {0}, NEW p \in Lists \cup {0},
           NEW i \in Members(e, o), i \in Members(e, p)
    PROVE  o = p
<1>1. \A q \in Lists \cup {0} : q \in Int /\ (q \in Lists \/ q = 0) /\ (q \in Lists => q > 0)
  BY DEF Lists
<1> QED BY <1>1 DEF Members, Encloses

(* The stack of calls: one more, one less, one that gets a node.           *)
LEMMA Pushed ==
    ASSUME NEW st \in Seq(Frames), NEW f \in Frames, NEW next, next = Append(st, f)
    PROVE  /\ next \in Seq(Frames) /\ Len(next) = Len(st) + 1 /\ DOMAIN next = DOMAIN st \cup {Len(next)}
           /\ \A k \in DOMAIN st : next[k] = st[k]
           /\ next[Len(next)] = f
OBVIOUS

LEMMA Popped ==
    ASSUME NEW st \in Seq(Frames), Len(st) > 1, NEW next, next = SubSeq(st, 1, Len(st) - 1)
    PROVE  /\ next \in Seq(Frames) /\ Len(next) = Len(st) - 1 /\ DOMAIN next = DOMAIN st \ {Len(st)}
           /\ \A k \in DOMAIN next : next[k] = st[k]
OBVIOUS

LEMMA GotIt ==
    ASSUME NEW st \in Seq(Frames), st # <<>>, NEW i \in Nat
    PROVE  /\ Got(st, i) \in Seq(Frames) /\ Len(Got(st, i)) = Len(st) /\ DOMAIN Got(st, i) = DOMAIN st
           /\ \A k \in DOMAIN st :
                 /\ Got(st, i)[k].what = st[k].what /\ Got(st, i)[k].first = st[k].first
                 /\ k # Len(st) => Got(st, i)[k] = st[k]
           /\ st[Len(st)].what # "block" => Got(st, i)[Len(st)].items = Append(st[Len(st)].items, i)
<1> DEFINE new == IF st[Len(st)].what = "block" THEN <<i>> ELSE Append(st[Len(st)].items, i)
<1>1. Len(st) \in DOMAIN st /\ st[Len(st)] \in Frames
  OBVIOUS
<1>2. new \in Seq(Nat)
  BY <1>1 DEF Frames
<1>3. Got(st, i) = [st EXCEPT ![Len(st)].items = new]
  BY DEF Got
<1> HIDE DEF new
<1>4. ASSUME NEW x \in Frames
      PROVE  /\ [x EXCEPT !.items = new] \in Frames
             /\ [x EXCEPT !.items = new].what = x.what /\ [x EXCEPT !.items = new].first = x.first
             /\ [x EXCEPT !.items = new].items = new
  BY <1>2 DEF Frames
<1>5. Got(st, i) = [st EXCEPT ![Len(st)] = [st[Len(st)] EXCEPT !.items = new]]
  BY <1>1, <1>3
<1>6. Got(st, i) \in Seq(Frames) /\ Len(Got(st, i)) = Len(st) /\ DOMAIN Got(st, i) = DOMAIN st
  BY <1>1, <1>4, <1>5
<1>7. \A k \in DOMAIN st : k # Len(st) => Got(st, i)[k] = st[k]
  BY <1>1, <1>5
<1>8. Got(st, i)[Len(st)] = [st[Len(st)] EXCEPT !.items = new]
  BY <1>1, <1>5
<1>9. /\ Got(st, i)[Len(st)].what = st[Len(st)].what /\ Got(st, i)[Len(st)].first = st[Len(st)].first
      /\ Got(st, i)[Len(st)].items = new
  BY <1>1, <1>4, <1>8
<1>10. st[Len(st)].what # "block" => Got(st, i)[Len(st)].items = Append(st[Len(st)].items, i)
  BY <1>9 DEF new
<1> QED BY <1>6, <1>7, <1>9, <1>10

-----------------------------------------------------------------------------
(* What an expression and a return do to the types.                        *)
LEMMA ReadBasics ==
    ASSUME ReadTypeOK
    PROVE  /\ tokens \in Seq(Tokens) /\ Len(tokens) \in Nat /\ DOMAIN tokens = 1 .. Len(tokens)
           /\ \A i : At(i) # "end" => i \in DOMAIN tokens
           /\ \A i \in DOMAIN tokens : At(i) = tokens[i] /\ tokens[i] \in Tokens /\ tokens[i] # "end"
           /\ Len(calls) \in Nat \ {0} /\ DOMAIN calls = 1 .. Len(calls)
           /\ Len(calls) \in DOMAIN calls /\ Current = calls[Len(calls)] /\ Current \in Frames
           /\ \A k \in DOMAIN calls : calls[k] \in Frames /\ calls[k].first \in Nat /\ calls[k].items \in Seq(Nat)
           /\ idx \in Nat \ {0} /\ idx <= Len(tokens) + 1
<1>1. /\ tokens \in Seq(Tokens) /\ Len(tokens) \in Nat /\ DOMAIN tokens = 1 .. Len(tokens)
      /\ \A i : At(i) # "end" => i \in DOMAIN tokens
      /\ \A i \in DOMAIN tokens : At(i) = tokens[i] /\ tokens[i] \in Tokens /\ tokens[i] # "end"
  BY ReaderAssumption DEF ReadTypeOK, At, Tokens
<1>2. /\ Len(calls) \in Nat \ {0} /\ DOMAIN calls = 1 .. Len(calls)
      /\ Len(calls) \in DOMAIN calls /\ \A k \in DOMAIN calls : calls[k] \in Frames
  BY DEF ReadTypeOK
<1>3. \A f \in Frames : f.first \in Nat /\ f.items \in Seq(Nat)
  BY DEF Frames
<1>4. idx \in Nat \ {0} /\ idx <= Len(tokens) + 1
  BY <1>1 DEF ReadTypeOK
<1> QED BY <1>1, <1>2, <1>3, <1>4 DEF Current

LEMMA BegunTypes ==
    ASSUME ReadTypeOK, NEW w \in {"(", "[", "block", "@"}, NEW i \in DOMAIN tokens, NEW name \in Seq(Tokens),
           calls' = Begun(Frame(w, i, name)),
           idx' \in 1 .. Len(tokens) + 1, UNCHANGED <<tokens, made, reading>>
    PROVE  ReadTypeOK'
<1>1. Frame(w, i, name) \in Frames /\ Frame(w, i, name).what # "top"
  BY ReadBasics DEF Frame, Frames
<1>2. /\ calls' \in Seq(Frames) /\ Len(calls') = Len(calls) + 1 /\ DOMAIN calls' = DOMAIN calls \cup {Len(calls')}
      /\ \A k \in DOMAIN calls : calls'[k] = calls[k]
      /\ calls'[Len(calls')] = Frame(w, i, name)
  BY <1>1, Pushed DEF ReadTypeOK, Begun
<1>3. calls' # <<>> /\ \A k \in DOMAIN calls' : k = 1 <=> calls'[k].what = "top"
  BY <1>1, <1>2, ReadBasics DEF ReadTypeOK
<1> QED BY <1>2, <1>3 DEF ReadTypeOK

LEMMA ReturnedTypes ==
    ASSUME ReadTypeOK, Current.what # "top", NEW n, Returned(n),
           idx' \in 1 .. Len(tokens) + 1, UNCHANGED <<tokens, reading>>
    PROVE  ReadTypeOK'
<1> DEFINE st == SubSeq(calls, 1, Len(calls) - 1)
<1>1. Len(calls) > 1
  BY ReadBasics DEF ReadTypeOK, Current
<1>2. /\ st \in Seq(Frames) /\ Len(st) = Len(calls) - 1 /\ DOMAIN st = DOMAIN calls \ {Len(calls)}
      /\ \A k \in DOMAIN st : st[k] = calls[k]
  BY <1>1, Popped DEF ReadTypeOK
<1> HIDE DEF st
<1>3. Current.first \in Nat /\ st # <<>>
  BY <1>1, <1>2, ReadBasics DEF Frames
<1>4. /\ Got(st, Current.first) \in Seq(Frames) /\ DOMAIN Got(st, Current.first) = DOMAIN st
      /\ Len(Got(st, Current.first)) = Len(st)
      /\ \A k \in DOMAIN st : Got(st, Current.first)[k].what = st[k].what
  BY <1>2, <1>3, GotIt
<1>5. calls' = Got(st, Current.first)
  BY DEF Returned, st
<1>6. calls' # <<>> /\ \A k \in DOMAIN calls' : k = 1 <=> calls'[k].what = "top"
  <2>1. \A k \in DOMAIN st : k \in DOMAIN calls /\ (k = 1 <=> calls[k].what = "top")
    BY <1>2 DEF ReadTypeOK
  <2>2. DOMAIN calls' = DOMAIN st /\ \A k \in DOMAIN st : calls'[k].what = calls[k].what
    BY <1>2, <1>4, <1>5
  <2>3. Len(calls') # 0
    BY <1>1, <1>2, <1>4, <1>5
  <2> QED BY <2>1, <2>2, <2>3
<1>7. made' = [i \in DOMAIN tokens |-> made'[i]]
  BY DEF Returned, ReadTypeOK
<1> QED BY <1>4, <1>5, <1>6, <1>7 DEF ReadTypeOK

LEMMA ReadTypes == ReadTypeOK /\ [ReadNext]_readVars => ReadTypeOK'
<1> SUFFICES ASSUME ReadTypeOK, [ReadNext]_readVars PROVE ReadTypeOK'
  OBVIOUS
<1> USE ReadBasics
<1>1. ASSUME NEW i \in DOMAIN tokens, ParseAtom(i) PROVE ReadTypeOK'
  <2>1. /\ calls' \in Seq(Frames) /\ Len(calls') = Len(calls) /\ DOMAIN calls' = DOMAIN calls
        /\ \A k \in DOMAIN calls : calls'[k].what = calls[k].what
    BY SMTT(30), <1>1, GotIt DEF ParseAtom, ReadTypeOK
  <2>2. calls' # <<>> /\ \A k \in DOMAIN calls' : k = 1 <=> calls'[k].what = "top"
    BY <2>1 DEF ReadTypeOK
  <2>3. made' = [j \in DOMAIN tokens |-> made'[j]]
    BY <1>1 DEF ParseAtom, ReadTypeOK
  <2>4. idx' \in 1 .. Len(tokens) + 1 /\ tokens' = tokens /\ reading' = reading
    BY <1>1 DEF ParseAtom
  <2> QED BY <2>1, <2>2, <2>3, <2>4 DEF ReadTypeOK
<1>2. ASSUME NEW i \in DOMAIN tokens, ParseSexpr(i) \/ ParseArray(i) \/ ParseDeref(i) PROVE ReadTypeOK'
  <2>1. \E w \in {"(", "[", "block", "@"} : calls' = Begun(Frame(w, i, <<>>))
    BY <1>2 DEF ParseSexpr, ParseArray, ParseDeref
  <2>2. <<>> \in Seq(Tokens) /\ idx' \in 1 .. Len(tokens) + 1 /\ UNCHANGED <<tokens, made, reading>>
    BY <1>2 DEF ParseSexpr, ParseArray, ParseDeref
  <2> QED BY <2>1, <2>2, BegunTypes
<1>3. ASSUME NEW i \in DOMAIN tokens, ParseNamedBlock(i) PROVE ReadTypeOK'
  <2> DEFINE name == IF At(i + 2) \in Symbols THEN <<At(i + 2)>> ELSE <<>>
  <2>1. name \in Seq(Tokens) /\ i + 2 + Len(name) \in 1 .. Len(tokens) + 1
    <3>1. i + 1 \in DOMAIN tokens
      BY <1>3 DEF ParseNamedBlock
    <3>2. CASE At(i + 2) \in Symbols
      <4>1. i + 2 \in DOMAIN tokens /\ At(i + 2) \in Tokens
        BY <3>2 DEF Symbols
      <4> QED BY <3>2, <4>1
    <3>3. CASE At(i + 2) \notin Symbols
      BY <3>1, <3>3
    <3> QED BY <3>2, <3>3
  <2>2. calls' = Begun(Frame("block", i, name)) /\ idx' = i + 2 + Len(name) /\ UNCHANGED <<tokens, made, reading>>
    BY <1>3 DEF ParseNamedBlock
  <2> HIDE DEF name
  <2> QED BY <2>1, <2>2, BegunTypes
<1>4. ASSUME ReturnSexpr \/ ReturnArray \/ ReturnBlock \/ ReturnDeref PROVE ReadTypeOK'
  <2>1. \E n : Returned(n)
    BY <1>4 DEF ReturnSexpr, ReturnArray, ReturnBlock, ReturnDeref
  <2>2. idx \in 1 .. Len(tokens) + 1 /\ \A c \in Closers : Consume(c) \in 1 .. Len(tokens) + 1
    BY SMTT(30) DEF Consume, Closers, ReadTypeOK
  <2>3. idx' \in 1 .. Len(tokens) + 1 /\ Current.what # "top" /\ UNCHANGED <<tokens, reading>>
    BY <1>4, <2>2 DEF ReturnSexpr, ReturnArray, ReturnBlock, ReturnDeref, Closers
  <2> QED BY <2>1, <2>3, ReturnedTypes
<1>5. ASSUME Crash \/ ParseEnd PROVE ReadTypeOK'
  BY <1>5 DEF Crash, ParseEnd, ReadTypeOK
<1>6. CASE UNCHANGED readVars
  BY <1>6 DEF readVars, ReadTypeOK
<1> QED BY <1>1, <1>2, <1>3, <1>4, <1>5, <1>6 DEF ReadNext

-----------------------------------------------------------------------------
(* Without blocks: where an expression begins, and what a return leaves.   *)
LEMMA ExprHere ==
    ASSUME ReadTypeOK, Plain, Shape, NEW i \in DOMAIN tokens, ParseExpr(i)
    PROVE  /\ i = idx /\ reading = "reading"
           /\ Current.what \in {"top", "(", "[", "@"}
           /\ Current.what = "top" => Len(calls) = 1
           /\ Current.what \in {"(", "["} => At(idx) \notin Closers
           /\ Current.what = "@" => /\ At(idx) \notin Closers /\ At(idx - 1) = "@"
                                    /\ Current.first = idx - 1 /\ Current.items = <<>>
           /\ Current.what # "@" => At(idx - 1) # "@"
<1> USE ReadBasics
<1>1. Current.what \in {"top", "(", "[", "@"} /\ (Current.what = "top" => Len(calls) = 1)
  BY DEF Current, Shape, ReadTypeOK
<1>2. i = idx /\ reading = "reading" /\ Wants
  BY <1>1 DEF ParseExpr, ExprAt
<1>3. Current.what \in {"(", "["} => At(idx) \notin Closers
  BY <1>2 DEF Wants
<1>4. ASSUME Current.what = "@"
      PROVE  At(idx) \notin Closers /\ At(idx - 1) = "@" /\ Current.first = idx - 1 /\ Current.items = <<>>
  <2>1. Current.items = <<>>
    BY <1>2, <1>4 DEF Wants
  <2>2. idx = Current.first + 1
    <3>1. Current.items # <<Current.first + 1>>
      BY <2>1
    <3>2. ~(Len(calls) < Len(calls))
      OBVIOUS
    <3> QED BY <1>4, <3>1, <3>2 DEF Shape
  <2>3. Len(calls) # 1 /\ Current.first \in 1 .. idx - 1 /\ tokens[Current.first] = "@"
    BY <1>4 DEF Shape, Current, ReadTypeOK
  <2>4. Current.first \in DOMAIN tokens
    BY <2>2, <2>3 DEF ReadTypeOK
  <2> QED BY <2>1, <2>2, <2>3, <2>4 DEF Plain
<1> QED BY <1>1, <1>2, <1>3, <1>4 DEF Shape

LEMMA ReturnLeaves ==
    ASSUME ReadTypeOK, Shape, Current.what # "top", NEW n, Returned(n)
    PROVE  /\ Len(calls) > 1 /\ Len(calls') = Len(calls) - 1 /\ DOMAIN calls' = 1 .. Len(calls) - 1
           /\ \A k \in DOMAIN calls' :
                 /\ k \in DOMAIN calls
                 /\ calls'[k].what = calls[k].what /\ calls'[k].first = calls[k].first
                 /\ calls'[k].items = IF k = Len(calls) - 1 THEN Append(calls[k].items, Current.first)
                                      ELSE calls[k].items
<1> DEFINE st == SubSeq(calls, 1, Len(calls) - 1)
<1> USE ReadBasics
<1>1. Len(calls) > 1
  BY DEF ReadTypeOK, Current
<1>2. /\ st \in Seq(Frames) /\ Len(st) = Len(calls) - 1 /\ DOMAIN st = DOMAIN calls \ {Len(calls)}
      /\ \A k \in DOMAIN st : st[k] = calls[k]
  BY <1>1, Popped DEF ReadTypeOK
<1>3. calls' = Got(st, Current.first)
  BY DEF Returned
<1> HIDE DEF st
<1>4. Current.first \in Nat /\ st # <<>> /\ Len(st) \in DOMAIN st
  <2>1. Current.first \in Nat
    OBVIOUS
  <2>2. Len(st) \in DOMAIN st
    <3> DEFINE n1 == Len(calls)
    <3>0. n1 \in Nat /\ n1 > 1
      BY <1>1
    <3> HIDE DEF n1
    <3>2. n1 - 1 \in 1 .. n1 /\ n1 - 1 # n1
      BY <3>0
    <3>1. Len(calls) - 1 \in 1 .. Len(calls) /\ Len(calls) - 1 # Len(calls)
      BY <3>2 DEF n1
    <3> QED BY <1>2, <3>1
  <2>3. st # <<>>
    BY <2>2
  <2> QED BY <2>1, <2>2, <2>3
<1>5. st[Len(st)].what # "block"
  BY <1>2, <1>4 DEF Shape, ReadTypeOK
<1>6. /\ Len(calls') = Len(st) /\ DOMAIN calls' = DOMAIN st
      /\ \A k \in DOMAIN st :
            /\ calls'[k].what = st[k].what /\ calls'[k].first = st[k].first
            /\ k # Len(st) => calls'[k] = st[k]
      /\ calls'[Len(st)].items = Append(st[Len(st)].items, Current.first)
  <2> HIDE ReadBasics
  <2> QED BY <1>2, <1>3, <1>4, <1>5, GotIt
<1>7. Len(st) = Len(calls) - 1 /\ DOMAIN st = 1 .. Len(calls) - 1
  BY <1>1, <1>2
<1>8. ASSUME NEW k \in DOMAIN calls'
      PROVE  /\ k \in DOMAIN calls
             /\ calls'[k].what = calls[k].what /\ calls'[k].first = calls[k].first
             /\ calls'[k].items = IF k = Len(calls) - 1 THEN Append(calls[k].items, Current.first)
                                  ELSE calls[k].items
  <2>1. k \in DOMAIN st /\ k \in DOMAIN calls /\ st[k] = calls[k]
    BY <1>2, <1>6
  <2>2. calls'[k].what = calls[k].what /\ calls'[k].first = calls[k].first
    BY <1>6, <2>1
  <2>3. CASE k = Len(st)
    BY <1>6, <1>7, <2>1, <2>2, <2>3
  <2>4. CASE k # Len(st)
    <3>1. calls'[k] = calls[k] /\ k # Len(calls) - 1
      BY <1>6, <1>7, <2>1, <2>4
    <3> QED BY <2>1, <2>2, <3>1
  <2> QED BY <2>3, <2>4
<1> QED BY <1>1, <1>6, <1>7, <1>8

(* The steps: an atom is read, a call begins, a list ends, a deref ends.    *)
LEMMA ShapeAtom ==
    ASSUME ReadTypeOK, Plain, Shape, NEW i \in DOMAIN tokens, ParseAtom(i)
    PROVE  /\ Len(calls') = Len(calls) /\ DOMAIN calls' = DOMAIN calls
           /\ \A k \in DOMAIN calls :
                 /\ calls'[k].what = calls[k].what /\ calls'[k].first = calls[k].first
                 /\ calls'[k].items = IF k = Len(calls) THEN Append(calls[k].items, i) ELSE calls[k].items
           /\ Shape'
<1> USE ReadBasics
<1>1. ParseExpr(i) /\ calls' = Got(calls, i) /\ idx' = i + 1 /\ tokens' = tokens /\ tokens[i] # "@"
  BY DEF ParseAtom
<1>2. i = idx /\ Current.what # "block"
  BY <1>1, ExprHere
<1>3. /\ Len(calls') = Len(calls) /\ DOMAIN calls' = DOMAIN calls
      /\ \A k \in DOMAIN calls :
            /\ calls'[k].what = calls[k].what /\ calls'[k].first = calls[k].first
            /\ k # Len(calls) => calls'[k] = calls[k]
      /\ calls'[Len(calls)].items = Append(calls[Len(calls)].items, i)
  BY ZenonT(40), <1>1, <1>2, GotIt DEF ReadTypeOK, Current
<1>4. \A k \in DOMAIN calls :
         calls'[k].items = IF k = Len(calls) THEN Append(calls[k].items, i) ELSE calls[k].items
  BY <1>3
<1>5. /\ calls'[1].first = 0
      /\ \A k \in DOMAIN calls' \ {1} :
            /\ calls'[k].first \in 1 .. idx' - 1
            /\ calls'[k].what = tokens[calls'[k].first] /\ calls'[k].what \in {"(", "[", "@"}
      /\ \A j, k \in DOMAIN calls' : j < k => calls'[j].first < calls'[k].first
  BY SMTT(30), <1>1, <1>2, <1>3 DEF Shape, ReadTypeOK
<1>6. ASSUME NEW k \in DOMAIN calls', calls'[k].what = "@"
      PROVE  IF k < Len(calls') THEN calls'[k].items = <<>> /\ calls'[k + 1].first = calls'[k].first + 1
             ELSE \/ calls'[k].items = <<>> /\ idx' = calls'[k].first + 1
                  \/ calls'[k].items = <<calls'[k].first + 1>>
  <2>1. calls[k].what = "@" /\ k \in DOMAIN calls
    BY <1>3, <1>6
  <2>2. CASE k < Len(calls)
    <3>1. k + 1 \in DOMAIN calls
      BY <2>1, <2>2
    <3> QED BY <1>3, <2>1, <2>2, <3>1 DEF Shape
  <2>3. CASE k = Len(calls)
    <3>1. calls[k].first + 1 = i /\ calls[k].items = <<>>
      BY <1>1, <1>2, <2>1, <2>3, ExprHere
    <3>2. calls'[k].items = Append(<<>>, i)
      BY <1>4, <2>1, <2>3, <3>1
    <3>3. calls'[k].items = <<i>>
      BY <3>2
    <3> QED BY <1>3, <2>1, <2>3, <3>1, <3>3
  <2> QED BY <2>1, <2>2, <2>3
<1>7. At(idx - 1)' # "@"
  BY <1>1 DEF At
<1> QED BY <1>1, <1>3, <1>4, <1>5, <1>6, <1>7 DEF Shape, Current

LEMMA ShapeBegun ==
    ASSUME ReadTypeOK, Plain, Shape, NEW i \in DOMAIN tokens,
           ParseSexpr(i) \/ ParseArray(i) \/ ParseDeref(i)
    PROVE  /\ Len(calls') = Len(calls) + 1 /\ DOMAIN calls' = DOMAIN calls \cup {Len(calls) + 1}
           /\ \A k \in DOMAIN calls : calls'[k] = calls[k]
           /\ calls'[Len(calls) + 1] = Frame(tokens[i], i, <<>>)
           /\ idx' = i + 1 /\ UNCHANGED <<tokens, made, tree, reading>> /\ ParseExpr(i)
           /\ Shape'
<1> USE ReadBasics
<1>1. /\ tokens[i] \in {"(", "[", "@"} /\ calls' = Append(calls, Frame(tokens[i], i, <<>>))
      /\ idx' = i + 1 /\ UNCHANGED <<tokens, made, tree, reading>> /\ ParseExpr(i)
  BY DEF ParseSexpr, ParseArray, ParseDeref, Begun
<1>2. i = idx
  BY <1>1, ExprHere
<1>3. Frame(tokens[i], i, <<>>) \in Frames
  BY <1>1 DEF Frame, Frames
<1>4. /\ Len(calls') = Len(calls) + 1 /\ DOMAIN calls' = DOMAIN calls \cup {Len(calls) + 1}
      /\ \A k \in DOMAIN calls : calls'[k] = calls[k]
      /\ calls'[Len(calls) + 1] = Frame(tokens[i], i, <<>>)
  BY <1>1, <1>3, Pushed DEF ReadTypeOK
<1>5. Frame(tokens[i], i, <<>>).what = tokens[i] /\ Frame(tokens[i], i, <<>>).first = i
      /\ Frame(tokens[i], i, <<>>).items = <<>>
  BY DEF Frame
<1>6. \A k \in DOMAIN calls : calls[k].first \in 0 .. idx - 1
  BY DEF Shape, ReadTypeOK
<1>7. /\ calls'[1].first = 0
      /\ \A k \in DOMAIN calls' \ {1} :
            /\ calls'[k].first \in 1 .. idx' - 1
            /\ calls'[k].what = tokens[calls'[k].first] /\ calls'[k].what \in {"(", "[", "@"}
  BY SMTT(30), <1>1, <1>2, <1>4, <1>5 DEF Shape, ReadTypeOK
<1>8. \A j, k \in DOMAIN calls' : j < k => calls'[j].first < calls'[k].first
  BY SMTT(30), <1>2, <1>4, <1>5, <1>6 DEF Shape, ReadTypeOK
<1>9. ASSUME NEW k \in DOMAIN calls', calls'[k].what = "@"
      PROVE  IF k < Len(calls') THEN calls'[k].items = <<>> /\ calls'[k + 1].first = calls'[k].first + 1
             ELSE \/ calls'[k].items = <<>> /\ idx' = calls'[k].first + 1
                  \/ calls'[k].items = <<calls'[k].first + 1>>
  <2>1. CASE k < Len(calls)
    <3>1. k \in DOMAIN calls /\ k + 1 \in DOMAIN calls
      BY <2>1, <1>4
    <3> QED BY SMTT(30), <1>4, <1>9, <2>1, <3>1 DEF Shape
  <2>2. CASE k = Len(calls)
    <3>1. Current.first = idx - 1 /\ Current.items = <<>> /\ calls[k] = Current
      BY <1>1, <1>4, <1>9, <2>2, ExprHere DEF Current
    <3> QED BY <1>2, <1>4, <1>5, <2>2, <3>1 DEF ReadTypeOK
  <2>3. CASE k = Len(calls')
    BY <1>1, <1>4, <1>5, <2>3
  <2> QED BY <1>4, <2>1, <2>2, <2>3
<1>10. Current'.first = idx' - 1 /\ Current'.items = <<>> /\ Current'.what = tokens[i] /\ At(idx - 1)' = tokens[i]
  BY <1>1, <1>4, <1>5 DEF Current, At
<1> QED BY <1>1, <1>4, <1>7, <1>8, <1>9, <1>10 DEF Shape

LEMMA ShapeReturn ==
    ASSUME ReadTypeOK, Plain, Shape, Current.what # "top", NEW n, Returned(n), tokens' = tokens,
           \/ idx' = idx /\ Current.what = "@" /\ Current.items # <<>>
           \/ idx' \in {idx, idx + 1} /\ At(idx) \in Closers
    PROVE  Shape'
<1> USE ReadBasics
<1>1. /\ Len(calls) > 1 /\ Len(calls') = Len(calls) - 1 /\ DOMAIN calls' = 1 .. Len(calls) - 1
      /\ \A k \in DOMAIN calls' :
            /\ k \in DOMAIN calls
            /\ calls'[k].what = calls[k].what /\ calls'[k].first = calls[k].first
            /\ calls'[k].items = IF k = Len(calls) - 1 THEN Append(calls[k].items, Current.first)
                                 ELSE calls[k].items
  BY ReturnLeaves
<1>2. idx' \in {idx, idx + 1} /\ idx \in Nat
  BY DEF ReadTypeOK
<1>3. /\ calls'[1].first = 0
      /\ \A k \in DOMAIN calls' \ {1} :
            /\ calls'[k].first \in 1 .. idx' - 1
            /\ calls'[k].what = tokens[calls'[k].first] /\ calls'[k].what \in {"(", "[", "@"}
      /\ \A j, k \in DOMAIN calls' : j < k => calls'[j].first < calls'[k].first
  <2>1. 1 \in DOMAIN calls'
    BY <1>1
  <2>2. calls'[1].first = 0
    BY <1>1, <2>1 DEF Shape
  <2>3. ASSUME NEW k \in DOMAIN calls' \ {1}
        PROVE  /\ calls'[k].first \in 1 .. idx' - 1
               /\ calls'[k].what = tokens[calls'[k].first] /\ calls'[k].what \in {"(", "[", "@"}
    <3>1. k \in DOMAIN calls \ {1} /\ calls'[k].what = calls[k].what /\ calls'[k].first = calls[k].first
      BY <1>1
    <3>2. calls[k].first \in 1 .. idx - 1 /\ calls[k].what = tokens[calls[k].first] /\ calls[k].what \in {"(", "[", "@"}
      BY <3>1 DEF Shape
    <3> QED BY <1>2, <3>1, <3>2
  <2>4. \A j, k \in DOMAIN calls' : j < k => calls'[j].first < calls'[k].first
    BY <1>1 DEF Shape
  <2> QED BY <2>2, <2>3, <2>4
<1>4. ASSUME NEW k \in DOMAIN calls', calls'[k].what = "@"
      PROVE  IF k < Len(calls') THEN calls'[k].items = <<>> /\ calls'[k + 1].first = calls'[k].first + 1
             ELSE calls'[k].items = <<calls'[k].first + 1>>
  <2>1. k \in DOMAIN calls /\ k + 1 \in DOMAIN calls /\ k < Len(calls) /\ calls[k].what = "@"
    BY <1>1, <1>4
  <2>2. calls[k].items = <<>> /\ calls[k + 1].first = calls[k].first + 1
    BY <2>1 DEF Shape
  <2>3. CASE k < Len(calls')
    <3>1. k + 1 \in DOMAIN calls' /\ k # Len(calls) - 1
      BY <1>1, <2>1, <2>3
    <3> QED BY <1>1, <1>4, <2>2, <2>3, <3>1
  <2>4. CASE k = Len(calls')
    <3>1. k = Len(calls) - 1 /\ calls[k + 1] = Current
      BY <1>1, <2>4 DEF Current
    <3>3. calls'[k].items = Append(<<>>, Current.first)
      BY <1>1, <2>2, <3>1
    <3>2. calls'[k].items = <<Current.first>>
      BY <3>3
    <3> QED BY SMTT(30), <1>1, <2>2, <2>4, <3>1, <3>2
  <2> QED BY <1>1, <1>4, <2>3, <2>4
<1>5. At(idx - 1)' # "@"
  <2>1. CASE idx' = idx /\ Current.what = "@" /\ Current.items # <<>>
    BY <2>1 DEF Shape, At
  <2>2. CASE idx' \in {idx, idx + 1} /\ At(idx) \in Closers
    <3>1. At(idx) # "@" /\ At(idx) # "end"
      BY <2>2 DEF Closers
    <3>2. At(idx - 1) # "@"
      <4> SUFFICES ASSUME At(idx - 1) = "@" PROVE FALSE
        OBVIOUS
      <4>1. idx - 1 \in DOMAIN tokens /\ tokens[idx - 1] = "@" /\ (idx - 1) + 1 = idx
        BY <1>2
      <4> QED BY <2>2, <4>1 DEF Plain
    <3>3. CASE idx' = idx
      BY <3>2, <3>3 DEF At
    <3>4. CASE idx' = idx + 1
      <4>1. idx' - 1 = idx
        BY <1>2, <3>4
      <4> QED BY <3>1, <4>1 DEF At
    <3> QED BY <2>2, <3>3, <3>4
  <2> QED BY <2>1, <2>2
<1> QED BY <1>1, <1>3, <1>4, <1>5 DEF Shape, Current

-----------------------------------------------------------------------------
(* Numbers in the order of the text.                                       *)
LEMMA OrderAppend ==
    ASSUME NEW s \in Seq(Nat), NEW S, InTextOrder(s, S), NEW x \in Nat, \A y \in S : y < x
    PROVE  InTextOrder(Append(s, x), S \cup {x})
<1> DEFINE t == Append(s, x)
<1>1. Len(s) \in Nat /\ DOMAIN s = 1 .. Len(s) /\ DOMAIN t = 1 .. Len(s) + 1
  OBVIOUS
<1>2. (\A j \in DOMAIN s : t[j] = s[j]) /\ t[Len(s) + 1] = x
  OBVIOUS
<1> HIDE DEF t
<1>3. \A j \in DOMAIN s : s[j] \in S
  BY DEF InTextOrder
<1>4. {t[j] : j \in DOMAIN t} = S \cup {x}
  <2>1. ASSUME NEW y \in S PROVE y \in {t[j] : j \in DOMAIN t}
    <3>1. PICK j \in DOMAIN s : s[j] = y
      BY DEF InTextOrder
    <3> QED BY <1>1, <1>2, <3>1
  <2>2. ASSUME NEW j \in DOMAIN t PROVE t[j] \in S \cup {x}
    BY <1>1, <1>2, <1>3
  <2>3. x \in {t[j] : j \in DOMAIN t}
    BY <1>1, <1>2
  <2> QED BY <2>1, <2>2, <2>3
<1>5. ASSUME NEW j \in DOMAIN t, NEW k \in DOMAIN t, j < k PROVE t[j] < t[k]
  <2>1. j \in DOMAIN s
    BY <1>1, <1>5
  <2>2. CASE k \in DOMAIN s
    BY <1>2, <1>5, <2>1, <2>2 DEF InTextOrder
  <2>3. CASE k = Len(s) + 1
    BY <1>2, <1>3, <2>1, <2>3
  <2> QED BY <1>1, <2>2, <2>3
<1> QED BY <1>4, <1>5 DEF InTextOrder, t

LEMMA OrderTail ==
    ASSUME NEW s \in Seq(Nat), NEW S, InTextOrder(s, S), NEW x \in S, \A y \in S : x <= y
    PROVE  s # <<>> /\ Head(s) = x /\ InTextOrder(Tail(s), S \ {x})
<1>1. PICK m \in DOMAIN s : s[m] = x
  BY DEF InTextOrder
<1>2. Len(s) \in Nat /\ DOMAIN s = 1 .. Len(s) /\ s # <<>> /\ 1 \in DOMAIN s /\ \A j \in DOMAIN s : s[j] \in Nat
  BY <1>1
<1>3. m = 1
  <2> SUFFICES ASSUME 1 < m PROVE FALSE
    BY <1>2
  <2>1. s[1] < x /\ s[1] \in S
    BY <1>1, <1>2 DEF InTextOrder
  <2> QED BY <1>1, <1>2, <2>1
<1> DEFINE t == Tail(s)
<1>4. DOMAIN t = 1 .. Len(s) - 1 /\ \A j \in 1 .. Len(s) - 1 : t[j] = s[j + 1]
  BY <1>2
<1>5. Head(s) = s[1]
  BY <1>2
<1> HIDE DEF t
<1>6. {t[j] : j \in DOMAIN t} = S \ {x}
  <2>1. ASSUME NEW y \in S \ {x} PROVE y \in {t[j] : j \in DOMAIN t}
    <3>1. PICK j \in DOMAIN s : s[j] = y
      BY DEF InTextOrder
    <3>2. j - 1 \in DOMAIN t /\ t[j - 1] = y
      BY <1>1, <1>2, <1>3, <1>4, <3>1
    <3> QED BY <3>2
  <2>2. ASSUME NEW j \in DOMAIN t PROVE t[j] \in S \ {x}
    <3>1. j + 1 \in DOMAIN s /\ 1 < j + 1 /\ t[j] = s[j + 1] /\ s[j + 1] \in Nat
      BY <1>2, <1>4
    <3>2. s[j + 1] \in S /\ s[1] < s[j + 1] /\ s[1] \in Nat
      BY <1>2, <3>1 DEF InTextOrder
    <3> QED BY <1>1, <1>3, <3>1, <3>2
  <2> QED BY <2>1, <2>2
<1>7. \A j, k \in DOMAIN t : j < k => t[j] < t[k]
  <2> TAKE j, k \in DOMAIN t
  <2> HAVE j < k
  <2>1. j + 1 \in DOMAIN s /\ k + 1 \in DOMAIN s /\ j + 1 < k + 1
    BY SMTT(30), <1>2, <1>4
  <2> QED BY <1>4, <2>1 DEF InTextOrder
<1> QED BY <1>1, <1>2, <1>3, <1>5, <1>6, <1>7 DEF InTextOrder, t

-----------------------------------------------------------------------------
(* Where an expression begins, and where a list ends.                      *)
LEMMA Places ==
    ASSUME ReadTypeOK
    PROVE  /\ \A o \in Lists : o \in Nat \ {0} /\ o <= Len(tokens) /\ tokens[o] \in {"(", "["} /\ o \notin Closing
           /\ \A c \in Closing : c \in Nat \ {0} /\ c <= Len(tokens)
           /\ \A e \in Endings, o \in Lists : /\ e[o] \in Nat /\ e[o] <= Len(tokens) + 1
                                              /\ e[o] \in Closing \/ e[o] = Len(tokens) + 1
<1>1. \A o \in Lists : o \in Nat \ {0} /\ o <= Len(tokens) /\ tokens[o] \in {"(", "["} /\ o \notin Closing
  BY ReadBasics DEF Lists, Closing, Closers
<1>2. \A c \in Closing : c \in Nat \ {0} /\ c <= Len(tokens)
  BY ReadBasics DEF Closing
<1>3. \A e \in Endings, o \in Lists : e[o] \in Closing \/ e[o] = Len(tokens) + 1
  BY DEF Endings
<1> QED BY <1>1, <1>2, <1>3, ReadBasics

LEMMA LastWaits ==
    ASSUME ReadTypeOK, Shape
    PROVE  /\ \A w \in Waiting : w \in Nat /\ w < idx /\ (w = Current.first \/ w < Current.first)
           /\ Current.first \in Waiting
           /\ \A k \in DOMAIN calls : calls[k].what # "@" => calls[k].first \in Lists \cup {0}
           /\ Len(calls) = 1 => Waiting = {0}
           /\ Current.what \in {"(", "["} => Current.first \in Lists /\ tokens[Current.first] = Current.what
           /\ Current.what = "@" => Current.first \notin Lists /\ tokens[Current.first] = "@"
<1> USE ReadBasics
<1>1. ASSUME NEW k \in DOMAIN calls
      PROVE  /\ calls[k].first \in Nat /\ calls[k].first < idx
             /\ calls[k].first = Current.first \/ calls[k].first < Current.first
             /\ calls[k].what # "@" => calls[k].first \in Lists \cup {0}
             /\ k # 1 => calls[k].first \in DOMAIN tokens /\ calls[k].what = tokens[calls[k].first]
  <2>1. CASE k = 1
    BY <2>1 DEF Shape
  <2>2. CASE k # 1
    <3>1. calls[k].first \in DOMAIN tokens /\ calls[k].first < idx
      BY <2>2 DEF Shape
    <3>2. calls[k].what = tokens[calls[k].first] /\ calls[k].what \in {"(", "[", "@"}
      BY <2>2 DEF Shape
    <3>3. calls[k].what # "@" => calls[k].first \in Lists
      BY <3>1, <3>2 DEF Lists
    <3>4. k = Len(calls) \/ k < Len(calls)
      OBVIOUS
    <3>5. calls[k].first = Current.first \/ calls[k].first < Current.first
      BY <3>4 DEF Shape
    <3> QED BY <3>1, <3>2, <3>3, <3>5
  <2> QED BY <2>1, <2>2
<1>2. \A w \in Waiting : w \in Nat /\ w < idx /\ (w = Current.first \/ w < Current.first)
  BY <1>1 DEF Waiting
<1>3. Current.first \in Waiting
  BY DEF Waiting
<1>4. Len(calls) = 1 => Waiting = {0}
  BY DEF Waiting, Shape
<1>5. Current.what \in {"(", "[", "@"} => Current.first \in DOMAIN tokens /\ tokens[Current.first] = Current.what
  BY <1>1 DEF ReadTypeOK
<1> QED BY <1>1, <1>2, <1>3, <1>4, <1>5 DEF Lists

LEMMA Belongs ==
    ASSUME ReadTypeOK, Plain, Shape, NEW i \in DOMAIN tokens, ParseExpr(i), NEW e \in Endings, Standing(e)
    PROVE  /\ \A o \in Lists \cap Waiting : idx < e[o]
           /\ \A o \in Lists \ Waiting : o < idx => e[o] <= idx
           /\ Node(e, idx)
           /\ Current.what # "@" => idx \in Members(e, Current.first)
           /\ \A k \in DOMAIN calls : calls[k].what # "@" /\ k # Len(calls) => idx \notin Members(e, calls[k].first)
<1> USE ReadBasics, Places, LastWaits, ExprHere
<1>1. ASSUME NEW o \in Lists \cap Waiting PROVE idx < e[o]
  <2>1. Current.what # "top"
    BY <1>1
  <2>2. At(idx) \notin Closers /\ idx \in DOMAIN tokens
    BY <2>1
  <2>3. idx \notin Closing /\ idx # Len(tokens) + 1
    BY <2>2 DEF Closing
  <2>4. idx <= e[o] /\ e[o] \in Nat /\ e[o] # idx
    BY <2>3 DEF Standing
  <2> QED BY <2>4
<1>2. ASSUME NEW o \in Lists \ Waiting, o < idx PROVE e[o] <= idx
  BY <1>2 DEF Standing
<1>3. Node(e, idx)
  <2> SUFFICES ASSUME idx \in Closing PROVE Stray(e, idx)
    BY DEF Node
  <2>1. Current.what = "top" /\ Waiting = {0}
    BY DEF Closing
  <2>2. ASSUME NEW o \in Lists, o < idx, idx <= e[o] PROVE ~Matches(o, idx)
    <3>1. o \notin Waiting
      BY <2>1
    <3>2. e[o] < idx \/ ~Matches(o, idx)
      BY <2>2, <3>1 DEF Standing
    <3> QED BY <2>2, <3>2
  <2> QED BY <2>2 DEF Stray
<1>4. ASSUME Current.what # "@" PROVE idx \in Members(e, Current.first)
  <2>1. idx \in DOMAIN tokens /\ At(idx - 1) # "@" /\ Current.first < idx
    BY <1>4
  <2>2. Encloses(e, Current.first, idx)
    BY <1>1, <2>1 DEF Encloses
  <2>3. ASSUME NEW p \in Lists, Current.first < p PROVE ~Encloses(e, p, idx)
    <3>1. p \notin Waiting
      BY SMTT(30), <2>3
    <3>2. p < idx => e[p] <= idx
      BY <1>2, <3>1
    <3> QED BY <3>2 DEF Encloses
  <2> QED BY <1>3, <2>1, <2>2, <2>3 DEF Members
<1>5. ASSUME NEW k \in DOMAIN calls, calls[k].what # "@", k # Len(calls), idx \in Members(e, calls[k].first)
      PROVE  FALSE
  <2>1. Current.what # "@"
    <3>1. At(idx - 1) # "@"
      BY <1>5 DEF Members
    <3> QED BY <3>1
  <2>2. calls[k].first \in Lists \cup {0} /\ Current.first \in Lists \cup {0}
    BY <1>5, <2>1
  <2>3. calls[k].first < Current.first
    BY <1>5 DEF Shape
  <2> QED BY <1>4, <1>5, <2>1, <2>2, <2>3, MemberOnce
<1> QED BY <1>1, <1>2, <1>3, <1>4, <1>5

LEMMA ListEnds ==
    ASSUME ReadTypeOK, Plain, Shape, Current.what \in {"(", "["}, At(idx) \in Closers,
           NEW e \in Endings, Ends(e), Standing(e)
    PROVE  /\ idx \in Closing /\ e[Current.first] = idx
           /\ Matches(Current.first, idx) => \A o \in Lists \cap Waiting : o # Current.first => idx < e[o]
<1> USE ReadBasics, Places, LastWaits
<1> DEFINE o == Current.first
<1>1. idx \in Closing
  BY DEF Closing, Closers
<1>2. o \in Lists /\ o \in Waiting /\ o < idx /\ idx <= e[o]
  BY DEF Standing
<1>3. e[o] = idx
  <2> SUFFICES ASSUME idx < e[o] PROVE FALSE
    BY <1>2
  <2>3. idx <= e[o] /\ idx # e[o]
    BY <1>2
  <2>1. PICK p \in Lists : o < p /\ p < idx /\ idx <= e[p] /\ Matches(p, idx)
    <3> HIDE DEF o
    <3> QED BY <1>1, <1>2, <2>3 DEF Ends
  <2>2. p \notin Waiting
    BY SMTT(30), <2>1
  <2> QED BY <2>1, <2>2 DEF Standing
<1>4. ASSUME Matches(o, idx), NEW q \in Lists \cap Waiting, q # o PROVE idx < e[q]
  <2>1. q < o /\ q < idx /\ idx <= e[q]
    BY <1>4 DEF Standing
  <2>2. idx # e[q]
    BY <1>1, <1>2, <1>4, <2>1 DEF Ends
  <2> QED BY <2>1, <2>2
<1> QED BY <1>1, <1>3, <1>4

-----------------------------------------------------------------------------
(* What the steps do to the lists, for any e that says where they end.     *)
LEMMA WaitAtom ==
    ASSUME ReadTypeOK, Plain, Shape, NEW i \in DOMAIN tokens, ParseAtom(i)
    PROVE  Waiting' = Waiting
BY ShapeAtom DEF Waiting

LEMMA WaitBegun ==
    ASSUME ReadTypeOK, Plain, Shape, NEW i \in DOMAIN tokens, ParseSexpr(i) \/ ParseArray(i) \/ ParseDeref(i)
    PROVE  Waiting' = Waiting \cup {i}
<1>1. /\ DOMAIN calls' = DOMAIN calls \cup {Len(calls) + 1}
      /\ \A k \in DOMAIN calls : calls'[k] = calls[k]
      /\ calls'[Len(calls) + 1].first = i
  <2>1. Frame(tokens[i], i, <<>>).first = i
    BY DEF Frame
  <2> QED BY <2>1, ShapeBegun
<1>2. \A k \in DOMAIN calls : k \in DOMAIN calls'
  BY <1>1
<1> QED BY <1>1, <1>2 DEF Waiting

LEMMA WaitReturn ==
    ASSUME ReadTypeOK, Shape, Current.what # "top", NEW n, Returned(n)
    PROVE  Waiting' = Waiting \ {Current.first}
<1>0. /\ Len(calls) \in Nat /\ DOMAIN calls = 1 .. Len(calls) /\ DOMAIN calls' = 1 .. Len(calls) - 1
      /\ \A k \in DOMAIN calls' : calls'[k].first = calls[k].first
      /\ Len(calls) \in DOMAIN calls /\ Current = calls[Len(calls)]
      /\ \A k \in DOMAIN calls : calls[k].first \in Nat
  BY ReadBasics, ReturnLeaves
<1>1. \A k \in DOMAIN calls' : k \in DOMAIN calls /\ k < Len(calls) /\ calls'[k].first = calls[k].first
  BY <1>0
<1>2. \A k \in DOMAIN calls : k = Len(calls) \/ k \in DOMAIN calls'
  BY <1>0
<1>3. \A k \in DOMAIN calls : k < Len(calls) => calls[k].first # Current.first
  BY <1>0 DEF Shape
<1>4. Waiting' = {calls'[k].first : k \in DOMAIN calls'}
  BY DEF Waiting
<1> QED BY <1>0, <1>1, <1>2, <1>3, <1>4 DEF Waiting

LEMMA StandingAtom ==
    ASSUME ReadTypeOK, Plain, Shape, NEW i \in DOMAIN tokens, ParseAtom(i), NEW e \in Endings, Standing(e)
    PROVE  Standing(e)'
<1> USE ReadBasics, Places
<1>1. ParseExpr(i) /\ idx' = idx + 1 /\ tokens' = tokens /\ i = idx /\ idx \notin Lists
  BY ExprHere DEF ParseAtom, Lists
<1>2. Waiting' = Waiting /\ Lists' = Lists
  BY <1>1, WaitAtom, TextFixed
<1>3. ASSUME NEW o \in Lists \cap Waiting PROVE idx' <= e[o]
  BY <1>1, Belongs
<1>4. ASSUME NEW o \in Lists \ Waiting, o < idx' PROVE e[o] < idx'
  BY <1>1, <1>4, Belongs
<1> QED BY <1>2, <1>3, <1>4 DEF Standing

LEMMA StandingBegun ==
    ASSUME ReadTypeOK, Plain, Shape, NEW i \in DOMAIN tokens, ParseSexpr(i) \/ ParseArray(i) \/ ParseDeref(i),
           NEW e \in Endings, Ends(e), Standing(e)
    PROVE  Standing(e)'
<1> USE ReadBasics, Places
<1>1. ParseExpr(i) /\ idx' = idx + 1 /\ tokens' = tokens /\ i = idx
  BY ExprHere, ShapeBegun
<1>2. Waiting' = Waiting \cup {i} /\ Lists' = Lists
  BY <1>1, WaitBegun, TextFixed
<1>3. ASSUME NEW o \in Lists, o \in Waiting \cup {i} PROVE idx' <= e[o]
  <2>1. CASE o = i
    BY <1>1, <2>1 DEF Ends
  <2>2. CASE o \in Waiting
    BY <1>1, <2>2, Belongs
  <2> QED BY <1>3, <2>1, <2>2
<1>4. ASSUME NEW o \in Lists, o \notin Waiting, o # i, o < idx' PROVE e[o] < idx'
  BY <1>1, <1>4, Belongs
<1> QED BY <1>2, <1>3, <1>4 DEF Standing

\* where a list ends its token is its own, and consumed, or is left
ListReturn(n) ==
    /\ Current.what \in {"(", "["} /\ At(idx) \in Closers
    /\ Returned(n)
    /\ idx' = IF Matches(Current.first, idx) THEN idx + 1 ELSE idx
    /\ UNCHANGED <<tokens, tree, reading>>

LEMMA StandingList ==
    ASSUME ReadTypeOK, Plain, Shape, NEW n, ListReturn(n), NEW e \in Endings, Ends(e), Standing(e)
    PROVE  Standing(e)'
<1> USE ReadBasics, Places, LastWaits
<1> DEFINE o == Current.first
<1>1. o \in Lists /\ e[o] = idx /\ idx \in Closing /\ tokens' = tokens
  BY ListEnds DEF ListReturn
<1>2. Waiting' = Waiting \ {o} /\ Lists' = Lists /\ Closing' = Closing
  BY <1>1, WaitReturn, TextFixed DEF ListReturn
<1>3. \A w \in Waiting' : w < o
  BY <1>2
<1>4. \A p, c : Matches(p, c)' <=> Matches(p, c)
  BY <1>1, TextFixed
<1>5. CASE Matches(o, idx)
  <2>1. idx' = idx + 1
    BY <1>5 DEF ListReturn
  <2>2. ASSUME NEW q \in Lists \cap Waiting' PROVE idx' <= e[q]
    <3>1. idx < e[q]
      BY <1>2, <1>5, ListEnds DEF ListReturn
    <3> QED BY <2>1, <3>1
  <2>3. ASSUME NEW q \in Lists \ Waiting', q < idx' PROVE e[q] < idx'
    <3>1. CASE q = o
      BY <1>1, <2>1, <3>1
    <3>2. CASE q # o
      <4>1. q \notin Waiting /\ q < idx
        BY <1>1, <1>2, <2>1, <2>3, <3>2
      <4> QED BY <2>1, <4>1 DEF Standing
    <3> QED BY <3>1, <3>2
  <2> QED BY <1>2, <2>2, <2>3 DEF Standing
<1>6. CASE ~Matches(o, idx)
  <2>1. idx' = idx
    BY <1>6 DEF ListReturn
  <2>2. ASSUME NEW q \in Lists \cap Waiting' PROVE idx' <= e[q]
    BY <1>2, <2>1 DEF Standing
  <2>3. ASSUME NEW q \in Lists \ Waiting', q < idx'
        PROVE  \/ e[q] < idx'
               \/ e[q] = idx' /\ idx' \in Closing /\ ~Matches(q, idx') /\ \A w \in Waiting' : w < q
    <3>1. CASE q = o
      BY <1>1, <1>3, <1>6, <2>1, <3>1
    <3>2. CASE q # o
      <4>1. q \notin Waiting /\ q < idx
        BY <1>2, <2>1, <2>3, <3>2
      <4> QED BY <1>2, <2>1, <4>1 DEF Standing
    <3> QED BY <3>1, <3>2
  <2>4. \A q : Matches(q, idx)' <=> Matches(q, idx)
    BY <1>1, <2>1 DEF Matches
  <2> QED BY <1>2, <1>4, <2>1, <2>2, <2>3, <2>4 DEF Standing
<1> QED BY <1>5, <1>6

LEMMA StandingDeref ==
    ASSUME ReadTypeOK, Plain, Shape, ReturnDeref, NEW e \in Endings, Standing(e)
    PROVE  Standing(e)'
<1> USE ReadBasics, LastWaits
<1>1. tokens' = tokens /\ idx' = idx /\ Current.first \notin Lists
  BY DEF ReturnDeref
<1>2. Waiting' = Waiting \ {Current.first} /\ Lists' = Lists /\ Closing' = Closing
  BY <1>1, WaitReturn, TextFixed DEF ReturnDeref
<1>3. \A q : Matches(q, idx)' <=> Matches(q, idx)
  BY <1>1 DEF Matches
<1>4. Lists \cap Waiting' = Lists \cap Waiting /\ Lists \ Waiting' = Lists \ Waiting
  BY <1>1, <1>2
<1> QED BY <1>1, <1>2, <1>3, <1>4 DEF Standing

-----------------------------------------------------------------------------
(* What the steps do to the members that are made.                         *)
LEMMA UpTo ==
    ASSUME NEW M \in SUBSET Nat, NEW x \in Nat, NEW y, y = x + 1
    PROVE  /\ x \in M => {j \in M : j < y} = {j \in M : j < x} \cup {x}
           /\ x \notin M => {j \in M : j < y} = {j \in M : j < x}
           /\ \A j \in M : j < y => j < x \/ j = x
<1>1. \A j \in M : j \in Nat /\ (j < y <=> j < x \/ j = x)
  OBVIOUS
<1> QED BY <1>1

LEMMA NestedNext ==
    ASSUME tokens' = tokens, NEW e,
           \A k \in DOMAIN calls' : calls'[k].what # "@" =>
              /\ InTextOrder(calls'[k].items, {i \in Members(e, calls'[k].first) : i < idx'} \ Waiting')
              /\ k < Len(calls') =>
                    /\ calls'[k + 1].first \in Members(e, calls'[k].first)
                    /\ \A i \in Members(e, calls'[k].first) : i < idx' => i <= calls'[k + 1].first
    PROVE  Nested(e)'
<1>1. \A o : Members(e, o)' = Members(e, o)
  BY TextFixed
<1> QED BY <1>1 DEF Nested

LEMMA NestedAtom ==
    ASSUME ReadTypeOK, Plain, Shape, NEW i \in DOMAIN tokens, ParseAtom(i),
           NEW e \in Endings, Standing(e), Nested(e)
    PROVE  Nested(e)'
<1>0. idx \in Nat /\ Len(calls) \in Nat /\ DOMAIN calls = 1 .. Len(calls) /\ DOMAIN tokens \subseteq Nat
  BY ReadBasics
<1>1. ParseExpr(i) /\ idx' = idx + 1 /\ tokens' = tokens /\ i = idx
  BY ExprHere DEF ParseAtom
<1>2. Waiting' = Waiting /\ idx \notin Waiting
  <2>1. Waiting' = Waiting
    BY WaitAtom
  <2>2. \A w \in Waiting : w \in Nat /\ w < idx
    BY LastWaits
  <2> QED BY <1>0, <2>1, <2>2
<1>3. /\ Len(calls') = Len(calls) /\ DOMAIN calls' = DOMAIN calls
      /\ \A k \in DOMAIN calls :
            /\ calls'[k].what = calls[k].what /\ calls'[k].first = calls[k].first
            /\ calls'[k].items = IF k = Len(calls) THEN Append(calls[k].items, i) ELSE calls[k].items
  BY ShapeAtom
<1>4. ASSUME NEW k \in DOMAIN calls, calls[k].what # "@"
      PROVE  /\ InTextOrder(calls'[k].items, {j \in Members(e, calls[k].first) : j < idx'} \ Waiting)
             /\ k < Len(calls) =>
                   /\ calls'[k + 1].first \in Members(e, calls[k].first)
                   /\ \A j \in Members(e, calls[k].first) : j < idx' => j <= calls'[k + 1].first
  <2> DEFINE M == Members(e, calls[k].first)
  <2> DEFINE old == {j \in M : j < idx} \ Waiting
  <2>1. M \subseteq Nat
    BY <1>0 DEF Members
  <2>2. InTextOrder(calls[k].items, old)
    BY <1>4 DEF Nested
  <2>3. CASE k = Len(calls)
    <3>1. idx \in M
      BY <1>1, <1>4, <2>3, Belongs, ReadBasics
    <3>2. {j \in M : j < idx'} \ Waiting = old \cup {idx}
      <4> HIDE DEF M
      <4>1. {j \in M : j < idx'} = {j \in M : j < idx} \cup {idx}
        BY <1>0, <1>1, <2>1, <3>1, UpTo
      <4> QED BY <1>2, <4>1
    <3>3. InTextOrder(Append(calls[k].items, idx), old \cup {idx})
      <4>1. calls[k].items \in Seq(Nat) /\ \A y \in old : y < idx
        BY ReadBasics
      <4> HIDE DEF old
      <4> QED BY <1>0, <2>2, <4>1, OrderAppend
    <3>4. calls'[k].items = Append(calls[k].items, idx)
      BY <1>1, <1>3, <2>3
    <3>5. ~(k < Len(calls))
      BY <1>0, <2>3
    <3> QED BY <3>2, <3>3, <3>4, <3>5
  <2>4. CASE k # Len(calls)
    <3>1. idx \notin M
      BY <1>1, <1>4, <2>4, Belongs
    <3>2. k < Len(calls) /\ k + 1 \in DOMAIN calls
      BY <1>0, <2>4
    <3>3. calls[k + 1].first \in M /\ \A j \in M : j < idx => j <= calls[k + 1].first
      BY <1>4, <3>2 DEF Nested
    <3>4. calls'[k].items = calls[k].items /\ calls'[k + 1].first = calls[k + 1].first
      BY <1>3, <2>4, <3>2
    <3> HIDE DEF M
    <3>5. {j \in M : j < idx'} = {j \in M : j < idx}
      BY <1>0, <1>1, <2>1, <3>1, UpTo
    <3>6. \A j \in M : j < idx' => j <= calls[k + 1].first
      BY <1>0, <1>1, <2>1, <3>1, <3>3, UpTo
    <3>7. InTextOrder(calls'[k].items, {j \in M : j < idx'} \ Waiting)
      BY <2>2, <3>4, <3>5
    <3> QED BY <3>3, <3>4, <3>6, <3>7 DEF M
  <2> QED BY <2>3, <2>4
<1>5. \A k \in DOMAIN calls' : calls'[k].what # "@" =>
        /\ InTextOrder(calls'[k].items, {j \in Members(e, calls'[k].first) : j < idx'} \ Waiting')
        /\ k < Len(calls') =>
              /\ calls'[k + 1].first \in Members(e, calls'[k].first)
              /\ \A j \in Members(e, calls'[k].first) : j < idx' => j <= calls'[k + 1].first
  BY <1>2, <1>3, <1>4
<1> QED BY <1>1, <1>5, NestedNext

LEMMA NestedBegun ==
    ASSUME ReadTypeOK, Plain, Shape, NEW i \in DOMAIN tokens, ParseSexpr(i) \/ ParseArray(i) \/ ParseDeref(i),
           NEW e \in Endings, Standing(e), Nested(e)
    PROVE  Nested(e)'
<1> DEFINE n == Len(calls) + 1
<1>0. /\ idx \in Nat /\ Len(calls) \in Nat /\ DOMAIN calls = 1 .. Len(calls) /\ DOMAIN tokens \subseteq Nat
      /\ n \in Nat /\ n \notin DOMAIN calls
  BY ReadBasics
<1>1. ParseExpr(i) /\ idx' = idx + 1 /\ tokens' = tokens /\ i = idx
  BY ExprHere, ShapeBegun
<1>2. Waiting' = Waiting \cup {idx}
  BY <1>1, WaitBegun
<1>3. /\ Len(calls') = n /\ DOMAIN calls' = DOMAIN calls \cup {n}
      /\ \A k \in DOMAIN calls : calls'[k] = calls[k]
      /\ calls'[n].first = idx /\ calls'[n].items = <<>>
  <2>1. Frame(tokens[i], i, <<>>).first = i /\ Frame(tokens[i], i, <<>>).items = <<>>
    BY DEF Frame
  <2> QED BY <1>1, <2>1, ShapeBegun
<1> HIDE DEF n
<1>4. ASSUME NEW k \in DOMAIN calls', calls'[k].what # "@"
      PROVE  /\ InTextOrder(calls'[k].items, {j \in Members(e, calls'[k].first) : j < idx'} \ (Waiting \cup {idx}))
             /\ k < n =>
                   /\ calls'[k + 1].first \in Members(e, calls'[k].first)
                   /\ \A j \in Members(e, calls'[k].first) : j < idx' => j <= calls'[k + 1].first
  <2> DEFINE M == Members(e, calls'[k].first)
  <2>1. M \subseteq Nat
    BY <1>0 DEF Members
  <2>2. CASE k = n
    <3>1. \A j \in M : idx < j
      BY <1>3, <2>2 DEF Members, Encloses
    <3>2. {j \in M : j < idx'} = {}
      <4> HIDE DEF M
      <4>1. \A j \in M : ~(j < idx')
        BY <1>0, <1>1, <2>1, <3>1
      <4> QED BY <4>1
    <3>3. InTextOrder(<<>>, {})
      BY DEF InTextOrder
    <3>4. ~(k < n)
      BY <1>0, <2>2
    <3>5. {j \in M : j < idx'} \ (Waiting \cup {idx}) = {}
      BY <3>2
    <3>6. calls'[k].items = <<>>
      BY <1>3, <2>2
    <3> QED BY <3>3, <3>4, <3>5, <3>6
  <2>3. CASE k \in DOMAIN calls
    <3>0. calls'[k] = calls[k] /\ calls[k].what # "@" /\ M = Members(e, calls[k].first)
      BY <1>3, <1>4, <2>3
    <3>1. InTextOrder(calls[k].items, {j \in M : j < idx} \ Waiting)
      BY <2>3, <3>0 DEF Nested
    <3>2. idx \in M <=> k = Len(calls)
      BY <1>1, <2>3, <3>0, Belongs, ReadBasics
    <3>3. calls'[k + 1].first \in M /\ \A j \in M : j < idx' => j <= calls'[k + 1].first
      <4>1. CASE k = Len(calls)
        <5>1. k + 1 = n /\ idx \in M
          BY <3>2, <4>1 DEF n
        <5>2. calls'[k + 1].first = idx
          BY <1>3, <5>1
        <5> HIDE DEF M
        <5>3. \A j \in M : j < idx' => j <= idx
          BY <1>0, <1>1, <2>1
        <5> QED BY <5>1, <5>2, <5>3
      <4>2. CASE k # Len(calls)
        <5>1. k + 1 \in DOMAIN calls /\ k < Len(calls)
          BY <1>0, <2>3, <4>2
        <5>2. calls[k + 1].first \in M /\ \A j \in M : j < idx => j <= calls[k + 1].first
          BY <2>3, <3>0, <5>1 DEF Nested
        <5>3. calls'[k + 1] = calls[k + 1] /\ idx \notin M
          BY <1>3, <3>2, <4>2, <5>1
        <5> HIDE DEF M
        <5>4. \A j \in M : j < idx' => j < idx
          BY <1>0, <1>1, <2>1, <5>3, UpTo
        <5> QED BY <5>2, <5>3, <5>4
      <4> QED BY <4>1, <4>2
    <3>4. {j \in M : j < idx'} \ (Waiting \cup {idx}) = {j \in M : j < idx} \ Waiting
      <4> HIDE DEF M
      <4>1. \A j \in M : j < idx' <=> j < idx \/ j = idx
        BY <1>0, <1>1, <2>1
      <4>2. \A j \in M : j < idx => j # idx
        BY <1>0, <2>1
      <4> QED BY <4>1, <4>2
    <3>5. InTextOrder(calls'[k].items, {j \in M : j < idx'} \ (Waiting \cup {idx}))
      BY <3>0, <3>1, <3>4
    <3> QED BY <3>3, <3>5
  <2> QED BY <1>3, <2>2, <2>3
<1>5. \A k \in DOMAIN calls' : calls'[k].what # "@" =>
        /\ InTextOrder(calls'[k].items, {j \in Members(e, calls'[k].first) : j < idx'} \ Waiting')
        /\ k < Len(calls') =>
              /\ calls'[k + 1].first \in Members(e, calls'[k].first)
              /\ \A j \in Members(e, calls'[k].first) : j < idx' => j <= calls'[k + 1].first
  BY <1>2, <1>3, <1>4
<1> QED BY <1>1, <1>5, NestedNext

LEMMA NestedReturn ==
    ASSUME ReadTypeOK, Plain, Shape, Current.what # "top", NEW n, Returned(n), tokens' = tokens,
           idx' \in {idx, idx + 1}, NEW e \in Endings, Nested(e), idx' = idx + 1 => ~Node(e, idx)
    PROVE  Nested(e)'
<1> DEFINE f == Current.first
<1>0. /\ idx \in Nat /\ Len(calls) \in Nat /\ DOMAIN calls = 1 .. Len(calls) /\ DOMAIN tokens \subseteq Nat
      /\ f = calls[Len(calls)].first
      /\ \A k \in DOMAIN calls : calls[k].items \in Seq(Nat) /\ calls[k].first \in Nat
  BY ReadBasics
<1>1. Waiting' = Waiting \ {f} /\ f \in Waiting /\ f < idx /\ f \in Nat
  BY WaitReturn, LastWaits
<1>2. /\ Len(calls) > 1 /\ Len(calls') = Len(calls) - 1 /\ DOMAIN calls' = 1 .. Len(calls) - 1
      /\ \A k \in DOMAIN calls' :
            /\ k \in DOMAIN calls
            /\ calls'[k].what = calls[k].what /\ calls'[k].first = calls[k].first
            /\ calls'[k].items = IF k = Len(calls) - 1 THEN Append(calls[k].items, f) ELSE calls[k].items
  BY ReturnLeaves
<1>3. ASSUME NEW k \in DOMAIN calls', calls[k].what # "@"
      PROVE  /\ InTextOrder(calls'[k].items, {j \in Members(e, calls[k].first) : j < idx'} \ (Waiting \ {f}))
             /\ k < Len(calls) - 1 =>
                   /\ calls'[k + 1].first \in Members(e, calls[k].first)
                   /\ \A j \in Members(e, calls[k].first) : j < idx' => j <= calls'[k + 1].first
  <2> DEFINE M == Members(e, calls[k].first)
  <2> DEFINE old == {j \in M : j < idx} \ Waiting
  <2>1. M \subseteq Nat /\ \A j \in M : Node(e, j)
    BY <1>0 DEF Members
  <2>2. k \in DOMAIN calls /\ k \in Nat /\ k < Len(calls) /\ k + 1 \in DOMAIN calls
    BY <1>0, <1>2
  <2>3. /\ InTextOrder(calls[k].items, old)
        /\ calls[k + 1].first \in M /\ \A j \in M : j < idx => j <= calls[k + 1].first
    BY <1>3, <2>2 DEF Nested
  <2> HIDE DEF M
  <2>4. \A j \in M : j < idx' <=> j < idx
    <3>1. CASE idx' = idx
      BY <3>1
    <3>2. CASE idx' = idx + 1
      <4>1. idx \notin M
        BY <2>1, <3>2
      <4> QED BY <1>0, <2>1, <3>2, <4>1
    <3> QED BY <3>1, <3>2
  <2>5. CASE k = Len(calls) - 1
    <3>1. calls[k + 1].first = f
      BY <1>0, <2>5
    <3>2. {j \in M : j < idx'} \ (Waiting \ {f}) = old \cup {f}
      BY <1>1, <2>3, <2>4, <3>1
    <3>3. \A y \in old : y < f
      <4> SUFFICES ASSUME NEW y \in old PROVE y < f
        OBVIOUS
      <4>1. y \in Nat /\ y <= f /\ y # f
        BY <1>1, <2>1, <2>3, <3>1
      <4> QED BY <1>1, <4>1
    <3>4. calls'[k].items = Append(calls[k].items, f) /\ calls[k].items \in Seq(Nat)
      BY <1>0, <1>2, <2>2, <2>5
    <3>5. InTextOrder(Append(calls[k].items, f), old \cup {f})
      <4> HIDE DEF old, f
      <4> QED BY <1>1, <2>3, <3>3, <3>4, OrderAppend
    <3>6. ~(k < Len(calls) - 1)
      BY <2>2, <2>5
    <3>7. InTextOrder(calls'[k].items, {j \in M : j < idx'} \ (Waiting \ {f}))
      BY <3>2, <3>4, <3>5
    <3> QED BY <3>6, <3>7 DEF M
  <2>6. CASE k # Len(calls) - 1
    <3>1. k + 1 \in DOMAIN calls' /\ k < Len(calls) - 1 /\ k + 1 < Len(calls)
      BY <1>0, <1>2, <2>2, <2>6
    <3>2. calls[k + 1].first < f /\ calls[k + 1].first \in Nat
      <4>1. Len(calls) \in DOMAIN calls
        BY <1>0, <1>2
      <4>2. calls[k + 1].first < calls[Len(calls)].first
        BY <2>2, <3>1, <4>1 DEF Shape
      <4> QED BY <1>0, <2>2, <4>2
    <3>3. f \notin M
      <4> SUFFICES ASSUME f \in M PROVE FALSE
        OBVIOUS
      <4>1. f <= calls[k + 1].first
        BY <1>1, <2>3
      <4> HIDE DEF f
      <4> QED BY <1>1, <3>2, <4>1
    <3>4. {j \in M : j < idx'} \ (Waiting \ {f}) = old
      BY <2>4, <3>3
    <3>5. calls'[k].items = calls[k].items /\ calls'[k + 1].first = calls[k + 1].first
      BY <1>2, <2>6, <3>1
    <3>6. InTextOrder(calls'[k].items, {j \in M : j < idx'} \ (Waiting \ {f}))
      BY <2>3, <3>4, <3>5
    <3> QED BY <2>3, <2>4, <3>5, <3>6 DEF M
  <2> QED BY <2>5, <2>6
<1>5. \A k \in DOMAIN calls' : calls'[k].what # "@" =>
        /\ InTextOrder(calls'[k].items, {j \in Members(e, calls'[k].first) : j < idx'} \ Waiting')
        /\ k < Len(calls') =>
              /\ calls'[k + 1].first \in Members(e, calls'[k].first)
              /\ \A j \in Members(e, calls'[k].first) : j < idx' => j <= calls'[k + 1].first
  <2> HIDE DEF f
  <2> QED BY <1>1, <1>2, <1>3
<1> QED BY <1>5, NestedNext

-----------------------------------------------------------------------------
(* What the steps do to the nodes.                                         *)
LEMMA RightFixed ==
    ASSUME tokens' = tokens, NEW i, made'[i] = made[i], NEW e
    PROVE  Right(e, i)' <=> Right(e, i)
BY TextFixed DEF Right, InTextOrder

LEMMA WrittenAtom ==
    ASSUME ReadTypeOK, Plain, Shape, NEW i \in DOMAIN tokens, ParseAtom(i), NEW e, Written(e)
    PROVE  Written(e)'
<1> USE ReadBasics
<1>1. /\ idx' = idx + 1 /\ tokens' = tokens /\ i = idx /\ tokens[i] \notin {"(", "[", "@"}
      /\ made' = [made EXCEPT ![i] = AtomNode(tokens[i])]
  BY ExprHere DEF ParseAtom
<1>2. Waiting' = Waiting /\ \A j : Node(e, j)' <=> Node(e, j)
  BY <1>1, WaitAtom, TextFixed
<1>3. ASSUME NEW j \in DOMAIN tokens, j < idx', Node(e, j), j \notin Waiting PROVE Right(e, j)'
  <2>1. CASE j = i
    <3>1. made'[i] = AtomNode(tokens[i])
      BY <1>1 DEF ReadTypeOK
    <3> QED BY <1>1, <2>1, <3>1 DEF Right
  <2>2. CASE j # i
    <3>1. j < idx /\ made'[j] = made[j]
      BY <1>1, <1>3, <2>2 DEF ReadTypeOK
    <3> QED BY <1>1, <1>3, <3>1, RightFixed DEF Written
  <2> QED BY <2>1, <2>2
<1> QED BY <1>1, <1>2, <1>3 DEF Written

LEMMA WrittenBegun ==
    ASSUME ReadTypeOK, Plain, Shape, NEW i \in DOMAIN tokens, ParseSexpr(i) \/ ParseArray(i) \/ ParseDeref(i),
           NEW e, Written(e)
    PROVE  Written(e)'
<1> USE ReadBasics
<1>1. idx' = idx + 1 /\ tokens' = tokens /\ i = idx /\ made' = made
  BY ExprHere, ShapeBegun
<1>2. Waiting' = Waiting \cup {i} /\ \A j : Node(e, j)' <=> Node(e, j)
  BY <1>1, WaitBegun, TextFixed
<1>3. ASSUME NEW j \in DOMAIN tokens, j < idx', Node(e, j), j \notin Waiting, j # i PROVE Right(e, j)'
  <2>1. j < idx
    BY <1>1, <1>3
  <2> QED BY <1>1, <1>3, <2>1, RightFixed DEF Written
<1> QED BY <1>1, <1>2, <1>3 DEF Written

LEMMA WrittenReturn ==
    ASSUME ReadTypeOK, Plain, Shape, Current.what # "top", NEW n, Returned(n), tokens' = tokens,
           idx' \in {idx, idx + 1}, NEW e, Written(e), idx' = idx + 1 => ~Node(e, idx),
           NEW f, f = Current.first, Right(e, f)'
    PROVE  Written(e)'
<1> USE ReadBasics
<1>1. Waiting' = Waiting \ {f} /\ \A j : Node(e, j)' <=> Node(e, j)
  BY WaitReturn, TextFixed
<1>2. ASSUME NEW j \in DOMAIN tokens, j < idx', Node(e, j), j \notin Waiting, j # f
      PROVE  Right(e, j)'
  <2>1. j < idx
    <3>0. j \in Nat /\ idx \in Nat
      BY ReadBasics
    <3>1. CASE idx' = idx
      BY <1>2, <3>1
    <3>2. CASE idx' = idx + 1
      <4>1. j # idx
        BY <1>2, <3>2
      <4> QED BY <1>2, <3>0, <3>2, <4>1
    <3> QED BY <3>1, <3>2
  <2>2. made'[j] = made[j]
    BY <1>2 DEF Returned, ReadTypeOK
  <2> QED BY <1>2, <2>1, <2>2, RightFixed DEF Written
<1> QED BY <1>1, <1>2 DEF Written

-----------------------------------------------------------------------------
(* A list has got its members when it ends, and is made of them.           *)
LEMMA GotMembers ==
    ASSUME ReadTypeOK, Plain, Shape, Current.what \in {"(", "["}, At(idx) \in Closers,
           NEW e \in Endings, Ends(e), Standing(e), Nested(e)
    PROVE  /\ Current.first \in Lists /\ Current.first \in DOMAIN tokens
           /\ InTextOrder(Current.items, Members(e, Current.first))
           /\ \A i \in Members(e, Current.first) : i < idx /\ i \notin Waiting /\ Current.first < i
<1> DEFINE o == Current.first
<1> DEFINE M == Members(e, o)
<1>1. o \in Lists /\ o \in DOMAIN tokens /\ e[o] = idx
  BY ListEnds, LastWaits DEF Lists
<1>2. \A i \in M : i \in Nat /\ o < i /\ i < idx
  BY <1>1, ReadBasics DEF Members, Encloses
<1>3. \A w \in Waiting : w \in Nat /\ o \in Nat /\ (w = o \/ w < o)
  BY LastWaits, ReadBasics
<1>4. InTextOrder(Current.items, {i \in M : i < idx} \ Waiting)
  <2>1. Len(calls) \in DOMAIN calls /\ Current = calls[Len(calls)] /\ Current.what # "@"
    BY ReadBasics
  <2> QED BY <2>1 DEF Nested
<1> HIDE DEF M, o
<1>5. \A i \in M : i \notin Waiting
  BY <1>2, <1>3
<1>6. {i \in M : i < idx} \ Waiting = M
  BY <1>2, <1>5
<1> QED BY <1>1, <1>2, <1>4, <1>5, <1>6 DEF M, o

(* The first member of a list is right behind its bracket.                 *)
LEMMA FirstMember ==
    ASSUME ReadTypeOK, NEW e \in Endings, Ends(e), NEW o \in Lists, Members(e, o) # {}
    PROVE  o + 1 \in Members(e, o) /\ \A i \in Members(e, o) : o + 1 <= i
<1>0. /\ o \in Nat \ {0} /\ o \in DOMAIN tokens /\ DOMAIN tokens = 1 .. Len(tokens) /\ Len(tokens) \in Nat
      /\ e[o] \in Nat /\ tokens[o] \in {"(", "["} /\ At(o) = tokens[o] /\ \A p \in Lists : p \in Nat
  BY ReadBasics, Places DEF Lists
<1>1. \A i \in Members(e, o) : i \in DOMAIN tokens /\ o < i /\ i < e[o]
  BY DEF Members, Encloses
<1>2. o + 1 \in DOMAIN tokens /\ o + 1 < e[o] /\ \A i \in Members(e, o) : o + 1 <= i
  BY <1>0, <1>1
<1>3. o + 1 \notin Closing
  <2> SUFFICES ASSUME o + 1 \in Closing PROVE FALSE
    OBVIOUS
  <2>1. o + 1 = e[o] <=> ~ \E p \in Lists : o < p /\ p < o + 1 /\ o + 1 <= e[p] /\ Matches(p, o + 1)
    BY <1>0, <1>2 DEF Ends
  <2>2. \A p \in Lists : ~(o < p /\ p < o + 1)
    BY <1>0
  <2> QED BY <1>0, <1>2, <2>1, <2>2
<1>4. Node(e, o + 1)
  BY <1>2, <1>3 DEF Node
<1>5. At((o + 1) - 1) # "@"
  BY <1>0
<1>6. Encloses(e, o, o + 1) /\ \A p \in Lists : o < p => ~Encloses(e, p, o + 1)
  BY <1>0, <1>2 DEF Encloses
<1> QED BY <1>2, <1>4, <1>5, <1>6 DEF Members

LEMMA RightArray ==
    ASSUME ReadTypeOK, Plain, Shape, ReturnArray,
           NEW e \in Endings, Ends(e), Standing(e), Nested(e), NEW o, o = Current.first
    PROVE  Right(e, o)'
<1>1. /\ Current.what = "[" /\ At(idx) \in Closers /\ tokens' = tokens
      /\ made' = [made EXCEPT ![o] = ArrayNode(Current.items)]
  BY DEF ReturnArray, Returned
<1>2. tokens[o] = "[" /\ o \in DOMAIN tokens /\ InTextOrder(Current.items, Members(e, o))
  BY <1>1, GotMembers, LastWaits
<1>3. made'[o] = ArrayNode(Current.items)
  BY <1>1, <1>2 DEF ReadTypeOK
<1>4. made'[o].k = "array" /\ made'[o].items = Current.items
  BY <1>3 DEF ArrayNode
<1>5. Members(e, o)' = Members(e, o)
  BY <1>1, TextFixed
<1>6. InTextOrder(made'[o].items, Members(e, o)')
  BY <1>2, <1>4, <1>5
<1> QED BY <1>1, <1>2, <1>4, <1>6 DEF Right

LEMMA RightSexpr ==
    ASSUME ReadTypeOK, Plain, Shape, ReturnSexpr,
           NEW e \in Endings, Ends(e), Standing(e), Nested(e), Written(e), NEW o, o = Current.first
    PROVE  Right(e, o)'
<1> DEFINE items == Current.items
<1> DEFINE M == Members(e, o)
<1>1. /\ Current.what = "(" /\ At(idx) \in Closers /\ tokens' = tokens
      /\ made' = [made EXCEPT ![o] = MakeSexpr(items)]
  BY DEF ReturnSexpr, Returned
<1>2. /\ tokens[o] = "(" /\ o \in DOMAIN tokens /\ o \in Lists /\ InTextOrder(items, M)
      /\ \A i \in M : i < idx /\ i \notin Waiting
  BY <1>1, GotMembers, LastWaits
<1>3. made'[o] = MakeSexpr(items) /\ items \in Seq(Nat)
  BY <1>1, <1>2, ReadBasics DEF ReadTypeOK
<1>4. Members(e, o)' = M
  BY <1>1, TextFixed
<1>5. CASE items = <<>>
  <2>1. M = {}
    BY <1>2, <1>5 DEF InTextOrder
  <2>2. made'[o].k = "sexpr" /\ made'[o].op = "" /\ made'[o].args = <<>>
    <3> DEFINE none == <<>>
    <3> DEFINE nobody == ""
    <3>1. made'[o] = Sexpr(nobody, none)
      BY <1>3, <1>5 DEF MakeSexpr
    <3> HIDE DEF none, nobody
    <3>2. made'[o].k = "sexpr" /\ made'[o].op = nobody /\ made'[o].args = none
      BY <3>1 DEF Sexpr
    <3> QED BY <3>2 DEF none, nobody
  <2>3. InTextOrder(made'[o].args, M \ {o + 1})
    <3>1. InTextOrder(<<>>, {})
      BY DEF InTextOrder
    <3>2. M \ {o + 1} = {}
      BY <2>1
    <3> QED BY <2>2, <3>1, <3>2
  <2> QED BY <1>1, <1>2, <1>4, <2>1, <2>2, <2>3 DEF Right
<1>6. CASE items # <<>>
  <2>1. M # {}
    <3>1. 1 \in DOMAIN items
      BY <1>3, <1>6
    <3> QED BY <1>2, <3>1 DEF InTextOrder
  <2>2. o + 1 \in M /\ (\A i \in M : o + 1 <= i) /\ o + 1 \in DOMAIN tokens /\ Node(e, o + 1)
    BY <1>2, <2>1, FirstMember DEF Members
  <2>3. Head(items) = o + 1 /\ InTextOrder(Tail(items), M \ {o + 1})
    <3> HIDE DEF items, M
    <3> QED BY <1>2, <1>3, <2>2, OrderTail
  <2> DEFINE h == made[o + 1]
  <2>4. Right(e, o + 1)
    BY <1>2, <2>2 DEF Written
  <2>5. IF tokens[o + 1] \in Symbols THEN h.k = "atom" /\ h.v = tokens[o + 1]
        ELSE h.k = "atom" => h.v \notin Symbols
    <3>1. CASE tokens[o + 1] = "@"
      BY <2>4, <3>1 DEF Right, Deref, Symbols
    <3>2. CASE tokens[o + 1] \in {"(", "["}
      BY <2>4, <3>2 DEF Right, Symbols
    <3>3. CASE tokens[o + 1] \notin {"@", "(", "["}
      <4>1. h = AtomNode(tokens[o + 1])
        BY <2>4, <3>3 DEF Right
      <4> QED BY <4>1 DEF AtomNode
    <3> QED BY <3>1, <3>2, <3>3
  <2>6. made'[o] = Sexpr(IF h.k = "atom" /\ h.v \in Symbols THEN h.v ELSE Unknown, Tail(items))
    BY <1>3, <1>6, <2>3 DEF MakeSexpr
  <2>7. /\ made'[o].k = "sexpr" /\ made'[o].args = Tail(items)
        /\ made'[o].op = IF tokens[o + 1] \in Symbols THEN tokens[o + 1] ELSE Unknown
    BY <2>5, <2>6 DEF Sexpr
  <2>8. InTextOrder(made'[o].args, M \ {o + 1})
    BY <2>3, <2>7
  <2> HIDE DEF M
  <2> QED BY <1>1, <1>2, <1>4, <2>1, <2>7, <2>8 DEF Right
<1> QED BY <1>5, <1>6

LEMMA RightDeref ==
    ASSUME ReadTypeOK, Plain, Shape, ReturnDeref, NEW e, NEW f, f = Current.first
    PROVE  Right(e, f)'
<1>1. /\ Current.what = "@" /\ Current.items # <<>> /\ tokens' = tokens
      /\ made' = [made EXCEPT ![f] = Deref(Current.items[1])]
  BY DEF ReturnDeref, Returned
<1>2. Current.items = <<f + 1>>
  <2>1. Len(calls) \in DOMAIN calls /\ Current = calls[Len(calls)] /\ ~(Len(calls) < Len(calls))
    BY ReadBasics
  <2> QED BY <1>1, <2>1 DEF Shape
<1>3. tokens[f] = "@" /\ f \in DOMAIN tokens
  <2>1. f \in Waiting /\ f < idx /\ f \in Nat /\ tokens[f] = "@"
    BY <1>1, LastWaits
  <2>2. Len(calls) # 1
    BY <1>1, ReadBasics DEF ReadTypeOK
  <2>3. f \in 1 .. idx - 1
    BY <2>2, ReadBasics DEF Shape
  <2> QED BY <2>1, <2>3, ReadBasics
<1>4. made'[f] = Deref(f + 1)
  BY <1>1, <1>2, <1>3 DEF ReadTypeOK
<1> QED BY <1>1, <1>3, <1>4 DEF Right

(* The two returns of lists.                                               *)
LEMMA ListReturns ==
    ASSUME ReadTypeOK, Plain, Shape, ReturnSexpr \/ ReturnArray
    PROVE  \E n : ListReturn(n)
<1>1. /\ Current.what \in {"(", "["} /\ At(idx) \in Closers /\ UNCHANGED <<tokens, tree, reading>>
      /\ idx' = Consume(IF Current.what = "(" THEN ")" ELSE "]") /\ \E n : Returned(n)
  BY DEF ReturnSexpr, ReturnArray
<1>2. tokens[Current.first] = Current.what /\ At(idx) = tokens[idx]
  <2>1. At(idx) # "end"
    BY <1>1 DEF Closers
  <2> QED BY <1>1, <2>1, LastWaits, ReadBasics
<1>3. Matches(Current.first, idx) <=> At(idx) = IF Current.what = "(" THEN ")" ELSE "]"
  BY <1>1, <1>2 DEF Matches, Closers
<1> QED BY <1>1, <1>3 DEF ListReturn, Consume

LEMMA NoBlocks ==
    ASSUME ReadTypeOK, Plain, Shape
    PROVE  /\ Current.what # "block" /\ ~ReturnBlock
           /\ \A i \in DOMAIN tokens : ~ParseNamedBlock(i)
<1>1. Current.what # "block"
  BY ReadBasics DEF Shape, ReadTypeOK
<1>2. \A i \in DOMAIN tokens : ~ParseNamedBlock(i)
  BY ReadBasics DEF Plain, ParseNamedBlock
<1> QED BY <1>1, <1>2 DEF ReturnBlock

LEMMA ReadSteps ==
    ASSUME ReadTypeOK, Plain, Shape, ReadNext
    PROVE  \/ \E i \in DOMAIN tokens : ParseAtom(i) \/ (ParseSexpr(i) \/ ParseArray(i) \/ ParseDeref(i))
           \/ (ReturnSexpr \/ ReturnArray) \/ ReturnDeref \/ Crash \/ ParseEnd
BY NoBlocks DEF ReadNext

LEMMA ShapeStep ==
    ASSUME ReadTypeOK, Plain, Shape, ReadNext, reading' = "reading"
    PROVE  Shape'
<1>1. CASE \E i \in DOMAIN tokens : ParseAtom(i) \/ (ParseSexpr(i) \/ ParseArray(i) \/ ParseDeref(i))
  BY <1>1, ShapeAtom, ShapeBegun
<1>2. CASE ReturnSexpr \/ ReturnArray
  <2>1. PICK n : ListReturn(n)
    BY <1>2, ListReturns
  <2> QED BY <2>1, ShapeReturn DEF ListReturn
<1>3. CASE ReturnDeref
  BY <1>3, ShapeReturn DEF ReturnDeref
<1>4. CASE Crash \/ ParseEnd
  BY <1>4 DEF Crash, ParseEnd
<1> QED BY <1>1, <1>2, <1>3, <1>4, ReadSteps

LEMMA ListsStep ==
    ASSUME ReadTypeOK, Plain, Shape, ReadNext, reading' = "reading",
           NEW e \in Endings, Ends(e), Standing(e), Nested(e), Written(e)
    PROVE  Standing(e)' /\ Nested(e)' /\ Written(e)'
<1>1. CASE \E i \in DOMAIN tokens : ParseAtom(i)
  BY <1>1, StandingAtom, NestedAtom, WrittenAtom
<1>2. CASE \E i \in DOMAIN tokens : ParseSexpr(i) \/ ParseArray(i) \/ ParseDeref(i)
  BY <1>2, StandingBegun, NestedBegun, WrittenBegun
<1>3. CASE ReturnSexpr \/ ReturnArray
  <2> DEFINE o == Current.first
  <2>1. PICK n : ListReturn(n)
    BY <1>3, ListReturns
  <2>2. Standing(e)'
    BY <2>1, StandingList
  <2>3. /\ Current.what \in {"(", "["} /\ At(idx) \in Closers /\ Returned(n) /\ tokens' = tokens
        /\ idx' \in {idx, idx + 1} /\ (idx' = idx \/ Matches(o, idx))
    BY <2>1 DEF ListReturn
  <2>4. idx' = idx + 1 => ~Node(e, idx)
    <3> SUFFICES ASSUME Matches(o, idx) PROVE ~Node(e, idx)
      BY <2>3, ReadBasics
    <3>1. o \in Lists /\ o < idx /\ idx \in Closing /\ e[o] = idx
      BY <2>3, ListEnds, LastWaits
    <3> QED BY <3>1, ReadBasics DEF Node, Stray
  <2>5. \A f : f = o => Right(e, f)'
    BY <1>3, RightArray, RightSexpr
  <2> QED BY <2>2, <2>3, <2>4, <2>5, NestedReturn, WrittenReturn
<1>4. CASE ReturnDeref
  <2>1. PICK n : Current.what = "@" /\ Returned(n) /\ tokens' = tokens /\ idx' = idx
    BY <1>4 DEF ReturnDeref
  <2>2. \A f : f = Current.first => Right(e, f)'
    BY <1>4, RightDeref
  <2>3. idx' \in {idx, idx + 1} /\ idx' # idx + 1
    BY <2>1, ReadBasics
  <2> QED BY <1>4, <2>1, <2>2, <2>3, StandingDeref, NestedReturn, WrittenReturn
<1>5. CASE Crash \/ ParseEnd
  BY <1>5 DEF Crash, ParseEnd
<1> QED BY <1>1, <1>2, <1>3, <1>4, <1>5, ReadSteps

-----------------------------------------------------------------------------
(* What the steps do to an h that says where the lists have ended so far.  *)
LEMMA ListsBefore ==
    ASSUME ReadTypeOK
    PROVE  /\ idx \in Nat \ {0} /\ Len(tokens) \in Nat /\ DOMAIN tokens = 1 .. Len(tokens)
           /\ \A o \in Lists : o \in Nat /\ o \notin Closing
           /\ \A c \in Closing : c \in Nat
           /\ \A h \in Endings, o \in Lists : h[o] \in Nat
BY ReadBasics, Places

LEMMA PartlyAtom ==
    ASSUME ReadTypeOK, Plain, Shape, NEW i \in DOMAIN tokens, ParseAtom(i), NEW h \in Endings, Partly(h)
    PROVE  Partly(h)'
<1>0. /\ idx \in Nat \ {0} /\ \A o \in Lists : o \in Nat /\ h[o] \in Nat /\ o \notin Closing
      /\ \A c \in Closing : c \in Nat
  BY ListsBefore
<1>1. ParseExpr(i) /\ idx' = idx + 1 /\ tokens' = tokens /\ i = idx /\ idx \notin Lists
  BY ExprHere, ReadBasics DEF ParseAtom, Lists
<1>2. Waiting' = Waiting /\ Lists' = Lists /\ Closing' = Closing /\ \A p, c : Matches(p, c)' <=> Matches(p, c)
  BY <1>1, WaitAtom, TextFixed
<1>3. ASSUME idx \in Closing PROVE Lists \cap Waiting = {}
  <2>1. Current.what = "top"
    BY <1>1, <1>3, ExprHere, ReadBasics DEF Closing
  <2>2. Waiting = {0}
    BY <1>1, <2>1, ExprHere, LastWaits
  <2> QED BY <2>2, Places
<1>4. ASSUME NEW o \in Lists, o < idx'
      PROVE  /\ o < h[o] /\ h[o] \in Closing \cup {Len(tokens) + 1}
             /\ o \in Waiting => h[o] = Len(tokens) + 1
             /\ o \notin Waiting => h[o] < idx'
             /\ \A c \in Closing : o < c /\ c <= h[o] /\ c < idx' =>
                   (c = h[o] <=> ~ \E p \in Lists : o < p /\ p < c /\ c <= h[p] /\ Matches(p, c))
  <2>1. o < idx
    BY <1>0, <1>1, <1>4
  <2>2. /\ o < h[o] /\ h[o] \in Closing \cup {Len(tokens) + 1}
        /\ o \in Waiting => h[o] = Len(tokens) + 1
        /\ o \notin Waiting => h[o] <= idx
    BY <1>0, <2>1 DEF Partly
  <2>3. ASSUME NEW c \in Closing, o < c, c <= h[o], c < idx'
        PROVE  c = h[o] <=> ~ \E p \in Lists : o < p /\ p < c /\ c <= h[p] /\ Matches(p, c)
    <3>1. CASE c < idx
      BY <2>1, <2>3, <3>1 DEF Partly
    <3>2. CASE c = idx
      <4>1. o \notin Waiting /\ c = h[o]
        BY <1>0, <1>3, <2>2, <2>3, <3>2
      <4>2. ASSUME NEW p \in Lists, o < p, p < c, c <= h[p] PROVE ~Matches(p, c)
        <5>1. p \notin Waiting /\ p < idx
          BY <1>3, <3>2, <4>2
        <5>2. h[p] < idx \/ ~Matches(p, idx)
          BY <5>1 DEF Partly
        <5> QED BY <1>0, <3>2, <4>2, <5>2
      <4> QED BY <4>1, <4>2
    <3> QED BY <1>0, <1>1, <2>3, <3>1, <3>2
  <2> QED BY <1>0, <1>1, <2>2, <2>3
<1> QED BY <1>1, <1>2, <1>4 DEF Partly

LEMMA PartlyBegun ==
    ASSUME ReadTypeOK, Plain, Shape, NEW i \in DOMAIN tokens, ParseSexpr(i) \/ ParseArray(i) \/ ParseDeref(i),
           NEW h \in Endings, Partly(h), NEW g, g = [h EXCEPT ![i] = Len(tokens) + 1]
    PROVE  g \in Endings /\ Partly(g)'
<1>0. /\ idx \in Nat \ {0} /\ \A o \in Lists : o \in Nat /\ h[o] \in Nat
      /\ \A c \in Closing : c \in Nat
  BY ListsBefore
<1>1. idx' = idx + 1 /\ tokens' = tokens /\ i = idx /\ idx \notin Closing /\ idx <= Len(tokens) /\ Len(tokens) \in Nat
  <2>1. i = idx /\ idx' = idx + 1 /\ tokens' = tokens
    BY ExprHere, ShapeBegun
  <2>2. tokens[i] \notin Closers
    BY ReadBasics DEF ParseSexpr, ParseArray, ParseDeref, Closers
  <2> QED BY <2>1, <2>2, ReadBasics DEF Closing
<1>2. /\ Waiting' = Waiting \cup {idx} /\ Lists' = Lists /\ Closing' = Closing
      /\ \A p, c : Matches(p, c)' <=> Matches(p, c)
  BY <1>1, WaitBegun, TextFixed
<1>3. g \in Endings /\ (\A o \in Lists : o # idx => g[o] = h[o]) /\ (idx \in Lists => g[idx] = Len(tokens) + 1)
  BY <1>1 DEF Endings
<1>4. ASSUME NEW o \in Lists, o < idx'
      PROVE  /\ o < g[o] /\ g[o] \in Closing \cup {Len(tokens) + 1}
             /\ o \in Waiting \cup {idx} => g[o] = Len(tokens) + 1
             /\ o \notin Waiting \cup {idx} => g[o] < idx'
             /\ \A c \in Closing : o < c /\ c <= g[o] /\ c < idx' =>
                   (c = g[o] <=> ~ \E p \in Lists : o < p /\ p < c /\ c <= g[p] /\ Matches(p, c))
  <2>1. CASE o = idx
    <3>1. g[o] = Len(tokens) + 1
      BY <1>3, <2>1
    <3>2. \A c \in Closing : ~(o < c /\ c < idx')
      BY <1>0, <1>1, <2>1
    <3> QED BY <1>1, <2>1, <3>1, <3>2
  <2>2. CASE o # idx
    <3>1. o < idx /\ g[o] = h[o]
      BY <1>0, <1>1, <1>3, <1>4, <2>2
    <3>2. /\ o < h[o] /\ h[o] \in Closing \cup {Len(tokens) + 1}
          /\ o \in Waiting => h[o] = Len(tokens) + 1
          /\ o \notin Waiting => h[o] <= idx
      BY <1>0, <3>1 DEF Partly
    <3>3. ASSUME NEW c \in Closing, o < c, c <= g[o], c < idx'
          PROVE  c = g[o] <=> ~ \E p \in Lists : o < p /\ p < c /\ c <= g[p] /\ Matches(p, c)
      <4>1. c < idx
        BY <1>0, <1>1, <3>3
      <4>2. \A p \in Lists : p < c => g[p] = h[p]
        BY <1>0, <1>3, <4>1
      <4>3. c = h[o] <=> ~ \E p \in Lists : o < p /\ p < c /\ c <= h[p] /\ Matches(p, c)
        BY <3>1, <3>3, <4>1 DEF Partly
      <4> QED BY <3>1, <4>2, <4>3
    <3> QED BY <1>0, <1>1, <2>2, <3>1, <3>2, <3>3
  <2> QED BY <2>1, <2>2
<1> QED BY <1>1, <1>2, <1>3, <1>4 DEF Partly

LEMMA PartlyList ==
    ASSUME ReadTypeOK, Plain, Shape, NEW n, ListReturn(n), NEW h \in Endings, Partly(h),
           NEW g, g = [h EXCEPT ![Current.first] = idx]
    PROVE  g \in Endings /\ Partly(g)'
<1> DEFINE o == Current.first
<1>0. /\ idx \in Nat \ {0} /\ \A q \in Lists : q \in Nat /\ h[q] \in Nat /\ q \notin Closing
      /\ \A c \in Closing : c \in Nat
  BY ListsBefore
<1>1. /\ o \in Lists /\ o \in Waiting /\ o < idx /\ idx \in Closing /\ tokens' = tokens
      /\ idx' = IF Matches(o, idx) THEN idx + 1 ELSE idx
      /\ \A w \in Waiting : w \in Nat /\ (w = o \/ w < o)
  <2>1. idx \in Closing
    BY ReadBasics DEF ListReturn, Closing, Closers
  <2> QED BY <2>1, LastWaits DEF ListReturn
<1>2. /\ Waiting' = Waiting \ {o} /\ Lists' = Lists /\ Closing' = Closing
      /\ \A p, c : Matches(p, c)' <=> Matches(p, c)
  BY <1>1, WaitReturn, TextFixed DEF ListReturn
<1>3. g \in Endings /\ (\A q \in Lists : q # o => g[q] = h[q]) /\ g[o] = idx
  BY <1>1 DEF Endings
<1>4. h[o] = Len(tokens) + 1 /\ Len(tokens) \in Nat /\ idx <= Len(tokens)
  BY <1>0, <1>1, Places, ListsBefore DEF Partly
<1> HIDE DEF o
<1>5. \A p \in Lists : o < p /\ p < idx => p \notin Waiting /\ (h[p] < idx \/ ~Matches(p, idx))
  <2> SUFFICES ASSUME NEW p \in Lists, o < p, p < idx PROVE p \notin Waiting /\ (h[p] < idx \/ ~Matches(p, idx))
    OBVIOUS
  <2>1. p \notin Waiting
    BY <1>0, <1>1
  <2> QED BY <2>1 DEF Partly
<1>6. ASSUME NEW q \in Lists, q < idx'
      PROVE  /\ q < g[q] /\ g[q] \in Closing \cup {Len(tokens) + 1}
             /\ q \in Waiting \ {o} => g[q] = Len(tokens) + 1
             /\ q \notin Waiting \ {o} =>
                   \/ g[q] < idx'
                   \/ g[q] = idx' /\ idx' \in Closing /\ ~Matches(q, idx) /\ idx' = idx /\ \A w \in Waiting \ {o} : w < q
             /\ \A c \in Closing : q < c /\ c <= g[q] /\ c < idx' =>
                   (c = g[q] <=> ~ \E p \in Lists : q < p /\ p < c /\ c <= g[p] /\ Matches(p, c))
  <2>1. q < idx /\ q \in Nat
    BY <1>0, <1>1, <1>6
  <2>2. CASE q = o
    <3>1. \A w \in Waiting \ {o} : w < q
      BY <1>1, <2>2
    <3>2. \/ g[q] < idx'
          \/ g[q] = idx' /\ idx' \in Closing /\ ~Matches(q, idx) /\ idx' = idx
      <4>1. CASE Matches(o, idx)
        BY <1>0, <1>1, <1>3, <2>2, <4>1
      <4>2. CASE ~Matches(o, idx)
        <5>1. idx' = idx
          BY <1>1, <4>2
        <5> QED BY <1>1, <1>3, <2>2, <4>2, <5>1
      <4> QED BY <4>1, <4>2
    <3>3. ASSUME NEW c \in Closing, q < c, c <= g[q], c < idx'
          PROVE  c = g[q] <=> ~ \E p \in Lists : q < p /\ p < c /\ c <= g[p] /\ Matches(p, c)
      <4>1. CASE c < idx
        <5>1. c <= h[o] /\ c # h[o]
          BY <1>0, <1>4, <4>1
        <5>2. PICK p \in Lists : o < p /\ p < c /\ c <= h[p] /\ Matches(p, c)
          BY <1>1, <2>2, <3>3, <4>1, <5>1 DEF Partly
        <5>3. g[p] = h[p]
          BY <1>0, <1>3, <5>2
        <5>4. c # g[q]
          BY <1>0, <1>3, <2>2, <4>1
        <5> QED BY <2>2, <5>2, <5>3, <5>4
      <4>2. CASE c = idx
        <5>1. ASSUME NEW p \in Lists, o < p, p < c, c <= g[p], Matches(p, c) PROVE FALSE
          <6>1. g[p] = h[p]
            BY <1>0, <1>3, <5>1
          <6> QED BY <1>0, <1>5, <4>2, <5>1, <6>1
        <5> QED BY <1>3, <2>2, <4>2, <5>1
      <4> QED BY <1>0, <1>3, <2>2, <3>3, <4>1, <4>2
    <3> QED BY <1>1, <1>3, <2>2, <3>1, <3>2, <3>3
  <2>3. CASE q # o
    <3>1. g[q] = h[q]
      BY <1>3, <2>3
    <3>2. /\ q < h[q] /\ h[q] \in Closing \cup {Len(tokens) + 1}
          /\ q \in Waiting => h[q] = Len(tokens) + 1
          /\ q \notin Waiting =>
                \/ h[q] < idx
                \/ h[q] = idx /\ idx \in Closing /\ ~Matches(q, idx) /\ \A w \in Waiting : w < q
      BY <2>1 DEF Partly
    <3>3. q \notin Waiting =>
             \/ g[q] < idx'
             \/ g[q] = idx' /\ idx' \in Closing /\ ~Matches(q, idx) /\ idx' = idx /\ \A w \in Waiting \ {o} : w < q
      <4>1. CASE idx' = idx
        BY <3>1, <3>2, <4>1
      <4>2. CASE idx' = idx + 1
        BY <1>0, <3>1, <3>2, <4>2
      <4> QED BY <1>1, <4>1, <4>2
    <3>4. ASSUME NEW c \in Closing, q < c, c <= g[q], c < idx'
          PROVE  c = g[q] <=> ~ \E p \in Lists : q < p /\ p < c /\ c <= g[p] /\ Matches(p, c)
      <4>1. CASE c < idx
        <5>1. \A p \in Lists : c <= g[p] <=> c <= h[p]
          <6> TAKE p \in Lists
          <6>1. CASE p = o
            BY <1>0, <1>3, <1>4, <4>1, <6>1
          <6>2. CASE p # o
            BY <1>3, <6>2
          <6> QED BY <6>1, <6>2
        <5>2. c = h[q] <=> ~ \E p \in Lists : q < p /\ p < c /\ c <= h[p] /\ Matches(p, c)
          BY <2>1, <3>1, <3>4, <4>1 DEF Partly
        <5> QED BY <3>1, <5>1, <5>2
      <4>2. CASE c = idx
        <5>0. Matches(o, idx)
          BY <1>0, <1>1, <3>4, <4>2
        <5>1. CASE q \in Waiting
          <6>1. q < o /\ c # g[q]
            BY <1>0, <1>1, <1>4, <2>3, <3>1, <3>2, <4>2, <5>1
          <6>2. o < c /\ c <= g[o] /\ Matches(o, c)
            BY <1>0, <1>1, <1>3, <4>2, <5>0
          <6> QED BY <1>1, <6>1, <6>2
        <5>2. CASE q \notin Waiting
          <6>1. c = g[q] /\ o < q
            BY <1>0, <1>1, <3>1, <3>2, <3>4, <4>2, <5>2
          <6>2. ASSUME NEW p \in Lists, q < p, p < c, c <= g[p], Matches(p, c) PROVE FALSE
            <7>1. o < p /\ g[p] = h[p]
              BY <1>0, <1>1, <1>3, <6>1, <6>2
            <7> QED BY <1>0, <1>5, <4>2, <6>2, <7>1
          <6> QED BY <6>1, <6>2
        <5> QED BY <5>1, <5>2
      <4> QED BY <1>0, <1>1, <3>4, <4>1, <4>2
    <3> QED BY <2>3, <3>1, <3>2, <3>3, <3>4
  <2> QED BY <2>2, <2>3
<1>7. \A q : idx' = idx => (Matches(q, idx)' <=> Matches(q, idx))
  BY <1>1 DEF Matches
<1>8. ASSUME NEW q \in Lists, q < idx', q \notin Waiting'
      PROVE  \/ g[q] < idx'
             \/ g[q] = idx' /\ idx' \in Closing /\ ~Matches(q, idx)' /\ \A w \in Waiting' : w < q
  BY <1>2, <1>6, <1>7, <1>8
<1> QED BY <1>1, <1>2, <1>3, <1>6, <1>8 DEF Partly

LEMMA PartlyDeref ==
    ASSUME ReadTypeOK, Plain, Shape, ReturnDeref, NEW h \in Endings, Partly(h)
    PROVE  Partly(h)'
<1>1. tokens' = tokens /\ idx' = idx /\ Current.first \notin Lists
  BY LastWaits DEF ReturnDeref
<1>2. /\ Waiting' = Waiting \ {Current.first} /\ Lists' = Lists /\ Closing' = Closing
      /\ \A p, c : Matches(p, c)' <=> Matches(p, c)
  BY <1>1, WaitReturn, TextFixed DEF ReturnDeref
<1>3. \A q : Matches(q, idx)' <=> Matches(q, idx)
  BY <1>1 DEF Matches
<1>4. \A o \in Lists : o \in Waiting' <=> o \in Waiting
  BY <1>1, <1>2
<1> QED BY <1>1, <1>2, <1>3, <1>4 DEF Partly

-----------------------------------------------------------------------------
(* The end of a text.                                                      *)
LEMMA PairsEnd ==
    ASSUME tokens \in Seq(Tokens), NEW e, Pairs(e)
    PROVE  Ends(e)
<1>1. \A o \in Lists \cup Closing : o \in Nat
  BY DEF Lists, Closing
<1>2. \A o \in Lists : o < e[o] /\ e[o] \in Closing /\ e[o] \in Nat
  BY <1>1 DEF Pairs
<1>3. ASSUME NEW o \in Lists, NEW c \in Closing, o < c, c <= e[o]
      PROVE  c = e[o] <=> ~ \E p \in Lists : o < p /\ p < c /\ c <= e[p] /\ Matches(p, c)
  <2>1. ASSUME c = e[o], NEW p \in Lists, o < p, p < c, c <= e[p] PROVE FALSE
    <3>1. e[p] < e[o]
      BY <2>1 DEF Pairs
    <3> QED BY <1>1, <1>2, <2>1, <3>1
  <2>2. ASSUME c # e[o] PROVE \E p \in Lists : o < p /\ p < c /\ c <= e[p] /\ Matches(p, c)
    <3>1. PICK p \in Lists : e[p] = c
      BY DEF Pairs
    <3>2. p < c /\ p # o /\ c <= e[p] /\ Matches(p, c)
      BY <1>1, <1>2, <2>2, <3>1 DEF Pairs
    <3>3. ~(p < o)
      <4> SUFFICES ASSUME p < o PROVE FALSE
        OBVIOUS
      <4>1. o < e[p]
        BY <1>3, <3>1
      <4>2. e[o] < e[p]
        BY <4>1 DEF Pairs
      <4> QED BY <1>1, <1>2, <1>3, <3>1, <4>2
    <3>4. o < p
      BY <1>1, <3>2, <3>3
    <3> QED BY <3>2, <3>4
  <2> QED BY <2>1, <2>2
<1> QED BY <1>2, <1>3 DEF Ends

LEMMA AllRead ==
    ASSUME ReadTypeOK, Plain, Shape, ParseEnd,
           \A e \in Endings : Ends(e) => Standing(e) /\ Nested(e) /\ Written(e), NEW h \in Endings, Partly(h)
    PROVE  Understood'
<1> DEFINE N == Len(tokens)
<1>0. /\ idx \in Nat /\ N \in Nat /\ DOMAIN tokens = 1 .. N /\ idx <= N + 1 /\ Len(calls) \in DOMAIN calls
      /\ DOMAIN calls = 1 .. Len(calls) /\ \A i \in DOMAIN tokens : At(i) # "end"
  BY ReadBasics
<1>1. /\ Current.what = "top" /\ tree' = Current.items /\ reading' = "parsed"
      /\ tokens' = tokens /\ made' = made /\ At(idx) = "end"
  BY DEF ParseEnd
<1>2. idx = N + 1
  <2>1. idx \notin DOMAIN tokens /\ idx # 0
    BY <1>0, <1>1, ReadBasics
  <2> QED BY <1>0, <2>1
<1>3. Len(calls) = 1 /\ Waiting = {0} /\ Current = calls[1] /\ Current.first = 0
  <2>1. Len(calls) = 1 /\ Current = calls[1]
    BY <1>0, <1>1 DEF ReadTypeOK, Current
  <2> QED BY <2>1, LastWaits DEF Shape
<1>4. \A o \in Lists : o \in Nat /\ o # 0 /\ o < idx /\ o \notin Waiting
  BY <1>0, <1>2, <1>3, Places
<1>5. \A c \in Closing : c \in Nat /\ c < idx
  BY <1>0, <1>2, Places
<1>6. Ends(h)
  BY <1>4, <1>5 DEF Ends, Partly
<1>7. ASSUME NEW e \in Endings, Ends(e) PROVE ReadAs(e)'
  <2>1. Standing(e) /\ Nested(e) /\ Written(e)
    BY <1>7
  <2>2. \A o \in Lists : e[o] # N + 1
    <3> SUFFICES ASSUME NEW o \in Lists, e[o] = N + 1 PROVE FALSE
      OBVIOUS
    <3>1. e[o] < idx \/ idx \in Closing
      BY <1>4, <2>1 DEF Standing
    <3> QED BY <1>0, <1>2, <1>5, <3>1
  <2>3. InTextOrder(tree', Members(e, 0))
    <3>1. InTextOrder(calls[1].items, {i \in Members(e, 0) : i < idx} \ Waiting)
      BY <1>0, <1>1, <1>3, <2>1 DEF Nested
    <3>2. \A i \in Members(e, 0) : i \in DOMAIN tokens /\ i \in Nat /\ i # 0 /\ i < idx
      BY <1>0, <1>2 DEF Members
    <3>3. {i \in Members(e, 0) : i < idx} \ Waiting = Members(e, 0)
      BY <1>3, <3>2
    <3> QED BY <1>1, <1>3, <3>1, <3>3
  <2>4. ASSUME NEW i \in DOMAIN tokens, Node(e, i) PROVE Right(e, i)'
    <3>1. i < idx /\ i \notin Waiting
      BY <1>0, <1>2, <1>3
    <3>2. Right(e, i)
      BY <2>1, <2>4, <3>1 DEF Written
    <3> QED BY <1>1, <3>2, RightFixed
  <2>5. /\ Lists' = Lists /\ Members(e, 0)' = Members(e, 0) /\ \A i : Node(e, i)' <=> Node(e, i)
    BY <1>1, TextFixed
  <2>6. InTextOrder(tree, Members(e, 0))'
    BY <2>3, <2>5 DEF InTextOrder
  <2> QED BY <1>1, <2>2, <2>4, <2>5, <2>6 DEF ReadAs
<1>8. Endings' = Endings /\ \A e : Ends(e)' <=> Ends(e)
  BY <1>1, TextFixed
<1> QED BY <1>6, <1>7, <1>8 DEF Understood

\* the parser crashes inside a list
LEMMA CrashInside ==
    ASSUME ReadTypeOK, Plain, Shape, Crash
    PROVE  \/ Current.what \in {"(", "["} /\ idx = Len(tokens) + 1
           \/ idx \in Lists /\ idx = Len(tokens)
<1> DEFINE N == Len(tokens)
<1>0. /\ idx \in Nat \ {0} /\ N \in Nat /\ DOMAIN tokens = 1 .. N /\ idx <= N + 1
      /\ \A i \in DOMAIN tokens : At(i) = tokens[i] /\ At(i) # "end"
      /\ \A i : At(i) # "end" => i \in DOMAIN tokens
  BY ReadBasics
<1>1. Current.what \in {"top", "(", "[", "@"}
  BY NoBlocks, ReadBasics DEF Shape, ReadTypeOK
<1>2. At(idx) = "end" => idx = N + 1
  <2>1. At(idx) = "end" => idx \notin DOMAIN tokens
    BY <1>0
  <2> QED BY <1>0, <2>1
<1>3. CASE Current.what \in {"(", "["} /\ At(idx) = "end"
  BY <1>2, <1>3
<1>4. CASE Wants /\ ExprAt = idx /\ At(idx) = "end"
  <2>1. Current.what = "@" /\ Current.items = <<>>
    BY <1>1, <1>4 DEF Wants
  <2>2. idx = Current.first + 1 /\ tokens[Current.first] = "@" /\ Current.first \in Nat
    <3>1. Len(calls) \in DOMAIN calls /\ Current = calls[Len(calls)] /\ ~(Len(calls) < Len(calls))
      BY ReadBasics
    <3>2. Current.items # <<Current.first + 1>>
      BY <2>1
    <3>3. idx = Current.first + 1
      BY <2>1, <3>1, <3>2 DEF Shape
    <3> QED BY <2>1, <3>3, LastWaits, ReadBasics
  <2>3. Current.first \in DOMAIN tokens
    <3>1. Current.first # 0
      <4>1. Len(calls) # 1
        BY <2>1, ReadBasics DEF ReadTypeOK
      <4> QED BY <4>1, ReadBasics DEF Shape
    <3> QED BY <1>0, <2>2, <3>1
  <2> QED BY <1>4, <2>2, <2>3 DEF Plain
<1>5. CASE Wants /\ ExprAt = idx /\ At(idx) = "[" /\ At(idx + 1) = "end"
  <2>1. idx \in DOMAIN tokens /\ tokens[idx] = "["
    BY <1>0, <1>5
  <2>2. idx + 1 \notin DOMAIN tokens
    BY <1>0, <1>5
  <2>3. idx \in Lists
    BY <2>1 DEF Lists
  <2>4. idx \in 1 .. N /\ idx + 1 \notin 1 .. N
    BY <1>0, <2>1, <2>2
  <2>5. idx = N
    <3> HIDE DEF N
    <3> QED BY <1>0, <2>4
  <2> QED BY <2>3, <2>5
<1>6. ExprAt = idx
  BY <1>1 DEF ExprAt
<1> QED BY <1>1, <1>3, <1>4, <1>5, <1>6 DEF Crash

LEMMA CutShort ==
    ASSUME ReadTypeOK, Plain, Shape, Crash, \A e \in Endings : Ends(e) => Standing(e),
           NEW h \in Endings, Partly(h)
    PROVE  Understood'
<1> DEFINE N == Len(tokens)
<1>0. /\ idx \in Nat \ {0} /\ N \in Nat /\ DOMAIN tokens = 1 .. N
      /\ \A o \in Lists : o \in Nat /\ o \in 1 .. N /\ \A e \in Endings : e[o] \in Nat /\ e[o] <= N + 1
      /\ \A c \in Closing : c \in Nat /\ c \in 1 .. N /\ c \notin Lists
  BY ListsBefore, Places
<1>1. tokens' = tokens /\ reading' = "crashed"
  BY DEF Crash
<1>2. Endings' = Endings /\ Lists' = Lists /\ \A e : Ends(e)' <=> Ends(e)
  BY <1>1, TextFixed
<1>3. ASSUME NEW e \in Endings, Ends(e) PROVE \E o \in Lists : e[o] = N + 1
  <2>1. CASE Current.what \in {"(", "["} /\ idx = N + 1
    <3>1. Current.first \in Lists \cap Waiting
      BY <2>1, LastWaits
    <3>2. idx <= e[Current.first]
      BY <1>3, <3>1 DEF Standing
    <3> QED BY <1>0, <2>1, <3>1, <3>2
  <2>2. CASE idx \in Lists /\ idx = N
    <3>1. idx < e[idx]
      BY <1>3, <2>2 DEF Ends
    <3> QED BY <1>0, <2>2, <3>1
  <2> QED BY <2>1, <2>2, CrashInside
<1>4. \E g \in Endings : Ends(g)
  <2>1. CASE Current.what \in {"(", "["} /\ idx = N + 1
    <3>1. \A o \in Lists \cup Closing : o < idx
      BY <1>0, <2>1
    <3>2. Ends(h)
      BY <3>1 DEF Ends, Partly
    <3> QED BY <3>2
  <2>2. CASE idx \in Lists /\ idx = N
    <3> DEFINE g == [h EXCEPT ![idx] = N + 1]
    <3>1. g \in Endings /\ (\A o \in Lists : o # idx => g[o] = h[o]) /\ g[idx] = N + 1
      BY <2>2 DEF Endings
    <3> HIDE DEF g
    <3>2. \A c \in Closing : c < idx
      BY <1>0, <2>2
    <3>3. ASSUME NEW o \in Lists
          PROVE  /\ o < g[o]
                 /\ \A c \in Closing : o < c /\ c <= g[o] =>
                       (c = g[o] <=> ~ \E p \in Lists : o < p /\ p < c /\ c <= g[p] /\ Matches(p, c))
      <4>1. CASE o = idx
        <5>1. g[o] = N + 1 /\ o = N
          BY <2>2, <3>1, <4>1
        <5>2. \A c \in Closing : ~(o < c)
          BY <1>0, <3>2, <4>1
        <5>3. o < g[o]
          <6> HIDE DEF N
          <6> QED BY <1>0, <5>1
        <5> QED BY <5>2, <5>3
      <4>2. CASE o # idx
        <5>1. o < idx /\ g[o] = h[o] /\ o < h[o]
          <6>0. o \in 1 .. N /\ idx = N
            BY <1>0, <2>2
          <6>1. o < idx
            <7> HIDE DEF N
            <7> QED BY <1>0, <4>2, <6>0
          <6> QED BY <3>1, <4>2, <6>1 DEF Partly
        <5>2. ASSUME NEW c \in Closing, o < c, c <= g[o]
              PROVE  c = g[o] <=> ~ \E p \in Lists : o < p /\ p < c /\ c <= g[p] /\ Matches(p, c)
          <6>1. \A p \in Lists : p < c => g[p] = h[p]
            BY <1>0, <3>1, <3>2
          <6>2. c = h[o] <=> ~ \E p \in Lists : o < p /\ p < c /\ c <= h[p] /\ Matches(p, c)
            BY <3>2, <5>1, <5>2 DEF Partly
          <6> QED BY <5>1, <6>1, <6>2
        <5> QED BY <5>1, <5>2
      <4> QED BY <4>1, <4>2
    <3> QED BY <3>1, <3>3 DEF Ends
  <2> QED BY <2>1, <2>2, CrashInside
<1>5. \A e \in Endings : Ends(e) => ReadAs(e)'
  BY <1>1, <1>2, <1>3 DEF ReadAs
<1> QED BY <1>2, <1>4, <1>5 DEF Understood

LEMMA ReadStarts == ReadInit => ReadInv
<1> SUFFICES ASSUME ReadInit PROVE ReadInv
  OBVIOUS
<1>1. /\ tokens \in Texts /\ tokens \in Seq(Tokens) /\ idx = 1 /\ calls = <<Frame("top", 0, <<>>)>>
      /\ made = [i \in DOMAIN tokens |-> NoNode] /\ reading = "reading"
  BY ReaderAssumption DEF ReadInit
<1>2. LET f == Frame("top", 0, <<>>) IN f \in Frames /\ f.what = "top" /\ f.first = 0 /\ f.items = <<>>
  BY DEF Frame, Frames
<1>3. /\ calls \in Seq(Frames) /\ Len(calls) = 1 /\ DOMAIN calls = {1} /\ calls # <<>>
      /\ calls[1].what = "top" /\ calls[1].first = 0 /\ calls[1].items = <<>>
  BY <1>1, <1>2
<1>4. ReadTypeOK
  BY <1>1, <1>3 DEF ReadTypeOK
<1>5. Shape
  <2>1. At(idx - 1) = "end"
    BY <1>1 DEF At
  <2> QED BY <1>3, <2>1 DEF Shape
<1>6. Waiting = {0}
  BY <1>3 DEF Waiting
<1>7. \A o \in Lists : ~(o < idx) /\ o # 0
  BY <1>1 DEF Lists
<1>8. ASSUME NEW e \in Endings PROVE Standing(e) /\ Nested(e) /\ Written(e)
  <2>1. Standing(e)
    BY <1>6, <1>7 DEF Standing
  <2>2. \A i \in DOMAIN tokens : ~(i < idx)
    BY <1>1
  <2>3. Written(e)
    BY <2>2 DEF Written
  <2>4. {i \in Members(e, 0) : i < idx} \ Waiting = {}
    BY <2>2 DEF Members
  <2>5. InTextOrder(<<>>, {})
    BY DEF InTextOrder
  <2>6. Nested(e)
    <3>1. InTextOrder(calls[1].items, {i \in Members(e, calls[1].first) : i < idx} \ Waiting)
      BY <1>3, <2>4, <2>5
    <3>2. ~(1 < Len(calls))
      BY <1>3
    <3> QED BY <1>3, <3>1, <3>2 DEF Nested
  <2> QED BY <2>1, <2>3, <2>6
<1>9. \E h \in Endings : Partly(h)
  <2>1. [o \in Lists |-> Len(tokens) + 1] \in Endings
    BY DEF Endings
  <2>2. \A h : Partly(h)
    BY <1>7 DEF Partly
  <2> QED BY <2>1, <2>2
<1> QED BY <1>1, <1>4, <1>5, <1>8, <1>9 DEF ReadInv

LEMMA PartlyStep ==
    ASSUME ReadTypeOK, Plain, Shape, ReadNext, reading' = "reading", NEW h \in Endings, Partly(h)
    PROVE  \E g \in Endings : Partly(g)'
<1>1. CASE \E i \in DOMAIN tokens : ParseAtom(i)
  BY <1>1, PartlyAtom
<1>2. CASE \E i \in DOMAIN tokens : ParseSexpr(i) \/ ParseArray(i) \/ ParseDeref(i)
  BY <1>2, PartlyBegun
<1>3. CASE ReturnSexpr \/ ReturnArray
  <2>1. PICK n : ListReturn(n)
    BY <1>3, ListReturns
  <2> QED BY <2>1, PartlyList
<1>4. CASE ReturnDeref
  BY <1>4, PartlyDeref
<1>5. CASE Crash \/ ParseEnd
  BY <1>5 DEF Crash, ParseEnd
<1> QED BY <1>1, <1>2, <1>3, <1>4, <1>5, ReadSteps

LEMMA ReadGoesOn == ReadInv /\ [ReadNext]_readVars => ReadInv'
<1> SUFFICES ASSUME ReadInv, [ReadNext]_readVars PROVE ReadInv'
  OBVIOUS
<1>1. ReadTypeOK /\ ReadTypeOK'
  BY ReadTypes DEF ReadInv
<1>2. CASE ReadNext
  <2>1. reading = "reading" /\ tokens' = tokens
    BY <1>2 DEF ReadNext, ParseAtom, ParseSexpr, ParseArray, ParseNamedBlock, ParseDeref, ParseExpr,
       ReturnSexpr, ReturnArray, ReturnBlock, ReturnDeref, Crash, ParseEnd
  <2>2. Endings' = Endings /\ (Plain' <=> Plain) /\ \A e : Ends(e)' <=> Ends(e)
    BY <2>1, TextFixed
  <2>3. ASSUME Plain, reading' = "reading"
        PROVE  /\ Shape'
               /\ \A e \in Endings : Ends(e) => Standing(e)' /\ Nested(e)' /\ Written(e)'
               /\ \E h \in Endings : Partly(h)'
    <3>1. Shape /\ \A e \in Endings : Ends(e) => Standing(e) /\ Nested(e) /\ Written(e)
      BY <2>1, <2>3 DEF ReadInv
    <3>2. PICK h \in Endings : Partly(h)
      BY <2>1, <2>3 DEF ReadInv
    <3>3. Shape'
      BY <1>1, <1>2, <2>3, <3>1, ShapeStep
    <3>4. \A e \in Endings : Ends(e) => Standing(e)' /\ Nested(e)' /\ Written(e)'
      BY <1>1, <1>2, <2>3, <3>1, ListsStep
    <3>5. \E g \in Endings : Partly(g)'
      BY <1>1, <1>2, <2>3, <3>1, <3>2, PartlyStep
    <3> QED BY <3>3, <3>4, <3>5
  <2>4. ASSUME Plain, reading' # "reading" PROVE Understood'
    <3>1. Crash \/ ParseEnd
      BY <1>2, <2>1, <2>4 DEF ReadNext, ParseAtom, ParseSexpr, ParseArray, ParseNamedBlock, ParseDeref,
         ReturnSexpr, ReturnArray, ReturnBlock, ReturnDeref
    <3>2. Shape /\ \A e \in Endings : Ends(e) => Standing(e) /\ Nested(e) /\ Written(e)
      BY <2>1, <2>4 DEF ReadInv
    <3>3. PICK h \in Endings : Partly(h)
      BY <2>1, <2>4 DEF ReadInv
    <3> QED BY <1>1, <2>4, <3>1, <3>2, <3>3, AllRead, CutShort
  <2> QED BY <1>1, <2>2, <2>3, <2>4 DEF ReadInv
<1>3. CASE UNCHANGED readVars
  <2>1. /\ tokens' = tokens /\ idx' = idx /\ calls' = calls /\ made' = made /\ tree' = tree /\ reading' = reading
    BY <1>3 DEF readVars
  <2>2. /\ Endings' = Endings /\ Lists' = Lists /\ Closing' = Closing /\ (Plain' <=> Plain)
        /\ \A e : Ends(e)' <=> Ends(e)
        /\ \A e, i : Node(e, i)' <=> Node(e, i)
        /\ \A e, o : Members(e, o)' = Members(e, o)
        /\ \A o, c : Matches(o, c)' <=> Matches(o, c)
        /\ \A i : At(i)' = At(i)
        /\ \A e, i : Right(e, i)' <=> Right(e, i)
    BY <2>1, TextFixed, RightFixed
  <2>3. Waiting' = Waiting /\ Current' = Current
    BY <2>1 DEF Waiting, Current
  <2>4. Shape' <=> Shape
    <3>1. At(idx - 1)' = At(idx - 1)
      BY <2>1 DEF At
    <3> QED BY <2>1, <2>3, <3>1 DEF Shape
  <2>5. ASSUME NEW e
        PROVE  /\ Standing(e)' <=> Standing(e)
               /\ Nested(e)' <=> Nested(e)
               /\ Written(e)' <=> Written(e)
               /\ Partly(e)' <=> Partly(e)
               /\ ReadAs(e)' <=> ReadAs(e)
    <3>1. \A o : Matches(o, idx)' <=> Matches(o, idx)
      BY <2>1 DEF Matches
    <3>2. Standing(e)' <=> Standing(e)
      BY <2>1, <2>2, <2>3, <3>1 DEF Standing
    <3>3. Nested(e)' <=> Nested(e)
      BY <2>1, <2>2, <2>3 DEF Nested
    <3>4. Written(e)' <=> Written(e)
      BY <2>1, <2>2, <2>3 DEF Written
    <3>5. Partly(e)' <=> Partly(e)
      BY <2>1, <2>2, <2>3, <3>1 DEF Partly
    <3>6. InTextOrder(tree, Members(e, 0))' <=> InTextOrder(tree, Members(e, 0))
      BY <2>1, <2>2 DEF InTextOrder
    <3>7. ReadAs(e)' <=> ReadAs(e)
      BY <2>1, <2>2, <3>6 DEF ReadAs
    <3> QED BY <3>2, <3>3, <3>4, <3>5, <3>7
  <2>6. Understood' <=> Understood
    BY <2>2, <2>5 DEF Understood
  <2> QED BY <1>1, <2>1, <2>2, <2>4, <2>5, <2>6 DEF ReadInv
<1> QED BY <1>2, <1>3

(* The stack of calls is a path from the program to the list that is being *)
(* read; each call has the members of its list that have been read, and    *)
(* waits for the next one (parse-expr and the functions it calls).         *)
THEOREM ReaderInvariant == ReadSpec => []ReadInv
<1>1. ReadInit => ReadInv
  BY ReadStarts
<1>2. ReadInv /\ [ReadNext]_readVars => ReadInv'
  BY ReadGoesOn
<1> QED BY <1>1, <1>2, PTL DEF ReadSpec

(* Every text is read as it is written: matching brackets as they match,   *)
(* any others as Ends says, whatever the text.                             *)
THEOREM TextsRegrouped == ReadSpec => []Regroups
<1>1. ReadInv => Regroups
  <2> SUFFICES ASSUME ReadInv, reading \in {"parsed", "crashed"}, Plain PROVE
          /\ \E e \in Endings : Ends(e) /\ ReadAs(e)
          /\ \A e \in Endings : Pairs(e) => ReadAs(e)
    BY DEF Regroups
  <2>1. (\A e \in Endings : Ends(e) => ReadAs(e)) /\ \E e \in Endings : Ends(e)
    BY DEF ReadInv, Understood
  <2>2. \A e : Pairs(e) => Ends(e)
    BY PairsEnd, ReaderAssumption DEF ReadInv, ReadTypeOK
  <2> QED BY <2>1, <2>2
<1> QED BY <1>1, ReaderInvariant, PTL
=============================================================================
