------------------------------ MODULE Gate_proofs ------------------------------
(***************************************************************************)
(* Proofs about Gate: what an exit code of 0 is worth, for every record,   *)
(* every set of artifacts and every split.  First the colorings, then the  *)
(* rules as predicates of a claim alone, then the machine that applies     *)
(* them, and last what a claim that passed them all says.                  *)
(***************************************************************************)
EXTENDS Gate, FiniteSetTheorems, TLAPS

-----------------------------------------------------------------------------
(* Colorings.                                                              *)

\* The same coloring with the colors exchanged.
Mirror(f, n) == [i \in 1 .. n |-> -f[i]]

\* A progression inside 1 .. n stays there.
LEMMA ApInside ==
    ASSUME NEW n \in Nat, NEW k \in Nat \ {0, 1}, NEW ap \in Aps(n, k)
    PROVE  ap \subseteq 1 .. n
<1>1. ap \in UNION {{{a + i * d : i \in 0 .. k - 1} : a \in 1 .. n - (k - 1) * d} :
                      d \in 1 .. (n - 1) \div (k - 1)}
  BY Zenon DEF Aps
<1>2. PICK d \in 1 .. (n - 1) \div (k - 1) :
         ap \in {{a + i * d : i \in 0 .. k - 1} : a \in 1 .. n - (k - 1) * d}
  BY <1>1, Zenon
<1>3. PICK a \in 1 .. n - (k - 1) * d : ap = {a + i * d : i \in 0 .. k - 1}
  BY <1>2, Zenon
<1>4. ASSUME NEW i \in 0 .. k - 1 PROVE a + i * d \in 1 .. n
  <2>1. d \in Nat \ {0} /\ a \in Nat \ {0} /\ i \in Nat
    OBVIOUS
  <2>2. (k - 1) * d \in Nat /\ i * d \in Nat
    BY <2>1
  <2>3. i * d <= (k - 1) * d
    BY <2>1
  <2> QED
    BY <2>1, <2>2, <2>3
<1> QED
  BY <1>3, <1>4

\* Exchanging the colors changes no magnitude of a sum.
LEMMA MirrorSum ==
    ASSUME NEW n \in Nat, NEW f \in [1 .. n -> Colors], NEW ap \in SUBSET (1 .. n)
    PROVE  Magnitude(ApSum(Mirror(f, n), ap)) = Magnitude(ApSum(f, ap))
<1> DEFINE P == {m \in ap : f[m] = 1}
           M == {m \in ap : f[m] = -1}
<1>1. /\ {m \in ap : Mirror(f, n)[m] = 1} = M
      /\ {m \in ap : Mirror(f, n)[m] = -1} = P
  <2>1. \A m \in ap : /\ Mirror(f, n)[m] = 1 <=> f[m] = -1
                      /\ Mirror(f, n)[m] = -1 <=> f[m] = 1
    BY DEF Mirror, Colors
  <2> QED
    BY <2>1
<1>2. Cardinality(P) \in Nat /\ Cardinality(M) \in Nat
  <2>1. IsFiniteSet(1 .. n)
    BY FS_Interval
  <2>2. IsFiniteSet(P) /\ IsFiniteSet(M)
    BY <2>1, FS_Subset
  <2> QED
    BY <2>2, FS_CardinalityType
<1>3. /\ ApSum(Mirror(f, n), ap) = Cardinality(M) - Cardinality(P)
      /\ ApSum(f, ap) = Cardinality(P) - Cardinality(M)
  BY <1>1, Zenon DEF ApSum
<1> HIDE DEF P, M
<1> QED
  BY <1>2, <1>3 DEF Magnitude

\* Exchanging the colors of a coloring that avoids (k, l) leaves one that does.
LEMMA MirrorAvoids ==
    ASSUME NEW n \in Nat, NEW k \in Nat \ {0, 1}, NEW l,
           NEW f \in [1 .. n -> Colors], Avoids(f, k, l)
    PROVE  /\ Mirror(f, n) \in [1 .. n -> Colors]
           /\ Avoids(Mirror(f, n), k, l)
<1>1. Mirror(f, n) \in [1 .. n -> Colors]
  BY DEF Mirror, Colors
<1>2. Len(f) = n /\ Len(Mirror(f, n)) = n
  BY <1>1
<1> QED
  BY <1>1, <1>2, ApInside, MirrorSum DEF Avoids

\* Where some coloring avoids (k, l) some coloring of the instance does, with
\* symmetry breaking or without it.
LEMMA InstanceColored ==
    ASSUME NEW n \in Nat \ {0}, NEW k \in Nat \ {0, 1}, NEW l, NEW e, NEW sb,
           AvoidedAt(n, k, l)
    PROVE  Colorings(Formula(n, k, l, e, sb)) # {}
<1>1. PICK f \in [1 .. n -> Colors] : Avoids(f, k, l)
  BY DEF AvoidedAt
<1>2. CASE f[1] = 1
  BY <1>1, <1>2 DEF Colorings, Formula
<1>3. CASE f[1] # 1
  <2>1. f[1] = -1
    BY <1>1, <1>3 DEF Colors
  <2>2. Mirror(f, n)[1] = 1
    BY <2>1 DEF Mirror
  <2> QED
    BY <1>1, <2>2, MirrorAvoids DEF Colorings, Formula
<1> QED
  BY <1>2, <1>3

\* Every coloring lies in the cube of the split variables that it makes true.
LEMMA CubeCover ==
    ASSUME NEW n \in Nat, NEW split, UsableSplit(split, n),
           NEW f \in [1 .. n -> Colors]
    PROVE  \E cube \in CubeIds(split) : Satisfies(f, CubeLiterals(split, cube))
<1> DEFINE cube == {v \in Vars(split) : f[v] = 1}
<1>1. Vars(split) \subseteq 1 .. n
  BY DEF UsableSplit
<1>2. ASSUME NEW v \in 1 .. n, v \in CubeLiterals(split, cube)
      PROVE  f[v] = 1
  BY <1>1, <1>2 DEF CubeLiterals
<1>3. ASSUME NEW v \in 1 .. n, -v \in CubeLiterals(split, cube)
      PROVE  f[v] = -1
  <2>1. PICK w \in Vars(split) \ cube : -v = -w
    BY <1>1, <1>3 DEF CubeLiterals
  <2> QED
    BY <1>1, <2>1 DEF Colors
<1>4. Satisfies(f, CubeLiterals(split, cube))
  BY <1>2, <1>3 DEF Satisfies
<1> QED
  BY <1>4 DEF CubeIds

\* What some solver refuted whole has no coloring.
LEMMA RefutedWhole ==
    ASSUME NEW n \in Nat \ {0}, NEW k \in Nat \ {0, 1}, NEW l, NEW e, NEW sb,
           <<Formula(n, k, l, e, sb), {}>> \in Refuted
    PROVE  ~AvoidedAt(n, k, l)
<1> SUFFICES ASSUME AvoidedAt(n, k, l) PROVE FALSE
  OBVIOUS
<1>1. PICK f \in Colorings(Formula(n, k, l, e, sb)) : TRUE
  BY InstanceColored
<1>2. Satisfies(f, {})
  BY DEF Satisfies
<1> QED
  BY <1>1, <1>2, SoundSolvers DEF RefutedAssumption

\* Nor has what was refuted cube by cube: the cubes of a split leave no
\* coloring out.
LEMMA RefutedByCubes ==
    ASSUME NEW n \in Nat \ {0}, NEW k \in Nat \ {0, 1}, NEW l, NEW e, NEW sb,
           NEW split, UsableSplit(split, n),
           \A cube \in CubeIds(split) :
              <<Formula(n, k, l, e, sb), CubeLiterals(split, cube)>> \in Refuted
    PROVE  ~AvoidedAt(n, k, l)
<1> SUFFICES ASSUME AvoidedAt(n, k, l) PROVE FALSE
  OBVIOUS
<1>1. PICK f \in Colorings(Formula(n, k, l, e, sb)) : TRUE
  BY InstanceColored
<1>2. f \in [1 .. n -> Colors]
  BY <1>1 DEF Colorings, Formula
<1>3. PICK cube \in CubeIds(split) : Satisfies(f, CubeLiterals(split, cube))
  BY <1>2, CubeCover
<1> QED
  BY <1>1, <1>3, SoundSolvers DEF RefutedAssumption

-----------------------------------------------------------------------------
(* The rules as predicates of a claim.  What found holds while the rules go *)
(* over a claim depends on the claim alone.                                *)

Shas(c) == {RunLogs[path].sha256 : path \in GoodRuns(c)}

\* What G2 to W6 find out about a claim.
HasWitness(c) == c.witness # Absent /\ GoodWitness(c)
Dual(c) == TwoOf(RunEncoders(c)) /\ GoodRuns(c) = c.runs
ProofLevel(c) == DratLevel(c, Shas(c))
HasWave(c) == c.wave # Absent /\ Complete(c.wave)
HasProofs(c) == /\ HasWave(c)
                /\ c.wave.transcripts # Absent
                /\ ProofsChecked(c.wave)
HasSecond(c) == c.wave # Absent /\ Confirmed(c, RunEncoders(c))

PassesG2(c) == IF c.witness = Absent THEN ~NeedsWitness(c) ELSE HasWitness(c)
PassesG3(c) == GoodRuns(c) = c.runs /\ (NeedsRuns(c) => TwoOf(RunEncoders(c)))
PassesG4(c) == c.drat # Absent => ProofLevel(c) > 0
PassesWaves(c) == c.wave # Absent => WaveAccepted(c.wave)
PassesW6(c) == c.wave # Absent => ConfirmationHolds(c, RunEncoders(c))
PassesG7(c) ==
    \/ HasWitness(c) /\ c.level <= Witness
    \/ Dual(c) /\ c.level <= UnsatDual
    \/ Dual(c) /\ c.level <= ProofLevel(c)
    \/ HasWave(c) /\ c.level <= WaveLevel(HasSecond(c), HasProofs(c))

Passed(c) ==
    /\ c.shape
    /\ PassesG2(c)
    /\ PassesG3(c)
    /\ PassesG4(c)
    /\ PassesWaves(c)
    /\ KindAllowsWave(c)
    /\ PassesW6(c)
    /\ PassesG7(c)

-----------------------------------------------------------------------------
(* The machine.  A rule that is behind the current claim has left in found *)
(* what the claim's artifacts say, and as long as nothing failed the claim *)
(* passed it; the claims before passed them all, under different ids.      *)

AfterG1 == {"G2", "G3", "G4", "waves", "W5", "W6", "G5", "G7"}
AfterG2 == AfterG1 \ {"G2"}
AfterG3 == AfterG2 \ {"G3"}
AfterG4 == AfterG3 \ {"G4"}
AfterWaves == AfterG4 \ {"waves"}
AfterW5 == AfterWaves \ {"W5"}
AfterW6 == AfterW5 \ {"W6"}

\* The record is one of those the gate is run on, and its claims are taken in
\* their order.
InRecord ==
    /\ \E family \in Inputs : repo \in family
    /\ pc \in AfterG1 => at \in DOMAIN repo.claims /\ claim.shape

FoundOf(c) ==
    /\ pc \in AfterG2 => found.witness = HasWitness(c)
    /\ pc \in AfterG3 => /\ found.encoders = RunEncoders(c)
                         /\ found.shas = Shas(c)
                         /\ found.dual = Dual(c)
    /\ pc \in AfterG4 => found.drat = ProofLevel(c)
    /\ pc \in AfterWaves => found.wave = HasWave(c) /\ found.proofs = HasProofs(c)
    /\ pc \in AfterW6 => found.confirmed = HasSecond(c)

PassedSoFar(c) ==
    /\ pc \in AfterG2 => PassesG2(c)
    /\ pc \in AfterG3 => PassesG3(c)
    /\ pc \in AfterG4 => PassesG4(c)
    /\ pc \in AfterWaves => PassesWaves(c)
    /\ pc \in AfterW5 => KindAllowsWave(c)
    /\ pc \in AfterW6 => PassesW6(c)

\* Ids of the claims before the current one, and of that one once G1 has it.
Taken == {repo.claims[i].id : i \in 1 .. at - 1}
             \cup (IF pc \in AfterG1 THEN {claim.id} ELSE {})

Distinct(claims, n) ==
    \A i, j \in 1 .. n : claims[i].id = claims[j].id => i = j

Spotless ==
    failures = {} =>
        /\ seen = Taken
        /\ \A i \in 1 .. at - 1 : Passed(repo.claims[i])
        /\ Distinct(repo.claims, IF pc \in AfterG1 THEN at ELSE at - 1)
        /\ pc \in AfterG1 => PassedSoFar(claim)

GateInv ==
    /\ TypeOK
    /\ InRecord
    /\ pc \in AfterG1 => FoundOf(claim)
    /\ Spotless
    /\ DOMAIN found = DOMAIN NothingFound
    /\ exit = 0 => failures = {}

-----------------------------------------------------------------------------

\* The gate only reads the record and the command line, so what the rules say
\* of a claim stays.
LEMMA RulesStay ==
    ASSUME UNCHANGED repo
    PROVE  \A c : /\ ProofLevel(c)' = ProofLevel(c)
                  /\ HasProofs(c)' = HasProofs(c)
                  /\ PassesWaves(c)' <=> PassesWaves(c)
                  /\ PassesW6(c)' <=> PassesW6(c)
                  /\ PassesG7(c)' <=> PassesG7(c)
<1>1. \A block, lines : WaveReverifies(block, lines)' <=> WaveReverifies(block, lines)
  BY DEF WaveReverifies
<1>2. \A block : ProofsChecked(block)' <=> ProofsChecked(block)
  BY <1>1 DEF ProofsChecked
<1>3. \A block : WaveAccepted(block)' <=> WaveAccepted(block)
  BY <1>2 DEF WaveAccepted
<1>4. \A t : Reruns(t)' <=> Reruns(t)
  BY DEF Reruns
<1>5. \A c : ProofLevel(c)' = ProofLevel(c) /\ HasProofs(c)' = HasProofs(c)
  BY <1>2, <1>4 DEF ProofLevel, DratLevel, HasProofs
<1>6. \A c : PassesWaves(c)' <=> PassesWaves(c)
  BY <1>3 DEF PassesWaves
<1>7. \A c : PassesW6(c)' <=> PassesW6(c)
  BY <1>3 DEF PassesW6, ConfirmationHolds
<1>8. \A c : PassesG7(c)' <=> PassesG7(c)
  BY <1>5 DEF PassesG7
<1> QED
  BY <1>5, <1>6, <1>7, <1>8

LEMMA ClaimStays ==
    ASSUME UNCHANGED repo, NEW i, Passed(repo.claims[i])
    PROVE  Passed(repo.claims[i])'
BY RulesStay DEF Passed, PassesG4

\* The claims of a record are indexed from 1.
LEMMA ClaimIndex ==
    ASSUME InRecord
    PROVE  /\ Len(repo.claims) \in Nat
           /\ DOMAIN repo.claims = 1 .. Len(repo.claims)
           /\ \A i \in DOMAIN repo.claims :
                 repo.claims[i].shape => WellFormed(repo.claims[i])
BY RecordFormat DEF InRecord, FormatAssumption

\* A rule that is applied to a claim leaves the ones before it alone.
LEMMA SameClaim ==
    ASSUME GateInv, pc \in AfterG1, pc' \in AfterG1,
           UNCHANGED <<repo, at, seen, exit>>,
           DOMAIN found' = DOMAIN found,
           FoundOf(claim)',
           failures' = {} => failures = {} /\ PassedSoFar(claim)'
    PROVE  GateInv'
<1> USE DEF GateInv
<1>1. claim' = claim /\ Taken' = Taken
  BY DEF claim, Taken
<1>2. TypeOK'
  BY <1>1 DEF TypeOK, AfterG1
<1>3. InRecord'
  BY <1>1 DEF InRecord
<1>4. Spotless'
  <2>1. \A i \in 1 .. at - 1 : Passed(repo.claims[i]) => Passed(repo.claims[i])'
    BY ClaimStays
  <2> QED
    BY <1>1, <2>1 DEF Spotless, Distinct
<1>5. exit' # 0
  BY RecordFormat DEF FormatAssumption, TypeOK, AfterG1
<1> QED
  BY <1>2, <1>3, <1>4, <1>5

\* What the steps of the rules do to the current claim, one lemma per rule.
LEMMA AfterRuleG2 ==
    ASSUME GateInv, RuleG2 PROVE GateInv'
<1> USE DEF GateInv, RuleG2, Goto
<1>1. claim' = claim
  BY DEF claim
<1>2. found'.witness = HasWitness(claim)
  BY DEF HasWitness, NothingFound
<1>3. FoundOf(claim)'
  BY <1>1, <1>2 DEF FoundOf, AfterG1, AfterG2, AfterG3,
         AfterG4, AfterWaves, AfterW5, AfterW6
<1>4. failures' = {} => failures = {} /\ PassesG2(claim)
  BY DEF Require, PassesG2, HasWitness
<1>5. failures' = {} => PassedSoFar(claim)'
  BY <1>1, <1>4 DEF PassedSoFar, AfterG1, AfterG2, AfterG3,
         AfterG4, AfterWaves, AfterW5, AfterW6
<1> QED
  BY <1>3, <1>4, <1>5, SameClaim DEF AfterG1

LEMMA AfterRuleG3 ==
    ASSUME GateInv, RuleG3 PROVE GateInv'
<1> USE DEF GateInv, RuleG3, Goto
<1>1. claim' = claim
  BY DEF claim
<1>2. /\ found'.encoders = RunEncoders(claim)
      /\ found'.shas = Shas(claim)
      /\ found'.dual = Dual(claim)
      /\ found'.witness = found.witness
  BY DEF Shas, Dual, NothingFound
<1>3. FoundOf(claim)'
  BY <1>1, <1>2 DEF FoundOf, AfterG1, AfterG2, AfterG3,
         AfterG4, AfterWaves, AfterW5, AfterW6
<1>4. failures' = {} => failures = {} /\ PassesG3(claim)
  BY DEF Require, PassesG3
<1>5. failures' = {} => PassedSoFar(claim)'
  BY <1>1, <1>4 DEF Spotless, PassedSoFar, AfterG1, AfterG2, AfterG3,
         AfterG4, AfterWaves, AfterW5, AfterW6
<1> QED
  BY <1>3, <1>4, <1>5, SameClaim DEF AfterG1

LEMMA AfterRuleG4 ==
    ASSUME GateInv, RuleG4 PROVE GateInv'
<1> USE DEF GateInv, RuleG4, Goto
<1>1. claim' = claim
  BY DEF claim
<1>2. /\ DratLevel(claim, found.shas) = ProofLevel(claim)
      /\ found'.drat = ProofLevel(claim)
  BY DEF FoundOf, ProofLevel, NothingFound,
         AfterG1, AfterG2, AfterG3, AfterG4, AfterWaves, AfterW5, AfterW6
<1>3. /\ found'.encoders = found.encoders
      /\ found'.shas = found.shas
      /\ found'.dual = found.dual
      /\ found'.witness = found.witness
      /\ DOMAIN found' = DOMAIN found
  BY DEF NothingFound
<1>4. FoundOf(claim)'
  BY <1>1, <1>2, <1>3, RulesStay DEF FoundOf, AfterG1, AfterG2, AfterG3,
         AfterG4, AfterWaves, AfterW5, AfterW6
<1>5. failures' = {} => failures = {} /\ PassesG4(claim)
  BY <1>2 DEF Require, PassesG4
<1>6. failures' = {} => PassedSoFar(claim)'
  BY <1>1, <1>5, RulesStay DEF Spotless, PassedSoFar, PassesG4,
         AfterG1, AfterG2, AfterG3, AfterG4, AfterWaves, AfterW5, AfterW6
<1> QED
  BY <1>3, <1>4, <1>5, <1>6, SameClaim DEF AfterG1

LEMMA AfterRuleWaves ==
    ASSUME GateInv, RuleWaves PROVE GateInv'
<1> USE DEF GateInv, RuleWaves, Goto
<1>1. claim' = claim
  BY DEF claim
<1>2. found'.wave = HasWave(claim) /\ found'.proofs = HasProofs(claim)
  BY DEF HasWave, HasProofs, NothingFound
<1>3. /\ found'.encoders = found.encoders
      /\ found'.shas = found.shas
      /\ found'.dual = found.dual
      /\ found'.witness = found.witness
      /\ found'.drat = found.drat
      /\ DOMAIN found' = DOMAIN found
  BY DEF NothingFound
<1>4. FoundOf(claim)'
  BY <1>1, <1>2, <1>3, RulesStay DEF FoundOf, AfterG1, AfterG2, AfterG3,
         AfterG4, AfterWaves, AfterW5, AfterW6
<1>5. failures' = {} => failures = {} /\ PassesWaves(claim)
  BY DEF Require, PassesWaves
<1>6. failures' = {} => PassedSoFar(claim)'
  BY <1>1, <1>5, RulesStay DEF Spotless, PassedSoFar, PassesG4,
         AfterG1, AfterG2, AfterG3, AfterG4, AfterWaves, AfterW5, AfterW6
<1> QED
  BY <1>3, <1>4, <1>5, <1>6, SameClaim DEF AfterG1

LEMMA AfterRuleW5 ==
    ASSUME GateInv, RuleW5 PROVE GateInv'
<1> USE DEF GateInv, RuleW5, Goto
<1>1. claim' = claim
  BY DEF claim
<1>2. FoundOf(claim)'
  BY <1>1, RulesStay DEF FoundOf, AfterG1, AfterG2, AfterG3,
         AfterG4, AfterWaves, AfterW5, AfterW6
<1>3. failures' = {} => failures = {} /\ KindAllowsWave(claim)
  BY DEF Require
<1>4. failures' = {} => PassedSoFar(claim)'
  BY <1>1, <1>3, RulesStay DEF Spotless, PassedSoFar, PassesG4,
         AfterG1, AfterG2, AfterG3, AfterG4, AfterWaves, AfterW5, AfterW6
<1> QED
  BY <1>2, <1>3, <1>4, SameClaim DEF AfterG1

LEMMA AfterRuleW6 ==
    ASSUME GateInv, RuleW6 PROVE GateInv'
<1> USE DEF GateInv, RuleW6, Goto
<1>1. claim' = claim
  BY DEF claim
<1>2. found.encoders = RunEncoders(claim)
  BY DEF FoundOf, AfterG1, AfterG2, AfterG3,
         AfterG4, AfterWaves, AfterW5, AfterW6
<1>3. found'.confirmed = HasSecond(claim)
  BY <1>2 DEF HasSecond, NothingFound
<1>4. /\ found'.encoders = found.encoders
      /\ found'.shas = found.shas
      /\ found'.dual = found.dual
      /\ found'.witness = found.witness
      /\ found'.drat = found.drat
      /\ found'.wave = found.wave
      /\ found'.proofs = found.proofs
      /\ DOMAIN found' = DOMAIN found
  BY DEF NothingFound
<1>5. FoundOf(claim)'
  BY <1>1, <1>3, <1>4, RulesStay DEF FoundOf, AfterG1, AfterG2, AfterG3,
         AfterG4, AfterWaves, AfterW5, AfterW6
<1>6. failures' = {} => failures = {} /\ PassesW6(claim)
  BY <1>2 DEF Require, PassesW6
<1>7. failures' = {} => PassedSoFar(claim)'
  BY <1>1, <1>6, RulesStay DEF Spotless, PassedSoFar, PassesG4,
         AfterG1, AfterG2, AfterG3, AfterG4, AfterWaves, AfterW5, AfterW6
<1> QED
  BY <1>4, <1>5, <1>6, <1>7, SameClaim DEF AfterG1

LEMMA AfterRuleG5 ==
    ASSUME GateInv, RuleG5 PROVE GateInv'
<1> USE DEF GateInv, RuleG5, Goto
<1>1. claim' = claim
  BY DEF claim
<1>2. FoundOf(claim)'
  BY <1>1, RulesStay DEF FoundOf, AfterG1, AfterG2, AfterG3,
         AfterG4, AfterWaves, AfterW5, AfterW6
<1>3. failures' = {} => failures = {}
  BY DEF Require
<1>4. failures' = {} => PassedSoFar(claim)'
  BY <1>1, <1>3, RulesStay DEF Spotless, PassedSoFar, PassesG4,
         AfterG1, AfterG2, AfterG3, AfterG4, AfterWaves, AfterW5, AfterW6
<1> QED
  BY <1>2, <1>3, <1>4, SameClaim DEF AfterG1

\* G1 takes a claim of the right shape under a new id, or the gate has failed.
LEMMA AfterRuleG1 ==
    ASSUME GateInv, RuleG1 PROVE GateInv'
<1> USE DEF GateInv, RuleG1, Goto
<1>1. at \in 1 .. Len(repo.claims) /\ Len(repo.claims) \in Nat
  BY ClaimIndex
<1>2. exit' # 0
  BY RecordFormat DEF FormatAssumption, TypeOK
<1>3. \A i \in 1 .. at - 1 : Passed(repo.claims[i]) => Passed(repo.claims[i])'
  BY ClaimStays
<1>4. failures' = {} => failures = {} /\ claim.shape /\ claim.id \notin seen
  BY DEF Require
<1>5. CASE claim.shape /\ claim.id \notin seen
  <2>1. /\ pc' = "G2" /\ seen' = seen \cup {claim.id}
        /\ UNCHANGED <<repo, at, found, exit>> /\ claim' = claim
    BY <1>5 DEF claim
  <2>2. TypeOK'
    BY <1>1, <2>1 DEF TypeOK
  <2>3. InRecord' /\ FoundOf(claim)'
    BY <1>5, <2>1
       DEF InRecord, FoundOf, AfterG2, AfterG1, AfterG3, AfterG4,
           AfterWaves, AfterW5, AfterW6
  <2>4. ASSUME failures' = {} PROVE seen' = Taken' /\ Distinct(repo.claims, at)
    <3>1. seen = {repo.claims[i].id : i \in 1 .. at - 1}
      BY <1>4, <2>4 DEF Spotless, Taken, AfterG1
    <3>2. Distinct(repo.claims, at - 1)
      BY <1>4, <2>4 DEF Spotless, AfterG1
    <3>3. \A i \in 1 .. at - 1 : repo.claims[i].id # repo.claims[at].id
      BY <1>4, <2>4, <3>1 DEF claim
    <3> QED
      BY <1>1, <2>1, <3>1, <3>2, <3>3 DEF Taken, Distinct, AfterG1, claim
  <2>5. Spotless'
    BY <1>3, <1>4, <2>1, <2>4
       DEF Spotless, PassedSoFar, AfterG1, AfterG2, AfterG3, AfterG4,
           AfterWaves, AfterW5, AfterW6
  <2> QED
    BY <1>2, <2>1, <2>2, <2>3, <2>5
<1>6. CASE ~(claim.shape /\ claim.id \notin seen)
  <2>1. /\ pc' = "G1" /\ at' = at + 1 /\ found' = NothingFound
        /\ UNCHANGED <<repo, seen, exit>> /\ failures' # {}
    BY <1>4, <1>6 DEF NextClaim
  <2>2. TypeOK'
    BY <1>1, <2>1 DEF TypeOK
  <2> QED
    BY <1>2, <2>1, <2>2 DEF InRecord, AfterG1, Spotless
<1> QED
  BY <1>5, <1>6

\* G7 speaks only about a claim that is clean so far: one of a record without
\* failures has passed every other rule.
LEMMA AfterRuleG7 ==
    ASSUME GateInv, RuleG7 PROVE GateInv'
<1> USE DEF GateInv, RuleG7, Goto, NextClaim
<1>1. /\ at \in 1 .. Len(repo.claims) /\ Len(repo.claims) \in Nat
      /\ at \in DOMAIN repo.claims /\ claim.shape
  BY ClaimIndex DEF InRecord, AfterG1
<1>2. exit' # 0
  BY RecordFormat DEF FormatAssumption, TypeOK
<1>3. TypeOK'
  BY <1>1 DEF TypeOK, claim
<1>4. \A i \in 1 .. at - 1 : Passed(repo.claims[i]) => Passed(repo.claims[i])'
  BY ClaimStays
<1>5. ASSUME failures' = {}
      PROVE  failures = {} /\ Passed(claim)
  <2>1. failures = {} /\ Reaches(claim.level)
    BY <1>5 DEF Require, Clean
  <2>2. PassesG7(claim)
    BY <2>1 DEF Reaches, PassesG7, FoundOf,
                AfterG1, AfterG2, AfterG3, AfterG4, AfterWaves, AfterW5, AfterW6
  <2> QED
    BY <1>1, <2>1, <2>2
       DEF Spotless, PassedSoFar, Passed,
           AfterG1, AfterG2, AfterG3, AfterG4, AfterWaves, AfterW5, AfterW6
<1>6. Spotless'
  <2> SUFFICES ASSUME failures' = {}
               PROVE  /\ seen' = Taken'
                      /\ \A i \in 1 .. at : Passed(repo.claims[i])'
                      /\ Distinct(repo.claims, at)
    BY <1>1 DEF Spotless, AfterG1, Distinct
  <2>1. ASSUME NEW i \in 1 .. at, i = at PROVE Passed(repo.claims[i])'
    BY <1>5, <2>1, ClaimStays DEF claim
  <2>2. seen = Taken /\ Taken' = Taken
    BY <1>1, <1>5 DEF Spotless, Taken, AfterG1, claim
  <2> QED
    BY <1>1, <1>4, <1>5, <2>1, <2>2 DEF Spotless, AfterG1
<1> QED
  BY <1>2, <1>3, <1>6 DEF InRecord, AfterG1

\* The gate finds out nothing false, whatever the record and the artifacts are.
LEMMA GateStep ==
    ASSUME GateInv, [Next]_vars PROVE GateInv'
<1>1. CASE AnchorsFile
  <2> USE DEF GateInv, AnchorsFile, Goto
  <2>1. TypeOK' /\ exit' # 0
    BY <1>1, RecordFormat DEF TypeOK, FormatAssumption
  <2>2. InRecord' /\ pc' \notin AfterG1 /\ Taken' = Taken
    BY <1>1 DEF InRecord, AfterG1, Taken
  <2>3. failures' = {} => failures = {}
    BY <1>1 DEF RequireGlobally
  <2>4. \A i \in 1 .. at - 1 : Passed(repo.claims[i]) => Passed(repo.claims[i])'
    BY <1>1, ClaimStays
  <2> QED
    BY <1>1, <2>1, <2>2, <2>3, <2>4 DEF Spotless, Distinct, AfterG1
<1>2. CASE Finish
  <2> USE DEF GateInv, Finish, Goto
  <2>1. TypeOK'
    BY <1>2, ClaimIndex, RecordFormat DEF TypeOK, FormatAssumption
  <2>2. InRecord' /\ pc' \notin AfterG1 /\ Taken' = Taken
    BY <1>2 DEF InRecord, AfterG1, Taken
  <2>3. failures' = {} => failures = {}
    BY <1>2 DEF RequireGlobally
  <2>4. \A i \in 1 .. at - 1 : Passed(repo.claims[i]) => Passed(repo.claims[i])'
    BY <1>2, ClaimStays
  <2> QED
    BY <1>2, <2>1, <2>2, <2>3, <2>4 DEF Spotless, Distinct, AfterG1
<1>3. CASE UNCHANGED vars
  <2> USE DEF GateInv, vars
  <2>1. TypeOK' /\ InRecord' /\ Taken' = Taken /\ claim' = claim
    BY <1>3 DEF TypeOK, InRecord, Taken, claim
  <2>2. FoundOf(claim)' <=> FoundOf(claim)
    BY <1>3, <2>1, RulesStay DEF FoundOf
  <2>3. PassedSoFar(claim)' <=> PassedSoFar(claim)
    BY <1>3, <2>1, RulesStay DEF PassedSoFar, PassesG4
  <2>4. \A i \in 1 .. at - 1 : Passed(repo.claims[i]) => Passed(repo.claims[i])'
    BY <1>3, ClaimStays
  <2> QED
    BY <1>3, <2>1, <2>2, <2>3, <2>4 DEF Spotless, Distinct
<1> QED
  BY <1>1, <1>2, <1>3, AfterRuleG1, AfterRuleG2, AfterRuleG3, AfterRuleG4,
     AfterRuleWaves, AfterRuleW5, AfterRuleW6, AfterRuleG5, AfterRuleG7 DEF Next

\* Every reachable state of the gate: what it found out about a claim is what
\* the claim's artifacts say, and no failure means that the claims so far have
\* passed every rule.
THEOREM GateInvariant == Spec => []GateInv
<1>1. Init => GateInv
  <2> SUFFICES ASSUME Init PROVE GateInv
    OBVIOUS
  <2>1. InRecord
    BY DEF Init, InRecord, AfterG1
  <2>2. TypeOK
    BY <2>1, ClaimIndex DEF Init, TypeOK
  <2> QED
    BY <2>1, <2>2, RecordFormat
       DEF Init, GateInv, Spotless, Distinct, Taken, AfterG1, FormatAssumption
<1>2. GateInv /\ [Next]_vars => GateInv'
  BY GateStep
<1> QED
  BY <1>1, <1>2, PTL DEF Spec

-----------------------------------------------------------------------------
(* What a claim that passed says.                                          *)

\* A good run-log is a refutation of the claim's own instance.
LEMMA RunDecides ==
    ASSUME NEW c, NEW path \in GoodRuns(c)
    PROVE  LET log == RunLogs[path] IN
           /\ log.encoder \in Encoders
           /\ log.symmetryBreak \in BOOLEAN
           /\ log.sha256 = Formula(c.value, c.k, c.l, log.encoder, log.symmetryBreak)
           /\ <<log.sha256, {}>> \in Refuted
           /\ <<log.sha256, {}>> \in Solved(c)
<1> DEFINE log == RunLogs[path]
<1>1. /\ path \in c.runs /\ path \in DOMAIN RunLogs
      /\ log.shape /\ log.rc = 20
      /\ <<log.N, log.k, log.l>> = <<c.value, c.k, c.l>>
      /\ log.encoder \in Encoders
      /\ log.sha256 = Formula(log.N, log.k, log.l, log.encoder, log.symmetryBreak)
  BY DEF GoodRuns, GoodRun
<1>2. log.sha256 = Formula(c.value, c.k, c.l, log.encoder, log.symmetryBreak)
  BY <1>1
<1>3. log.symmetryBreak \in BOOLEAN
  BY <1>1, RecordFormat DEF FormatAssumption
<1>4. <<log.sha256, {}>> \in Refuted
  BY <1>1, HonestEvidence DEF Honest
<1>5. <<log.sha256, {}>> \in
         {<<RunLogs[p].sha256, {}>> :
             p \in {q \in c.runs \cap DOMAIN RunLogs : RunLogs[q].shape /\ RunLogs[q].rc = 20}}
  BY <1>1
<1> HIDE DEF log
<1>6. <<log.sha256, {}>> \in Solved(c)
  BY <1>5 DEF Solved, log
<1> QED
  BY <1>1, <1>2, <1>3, <1>4, <1>6 DEF log

\* The encoders of the good runs have each decided the claim's instance.
LEMMA RunsDecide ==
    ASSUME NEW c PROVE RunEncoders(c) \subseteq DecidedBy(c)
<1> SUFFICES ASSUME NEW path \in GoodRuns(c)
             PROVE  RunLogs[path].encoder \in DecidedBy(c)
  BY DEF RunEncoders
<1> QED
  BY RunDecides DEF DecidedBy, Decided

\* Of a complete wave every cube was refuted, over the base instance that the
\* manifest's parameters give.
LEMMA WaveDecides ==
    ASSUME NEW block, Complete(block)
    PROVE  LET m == Manifest(block) IN
           /\ block.manifest \in DOMAIN Waves
           /\ m = Waves[block.manifest]
           /\ m # Absent
           /\ m.encoder \in Encoders
           /\ m.symmetryBreak \in BOOLEAN
           /\ m.base = Formula(m.N, m.k, m.l, m.encoder, m.symmetryBreak)
           /\ UsableSplit(m.split, m.N)
           /\ \A cube \in CubeIds(m.split) :
                 /\ <<m.base, CubeLiterals(m.split, cube)>> \in SolvedIn(block)
                 /\ <<m.base, CubeLiterals(m.split, cube)>> \in Refuted
<1> DEFINE m == Manifest(block)
           docs == Verdicts[block.verdicts].docs
<1>1. /\ WellCut(m) /\ BaseRegenerates(m) /\ m.encoder \in Encoders
      /\ VerdictsRead(block) /\ EveryCubeUnsat(docs, m.split)
  BY DEF Complete
<1>2. m # Absent /\ m.shape /\ UsableSplit(m.split, m.N)
  BY <1>1 DEF WellCut
<1>3. block.manifest \in DOMAIN Waves /\ m = Waves[block.manifest]
  BY <1>2 DEF Manifest
<1>4. m.symmetryBreak \in BOOLEAN
  BY <1>2, <1>3, RecordFormat DEF FormatAssumption
<1>5. /\ block.verdicts \in DOMAIN Verdicts
      /\ block.verdicts.at = block.manifest
      /\ \A i \in DOMAIN docs : docs[i].shape
  BY <1>1 DEF VerdictsRead, OnePerCube
<1>6. ASSUME NEW cube \in CubeIds(m.split)
      PROVE  \E i \in DOMAIN docs :
                docs[i].shape /\ docs[i].rc = 20 /\ docs[i].lits = CubeLiterals(m.split, cube)
  BY <1>1, <1>5 DEF EveryCubeUnsat
<1>7. m = Waves[block.verdicts.at]
  BY <1>3, <1>5
<1> HIDE DEF m, docs
<1>8. ASSUME NEW i \in DOMAIN docs, docs[i].shape, docs[i].rc = 20
      PROVE  <<m.base, docs[i].lits>> \in SolvedIn(block) /\ <<m.base, docs[i].lits>> \in Refuted
  <2>1. <<m.base, docs[i].lits>> \in Refuted
    BY <1>5, <1>7, <1>8, HonestEvidence DEF Honest, docs
  <2>2. i \in {j \in DOMAIN docs : docs[j].shape /\ docs[j].rc = 20}
    BY <1>8
  <2>3. SolvedIn(block) = {<<m.base, docs[j].lits>> :
                              j \in {h \in DOMAIN docs : docs[h].shape /\ docs[h].rc = 20}}
    BY <1>5, <1>7 DEF SolvedIn, docs
  <2> QED
    BY <2>1, <2>2, <2>3
<1>9. \A cube \in CubeIds(m.split) :
         /\ <<m.base, CubeLiterals(m.split, cube)>> \in SolvedIn(block)
         /\ <<m.base, CubeLiterals(m.split, cube)>> \in Refuted
  BY <1>6, <1>8
<1> QED
  BY <1>1, <1>2, <1>3, <1>4, <1>9 DEF m, BaseRegenerates

\* A complete wave about the claim's instance, if what it records counts for
\* the claim, puts its encoder behind it.
LEMMA CountedWave ==
    ASSUME NEW c, NEW block, Complete(block), SameInstance(Manifest(block), c),
           SolvedIn(block) \subseteq Solved(c)
    PROVE  Manifest(block).encoder \in DecidedBy(c)
<1> DEFINE m == Manifest(block)
           formula == Formula(c.value, c.k, c.l, m.encoder, m.symmetryBreak)
<1>1. /\ block.manifest \in DOMAIN Waves /\ m = Waves[block.manifest]
      /\ m.encoder \in Encoders /\ m.symmetryBreak \in BOOLEAN
      /\ m.base = Formula(m.N, m.k, m.l, m.encoder, m.symmetryBreak)
      /\ UsableSplit(m.split, m.N)
      /\ \A cube \in CubeIds(m.split) :
            <<m.base, CubeLiterals(m.split, cube)>> \in SolvedIn(block)
  BY WaveDecides
<1>2. m.N = c.value /\ m.k = c.k /\ m.l = c.l
  BY DEF SameInstance
<1> HIDE DEF m
<1>3. m.base = formula /\ UsableSplit(m.split, formula.N)
  BY <1>1, <1>2 DEF Formula
<1>4. \A cube \in CubeIds(m.split) : <<formula, CubeLiterals(m.split, cube)>> \in Solved(c)
  BY <1>1, <1>3
<1>5. Decided(formula, c)
  BY <1>1, <1>3, <1>4, Zenon DEF Decided
<1>6. m.encoder \in DecidedBy(c)
  BY <1>1, <1>5 DEF DecidedBy
<1> QED
  BY <1>6 DEF m

\* The claim's own wave.
LEMMA OwnWave ==
    ASSUME NEW c, HasWave(c), KindAllowsWave(c)
    PROVE  /\ Manifest(c.wave) # Absent
           /\ SameInstance(Manifest(c.wave), c)
           /\ Manifest(c.wave).encoder \in DecidedBy(c)
<1>1. Complete(c.wave) /\ c.wave # Absent /\ Manifest(c.wave) # Absent
  BY WaveDecides DEF HasWave
<1>2. SameInstance(Manifest(c.wave), c)
  BY <1>1 DEF KindAllowsWave
<1>3. SolvedIn(c.wave) \subseteq Solved(c)
  BY <1>1 DEF Solved
<1> QED
  BY <1>1, <1>2, <1>3, CountedWave

\* A wave that is confirmed has a second encoder behind the claim, be it that
\* of a run or of another wave.
LEMMA SecondEncoder ==
    ASSUME NEW c, WellFormed(c), HasWave(c), KindAllowsWave(c), HasSecond(c)
    PROVE  TwoOf(DecidedBy(c))
<1> DEFINE confirm == c.wave.confirm
           own == Manifest(c.wave).encoder
<1>1. own \in DecidedBy(c) /\ PrimaryEncoder(c) = own
  BY OwnWave DEF PrimaryEncoder
<1>2. c.wave # Absent /\ confirm # Absent /\ confirm.kind \in {"wave", "unsat_runs"}
  BY DEF HasSecond, Confirmed, WellFormed
<1>3. CASE confirm.kind = "unsat_runs"
  <2>1. PICK e \in RunEncoders(c) : e # own
    BY <1>1, <1>2, <1>3 DEF HasSecond, Confirmed
  <2> QED
    BY <1>1, <2>1, RunsDecide DEF TwoOf
<1>4. CASE confirm.kind = "wave"
  <2>1. /\ Complete(confirm) /\ SameInstance(Manifest(confirm), c)
        /\ Manifest(confirm).encoder # own
    BY <1>1, <1>2, <1>4 DEF HasSecond, Confirmed
  <2>2. SolvedIn(confirm) \subseteq Solved(c)
    BY <1>2, <1>4 DEF Solved, ConfirmedByWave
  <2> QED
    BY <1>1, <2>1, <2>2, CountedWave DEF TwoOf
<1> QED
  BY <1>2, <1>3, <1>4

\* A kind that says two encoders has them; every upper side has one.
LEMMA KindDecided ==
    ASSUME NEW c, WellFormed(c), Passed(c)
    PROVE  /\ c.kind # "lower_bound" => DecidedBy(c) # {}
           /\ c.kind \in {"upper_bound", "exact"} => TwoOf(DecidedBy(c))
<1> USE DEF Passed
<1>1. CASE NeedsRuns(c)
  <2>1. TwoOf(RunEncoders(c))
    BY <1>1 DEF PassesG3
  <2> QED
    BY <2>1, RunsDecide DEF TwoOf
<1>2. CASE ~NeedsRuns(c) /\ c.kind # "lower_bound"
  <2>1. /\ c.kind \in {"upper_bound_wave", "exact"}
        /\ c.wave # Absent /\ HasWave(c)
    BY <1>2 DEF WellFormed, Kinds, NeedsRuns, KindAllowsWave, PassesWaves, WaveAccepted, HasWave
  <2>2. DecidedBy(c) # {}
    BY <2>1, OwnWave
  <2>3. c.kind = "exact" => HasSecond(c)
    BY <2>1 DEF PassesW6, ConfirmationHolds, HasSecond
  <2> QED
    BY <1>2, <2>1, <2>2, <2>3, SecondEncoder
<1>3. CASE c.kind = "lower_bound"
  BY <1>3
<1> QED
  BY <1>1, <1>2, <1>3

\* A passed claim is true: what was refuted leaves no coloring of its length,
\* and the witness is a coloring of the length before.
LEMMA PassedTrue ==
    ASSUME NEW c, WellFormed(c), Passed(c)
    PROVE  IsTrue(c)
<1> USE DEF Passed, WellFormed
<1>1. ASSUME c.kind \in {"lower_bound", "exact"}
      PROVE  AvoidedAt(c.value - 1, c.k, c.l)
  <2> DEFINE f == Witnesses[c.witness.path]
  <2>1. /\ f # Absent /\ c.witness.path \in DOMAIN Witnesses
        /\ Len(f) = c.value - 1 /\ Avoids(f, c.k, c.l)
    BY <1>1 DEF PassesG2, HasWitness, GoodWitness, NeedsWitness
  <2>2. f \in Seq(Colors)
    BY <2>1, RecordFormat DEF FormatAssumption
  <2> HIDE DEF f
  <2>3. f \in [1 .. c.value - 1 -> Colors]
    BY <2>1, <2>2
  <2> QED
    BY <2>1, <2>3 DEF AvoidedAt
<1>2. ASSUME c.kind # "lower_bound"
      PROVE  ~AvoidedAt(c.value, c.k, c.l)
  <2>1. CASE NeedsRuns(c)
    <3>1. PICK path \in GoodRuns(c) : TRUE
      BY <2>1 DEF PassesG3, TwoOf, RunEncoders
    <3> QED
      BY <3>1, RunDecides, RefutedWhole
  <2>2. CASE ~NeedsRuns(c)
    <3>1. HasWave(c)
      BY <1>2, <2>2 DEF Kinds, NeedsRuns, KindAllowsWave, PassesWaves, WaveAccepted, HasWave
    <3> DEFINE m == Manifest(c.wave)
    <3>2. SameInstance(m, c)
      BY <3>1, OwnWave
    <3>3. /\ m.base = Formula(m.N, m.k, m.l, m.encoder, m.symmetryBreak)
          /\ UsableSplit(m.split, m.N)
          /\ \A cube \in CubeIds(m.split) :
                <<m.base, CubeLiterals(m.split, cube)>> \in Refuted
      BY <3>1, WaveDecides DEF HasWave
    <3>4. m.N = c.value /\ m.k = c.k /\ m.l = c.l
      BY <3>2 DEF SameInstance
    <3> HIDE DEF m
    <3> QED
      BY <3>3, <3>4, RefutedByCubes
  <2> QED
    BY <2>1, <2>2
<1> QED
  BY <1>1, <1>2 DEF IsTrue

\* The verified transcript of a claim that two encoders stand behind.
LEMMA TranscriptCounts ==
    ASSUME NEW c, ProofLevel(c) > 0
    PROVE  /\ ProofsVerified(c)
           /\ ProofLevel(c) >= DratReverified => repo.reverify /\ repo.tool
<1> DEFINE t == Transcripts[c.drat.transcript]
<1>1. c.drat # Absent /\ GoodTranscript(c, Shas(c))
  BY DEF ProofLevel, DratLevel
<1>2. ProofLevel(c) >= DratReverified => Reruns(t)
  BY <1>1 DEF ProofLevel, DratLevel, DratReverified, DratTranscript
<1>3. PICK path \in GoodRuns(c) : t.instance = RunLogs[path].sha256
  BY <1>1 DEF GoodTranscript, Shas
<1>4. ProofsVerified(c)
  BY <1>1, <1>3, RunDecides DEF ProofsVerified, GoodTranscript
<1> QED
  BY <1>2, <1>4 DEF Reruns

\* The proofs of a wave: every cube's verdict names one that a checker read.
LEMMA WaveProofsCount ==
    ASSUME NEW c, HasProofs(c), KindAllowsWave(c)
    PROVE  ProofsVerified(c)
<1> DEFINE m == Manifest(c.wave)
           docs == Verdicts[c.wave.verdicts].docs
           lines == Lines[c.wave.transcripts]
<1>1. /\ HasWave(c) /\ c.wave # Absent
      /\ c.wave.transcripts \in DOMAIN Lines
      /\ c.wave.transcripts.at = c.wave.manifest
      /\ OneLinePerCube(lines, m.split)
      /\ EveryProofRead(lines, docs, m.split)
  BY DEF HasProofs, HasWave, ProofsChecked
<1>2. SameInstance(m, c) /\ m = Waves[c.wave.transcripts.at]
  BY <1>1, OwnWave, WaveDecides DEF HasWave
<1>3. CheckedIn(c.wave) =
         {<<m.base, CubeLiterals(m.split, lines[i].cube), lines[i].digest>> :
             i \in {j \in DOMAIN lines : lines[j].shape /\ lines[j].verified}}
  BY <1>1, <1>2 DEF CheckedIn
<1>4. ASSUME NEW cube \in CubeIds(m.split)
      PROVE  \E i \in DOMAIN docs :
                /\ docs[i].cube = cube
                /\ <<m.base, CubeLiterals(m.split, cube), docs[i].digest>> \in CheckedIn(c.wave)
  <2>1. PICK i \in DOMAIN lines, j \in DOMAIN docs :
           /\ lines[i].cube = cube /\ docs[j].cube = cube
           /\ lines[i].verified /\ lines[i].digest = docs[j].digest
    BY <1>1 DEF EveryProofRead
  <2>2. lines[i].shape
    BY <1>1 DEF OneLinePerCube
  <2> QED
    BY <1>3, <2>1, <2>2
<1> QED
  BY <1>1, <1>2, <1>4 DEF ProofsVerified

\* What the levels of wave_evidence_level say: from unsat-dual up the wave is
\* confirmed, at the top its proofs were read as well.
LEMMA WaveLevels ==
    ASSUME NEW confirmed \in BOOLEAN, NEW proofs \in BOOLEAN
    PROVE  \/ WaveLevel(confirmed, proofs) = DratTranscript /\ confirmed /\ proofs
           \/ WaveLevel(confirmed, proofs) = UnsatDual /\ confirmed
           \/ WaveLevel(confirmed, proofs) = WaveDrat
           \/ WaveLevel(confirmed, proofs) = UnsatWave
<1>1. CASE confirmed /\ proofs
  BY <1>1, Zenon DEF WaveLevel
<1>2. CASE confirmed /\ ~proofs
  BY <1>2, Zenon DEF WaveLevel
<1>3. CASE ~confirmed /\ proofs
  BY <1>3, Zenon DEF WaveLevel
<1>4. CASE ~confirmed /\ ~proofs
  BY <1>4, Zenon DEF WaveLevel
<1> QED
  BY <1>1, <1>2, <1>3, <1>4, Zenon

\* A passed claim stands on what its kind and its level say.
LEMMA PassedEstablished ==
    ASSUME NEW c, WellFormed(c), Passed(c)
    PROVE  Established(c)
<1> USE DEF Witness, UnsatWave, WaveDrat, UnsatDual, DratTranscript, DratReverified
<1>1. c.level \in 1 .. 6
  BY DEF WellFormed
<1>2. CASE HasWitness(c) /\ c.level <= Witness
  BY <1>1, <1>2, KindDecided DEF Established
<1>3. CASE Dual(c) /\ c.level <= UnsatDual
  <2>1. TwoOf(DecidedBy(c))
    BY <1>3, RunsDecide DEF Dual, TwoOf
  <2> QED
    BY <1>1, <1>3, <2>1, KindDecided DEF Established, TwoOf
<1>4. CASE Dual(c) /\ c.level <= ProofLevel(c)
  <2>1. TwoOf(DecidedBy(c))
    BY <1>4, RunsDecide DEF Dual, TwoOf
  <2>2. ProofLevel(c) \in Nat
    BY DEF ProofLevel, DratLevel
  <2> QED
    BY <1>1, <1>4, <2>1, <2>2, KindDecided, TranscriptCounts DEF Established, TwoOf
<1>5. CASE HasWave(c) /\ c.level <= WaveLevel(HasSecond(c), HasProofs(c))
  <2> DEFINE level == WaveLevel(HasSecond(c), HasProofs(c))
  <2>1. DecidedBy(c) # {}
    BY <1>5, OwnWave DEF Passed
  <2>2. HasSecond(c) => TwoOf(DecidedBy(c))
    BY <1>5, SecondEncoder DEF Passed
  <2>3. HasProofs(c) => ProofsVerified(c)
    BY WaveProofsCount DEF Passed
  <2>4. HasSecond(c) \in BOOLEAN /\ HasProofs(c) \in BOOLEAN
    BY DEF HasSecond, HasProofs
  <2>5. /\ level \in 2 .. 5
        /\ level >= 4 => HasSecond(c)
        /\ level >= 5 => HasProofs(c)
    BY <2>4, WaveLevels
  <2> HIDE DEF level
  <2>6. c.level <= level
    BY <1>5 DEF level
  <2> QED
    BY <1>1, <2>1, <2>2, <2>3, <2>5, <2>6, KindDecided DEF Established
<1> QED
  BY <1>2, <1>3, <1>4, <1>5 DEF Passed, PassesG7

\* Of a record on which the gate exits 0 every claim passed, under an id of its
\* own.
LEMMA ExitZero ==
    ASSUME GateInv, exit = 0
    PROVE  /\ \A i \in DOMAIN repo.claims :
                 Passed(repo.claims[i]) /\ WellFormed(repo.claims[i])
           /\ \A i, j \in DOMAIN repo.claims :
                 repo.claims[i].id = repo.claims[j].id => i = j
<1>1. failures = {} /\ pc = "done" /\ at = Len(repo.claims) + 1
  BY RecordFormat DEF GateInv, TypeOK, FormatAssumption
<1>2. /\ Len(repo.claims) \in Nat
      /\ DOMAIN repo.claims = 1 .. Len(repo.claims)
      /\ \A i \in DOMAIN repo.claims :
            repo.claims[i].shape => WellFormed(repo.claims[i])
  BY ClaimIndex DEF GateInv
<1>3. \A i \in 1 .. at - 1 : Passed(repo.claims[i])
  BY <1>1 DEF GateInv, Spotless
<1>4. Distinct(repo.claims, at - 1)
  BY <1>1 DEF GateInv, Spotless, AfterG1
<1> QED
  BY <1>1, <1>2, <1>3, <1>4 DEF Passed, Distinct

-----------------------------------------------------------------------------

\* When verify_all.py exits 0 every claim of CLAIMS.json is well formed, has an
\* id of its own and is true of N(k, l), whatever artifacts the checkout holds
\* and whichever of them the claims name.
THEOREM ExitZeroIsTrue == Spec => []GateSound
<1>1. GateInv => GateSound
  BY ExitZero, PassedTrue DEF GateSound, RecordTrue, GateInv, Passed
<1> QED
  BY <1>1, GateInvariant, PTL

\* When verify_all.py exits 0 every claim stands on the encoders, and on the
\* proofs read by a checker, that its kind and its evidence level say.
THEOREM ExitZeroIsEarned == Spec => []LevelsEarned
<1>1. GateInv => LevelsEarned
  BY ExitZero, PassedEstablished DEF LevelsEarned
<1> QED
  BY <1>1, GateInvariant, PTL
=============================================================================
