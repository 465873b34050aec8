----------------------------- MODULE PipelineProofs -----------------------------
(***************************************************************************)
(* Proofs about Pipeline, for any facts, any estate and any number of      *)
(* drafts: the three properties of its run, from one invariant.            *)
(***************************************************************************)
EXTENDS Pipeline, WellFoundedInduction, TLAPS

(* A key that is neither contested nor in conflict is not disputed: who    *)
(* speaks about its present value says the same, in whatever order the     *)
(* claims are listed.                                                      *)
LEMMA AgreedIsUndisputed ==
    ASSUME NEW f \in FactSets, NEW key \in Keys,
           ~Contested(f[key]), ~Conflicted(f[key])
    PROVE  ~Disputed(f[key])
<1> DEFINE fact == f[key]
<1>1. /\ fact.stands = [i \in 1 .. Len(fact.stands) |-> fact.stands[i]]
      /\ Len(fact.stands) \in Nat
      /\ DOMAIN fact.releases \subseteq Nat
      /\ \A i \in DOMAIN fact.releases : fact.releases[i].at \in Nat
  BY FactAssumption
<1>2. fact.now # None
  BY DEF Contested
<1>3. fact.other = None \/ fact.other = fact.now
  BY <1>2 DEF Contested, LowerTierDisagrees
<1>4. ~\E s, t \in Tiers : /\ Claim(fact, s) # None /\ Claim(fact, t) # None
                           /\ Claim(fact, s) # Claim(fact, t)
  BY <1>3 DEF Tiers, Claim
<1>5. ~\E i, j \in DOMAIN fact.stands : fact.stands[i] # fact.stands[j]
  <2>1. \A i \in 2 .. Len(fact.stands) : fact.stands[i] = fact.stands[1]
    BY DEF Contested, DoubleClaim
  <2>2. DOMAIN fact.stands = 1 .. Len(fact.stands)
    BY <1>1
  <2>3. \A i \in DOMAIN fact.stands : i = 1 \/ i \in 2 .. Len(fact.stands)
    BY <1>1, <2>2
  <2> QED BY <2>1, <2>3
<1>6. ASSUME NEW i \in DOMAIN fact.releases,
             fact.releases[i].from = fact.now, fact.releases[i].to # fact.now,
             \A j \in DOMAIN fact.releases \ {i} :
               fact.releases[j].at < fact.releases[i].at
      PROVE  FALSE
  <2>1. Current(fact) = fact.now
    BY <1>3 DEF Current
  <2>2. IsLatest(fact, i)
    <3> SUFFICES ASSUME NEW j \in DOMAIN fact.releases
                 PROVE  /\ fact.releases[j].at <= fact.releases[i].at
                        /\ j < i => fact.releases[j].at < fact.releases[i].at
      BY DEF IsLatest
    <3>1. CASE j = i
      BY <3>1, <1>1
    <3>2. CASE j # i
      BY <3>2, <1>1, <1>6
    <3> QED BY <3>1, <3>2
  <2>3. Contradicted(fact)
    BY <2>1, <2>2, <1>2, <1>6 DEF Contradicted
  <2> QED BY <2>3 DEF Conflicted
<1> QED BY <1>2, <1>4, <1>5, <1>6 DEF Disputed

(* Of some numbers there is a first.                                       *)
LEMMA FirstIsOne ==
    ASSUME NEW S \in SUBSET Nat, S # {}
    PROVE  /\ FirstOf(S) \in S
           /\ \A v \in S : FirstOf(S) <= v
<1>1. PICK n \in S : \A v \in S : ~(<<v, n>> \in OpToRel(<, Nat))
  BY WFMin, NatLessThanWellFounded, Zenon
<1>2. \A v \in S : ~(v < n)
  BY <1>1, Zenon DEF OpToRel
<1>3. \A v \in S : n <= v
  BY <1>2
<1> QED BY <1>3 DEF FirstOf

HasUnits(content, U) ==
    content = [description |-> content.description, text |-> [u \in U |-> content.text[u]]]

With(content, U, s, new) ==
    [description |-> content.description,
     text |-> [u \in U |-> IF u = s THEN new ELSE content.text[u]]]

(* Replacing a text that is there replaces one unit that reads so.         *)
LEMMA ReplacedOne ==
    ASSUME NEW U \in SUBSET Nat, NEW content, NEW old, NEW new,
           HasUnits(content, U),
           Found(content.text, old) # {}
    PROVE  \E s \in U :
             /\ content.text[s] = old
             /\ Replaced(content, old, new) = With(content, U, s, new)
<1> DEFINE s == FirstOf(Found(content.text, old))
<1>1. DOMAIN content.text = U
  BY DEF HasUnits
<1>2. Found(content.text, old) \in SUBSET Nat
  BY <1>1 DEF Found
<1>3. s \in Found(content.text, old)
  BY <1>2, FirstIsOne
<1>4. s \in U /\ content.text[s] = old
  BY <1>1, <1>3 DEF Found
<1> HIDE DEF s
<1>5. [content EXCEPT !.text[s] = new] = With(content, U, s, new)
  BY <1>1, <1>4 DEF HasUnits, With
<1>6. Replaced(content, old, new) = [content EXCEPT !.text[s] = new]
  BY DEF Replaced, s
<1> QED BY <1>4, <1>5, <1>6

-----------------------------------------------------------------------------
(***************************************************************************)
(* The invariant.  A file in whatever state has the units of its path,     *)
(* each with a text whose prose is that of the input; what still is to be  *)
(* substituted is not yet reported; a draft is the file of the estate with *)
(* its unit's text replaced.                                               *)
(***************************************************************************)
UnitsIn(path) == {u \in UnitsOf(estate) : Path(u) = path}

IsFile(file, path) ==
    /\ HasUnits(file, UnitsIn(path))
    /\ \A u \in UnitsIn(path) : IsBody(file.text[u]) /\ file.text[u].prose = Body(u).prose

InputOK ==
    /\ facts \in FactSets /\ estate \in Estates
    /\ \A u \in UnitsOf(estate) : \A m \in marks[u] : m.place \in {0} \cup Places
    /\ files = [path \in PathsOf(estate) |-> files[path]]
    /\ \A path \in PathsOf(estate) :
         /\ IsFile(files[path], path)
         /\ mutated = None \/ path # Path(mutated) => files[path] = Content(estate, path)

Shapes ==
    /\ phase \in {"pipeline", "drafting", "published", "failed"}
    /\ todo \subseteq Work
    /\ \A i \in impacts : i.unit \in UnitsOf(estate)
    /\ DOMAIN pending \subseteq PathsOf(estate)
    /\ \A path \in DOMAIN pending : IsFile(pending[path], path)

StillDue == \A i \in todo : Substitutes(i) => Impact(i) \notin impacts

DraftRecord(i) == [of |-> i, path |-> Path(i.unit), after |-> DraftedFile(i)]

DraftsOK ==
    /\ phase \in {"pipeline", "failed"} => drafts = <<>>
    /\ drafts \in Seq({DraftRecord(i) : i \in impacts})

Inv == /\ InputOK /\ Shapes /\ StillDue /\ DraftsOK
       /\ DisputedKeysUntouched /\ SubstitutionsLand /\ PublishedIsProposed

(* What every item of the work is, and what substitutes is tied by a       *)
(* marker to an undisputed fact.                                           *)
LEMMA WorkItems ==
    ASSUME NEW i \in Work
    PROVE  /\ i = [key |-> i.key, tier |-> i.tier, to |-> i.to, on |-> i.on]
           /\ i.key \in Keys /\ i.on.key = i.key
           /\ i.on.unit \in UnitsOf(estate)
           /\ i.on \in Declared(i.on.unit) \/ i.on.mode = "derived_prose"
<1>1. PICK d \in Deltas, u \in UnitsOf(estate) :
        \E p \in Projections(u) :
          i = [key |-> d.key, tier |-> d.tier, to |-> Claim(facts[d.key], d.tier),
               on |-> p]
  BY DEF Work
<1>2. PICK p \in Projections(u) :
        i = [key |-> d.key, tier |-> d.tier, to |-> Claim(facts[d.key], d.tier), on |-> p]
  BY <1>1
<1>3. d.key \in Keys
  BY DEF Deltas
<1>4. i.on.key = i.key
  BY DEF Work
<1>5. p \in Declared(u) \/ p \in Restated(u)
  BY DEF Projections
<1>6. p \in Declared(u) => p.unit = u
  BY DEF Declared
<1>7. p \in Restated(u) => p.unit = u /\ p.mode = "derived_prose"
  BY DEF Restated
<1> QED BY <1>2, <1>3, <1>4, <1>5, <1>6, <1>7

LEMMA DeclaredMarks ==
    ASSUME NEW u, NEW p \in Declared(u)
    PROVE  /\ p = [unit |-> u, key |-> p.key, place |-> p.place,
                   mode |-> IF u \in estate.generated THEN "generated"
                            ELSE "mechanical_value"]
           /\ \E m \in marks[u] : m.key = p.key /\ m.place = p.place
BY DEF Declared

LEMMA Substituting ==
    ASSUME NEW i, Substitutes(i)
    PROVE  /\ ~Contested(facts[i.key]) /\ ~Conflicted(facts[i.key])
           /\ Mechanical(i.on) /\ i.on.place # 0
           /\ i.on.unit \notin estate.generated
<1>1. Classify(i) = "DETERMINISTIC_REGEN"
  BY DEF Substitutes
<1>2. ~Contested(facts[i.key]) /\ Mechanical(i.on)
  BY <1>1 DEF Classify
<1> QED BY <1>2 DEF Substitutes

LEMMA SubstitutingIsTied ==
    ASSUME InputOK, NEW i \in Work, Substitutes(i)
    PROVE  /\ i.on \in Declared(i.on.unit)
           /\ \E m \in marks[i.on.unit] : m.place = i.on.place /\ ~Disputed(facts[m.key])
<1>1. i.on \in Declared(i.on.unit)
  BY WorkItems, Substituting DEF Mechanical
<1>2. PICK m \in marks[i.on.unit] : m.key = i.on.key /\ m.place = i.on.place
  BY <1>1, DeclaredMarks
<1>3. ~Disputed(facts[i.key])
  BY WorkItems, Substituting, AgreedIsUndisputed DEF InputOK
<1> QED BY <1>1, <1>2, <1>3, WorkItems

(* Items that substitute and are reported alike are one item.              *)
LEMMA ReportedOnce ==
    ASSUME InputOK, NEW i \in Work, NEW j \in Work, Substitutes(i), Impact(j) = Impact(i)
    PROVE  j = i
<1>1. /\ j.key = i.key /\ j.tier = i.tier /\ j.to = i.to
      /\ j.on.unit = i.on.unit /\ j.on.place = i.on.place
      /\ Classify(j) = Classify(i)
  BY DEF Impact
<1>2. Classify(j) = "DETERMINISTIC_REGEN"
  BY <1>1 DEF Substitutes
<1>3. Mechanical(j.on)
  BY <1>2 DEF Classify
<1>4. j.on \in Declared(j.on.unit)
  BY <1>3, WorkItems DEF Mechanical
<1>5. i.on \in Declared(i.on.unit)
  BY SubstitutingIsTied
<1>6. j.on = i.on
  BY <1>1, <1>4, <1>5, DeclaredMarks, WorkItems
<1> QED BY <1>1, <1>6, WorkItems

-----------------------------------------------------------------------------
(* The initial states: the working copy and what the generators seed.      *)
LEMMA ContentIs ==
    ASSUME NEW path
    PROVE  Content(estate, path) =
             [description |-> estate.description[path],
              text |-> [u \in UnitsIn(path) |-> estate.body[u]]]
BY DEF Content, UnitsIn, Path

LEMMA UnitsAreNumbers ==
    ASSUME estate \in Estates, NEW path
    PROVE  UnitsIn(path) \in SUBSET Nat
BY EstateAssumption DEF UnitsIn, UnitsOf

LEMMA StartInputs ==
    ASSUME Start
    PROVE  InputOK
<1>1. /\ facts \in FactSets /\ estate \in Estates
      /\ mutated \in {None} \cup UnitsOf(estate)
  BY DEF Start
<1>2. files = [path \in PathsOf(estate) |-> files[path]]
  BY DEF Start
<1>3. \A u \in UnitsOf(estate) : IsBody(estate.body[u])
  BY <1>1, EstateAssumption DEF UnitsOf
<1>4. ASSUME NEW path \in PathsOf(estate)
      PROVE  /\ HasUnits(files[path], UnitsIn(path))
             /\ \A u \in UnitsIn(path) : IsBody(files[path].text[u])
             /\ mutated = None \/ path # Path(mutated) => files[path] = Content(estate, path)
  <2>1. CASE mutated = None \/ path # Path(mutated)
    <3>1. files[path] = Content(estate, path)
      BY <2>1 DEF Start
    <3>2. files[path] = [description |-> estate.description[path],
                         text |-> [u \in UnitsIn(path) |-> estate.body[u]]]
      BY <3>1, ContentIs
    <3>3. \A u \in UnitsIn(path) : IsBody(estate.body[u])
      BY <1>3 DEF UnitsIn
    <3> QED BY <3>1, <3>2, <3>3 DEF HasUnits
  <2>2. CASE mutated # None /\ path = Path(mutated)
    <3> DEFINE before == Content(estate, path)
               new == Hypothetical(mutated)
    <3>1. files[path] = Replaced(before, estate.body[mutated], new)
      BY <2>2 DEF Start
    <3>2. /\ HasUnits(before, UnitsIn(path))
          /\ \A u \in UnitsIn(path) : before.text[u] = estate.body[u]
      BY ContentIs DEF HasUnits
    <3>3. mutated \in UnitsIn(path)
      BY <1>1, <2>2 DEF UnitsIn
    <3>4. Found(before.text, estate.body[mutated]) # {}
      BY <3>2, <3>3 DEF Found, HasUnits
    <3> HIDE DEF before, new
    <3>5. UnitsIn(path) \in SUBSET Nat
      BY <1>1, UnitsAreNumbers
    <3>6. PICK s \in UnitsIn(path) : files[path] = With(before, UnitsIn(path), s, new)
      BY <3>1, <3>2, <3>4, <3>5, ReplacedOne
    <3>7. /\ HasUnits(files[path], UnitsIn(path))
          /\ \A u \in UnitsIn(path) :
               files[path].text[u] = IF u = s THEN new ELSE before.text[u]
      BY <3>6 DEF With, HasUnits
    <3>8. IsBody(new)
      <4>1. IsBody(estate.body[mutated])
        BY <1>3, <3>3 DEF UnitsIn
      <4> QED BY <4>1 DEF IsBody, Hypothetical, new
    <3>9. \A u \in UnitsIn(path) : IsBody(before.text[u])
      BY <1>3, <3>2 DEF UnitsIn
    <3> QED BY <2>2, <3>7, <3>8, <3>9
  <2> QED BY <2>1, <2>2
<1>5. ASSUME NEW path \in PathsOf(estate), NEW u \in UnitsIn(path)
      PROVE  files[path].text[u].prose = Body(u).prose
  BY DEF UnitsIn, Body
<1>6. ASSUME NEW u \in UnitsOf(estate), NEW m \in marks[u]
      PROVE  m.place \in {0} \cup Places
  <2>1. m \in estate.marks[u]
    BY DEF Start
  <2> QED BY <1>1, <2>1, EstateAssumption DEF UnitsOf
<1> QED BY <1>1, <1>2, <1>4, <1>5, <1>6 DEF InputOK, IsFile

IsCell(c) == c = [shown |-> c.shown, coarse |-> c.coarse]

LEMMA CellShows ==
    ASSUME NEW c, IsCell(c), NEW v
    PROVE  [c EXCEPT !.shown = v] = [shown |-> v, coarse |-> c.coarse]
BY DEF IsCell

LEMMA BodyHasCells ==
    ASSUME NEW b, IsBody(b), NEW place \in Places
    PROVE  IsCell(b.places[place])
<1> DEFINE Cells == [p \in Places |-> [shown |-> b.places[p].shown,
                                      coarse |-> b.places[p].coarse]]
<1>1. b = [prose |-> b.prose, places |-> Cells]
  BY DEF IsBody
<1> HIDE DEF Cells
<1>2. b.places = Cells
  BY <1>1
<1>3. b.places[place] = [shown |-> b.places[place].shown, coarse |-> b.places[place].coarse]
  <2>1. Cells[place] = [shown |-> b.places[place].shown, coarse |-> b.places[place].coarse]
    BY DEF Cells
  <2> QED BY <1>2, <2>1
<1> QED BY <1>3 DEF IsCell

LEMMA CellsMakeBody ==
    ASSUME NEW b, NEW Cells, b = [prose |-> b.prose, places |-> Cells],
           Cells = [place \in Places |-> Cells[place]],
           \A place \in Places : IsCell(Cells[place])
    PROVE  IsBody(b)
<1>1. Cells = [place \in Places |-> [shown  |-> Cells[place].shown,
                                     coarse |-> Cells[place].coarse]]
  BY DEF IsCell
<1>2. b.places = Cells
  OBVIOUS
<1> QED BY <1>1, <1>2 DEF IsBody

LEMMA RegeneratedFile ==
    ASSUME InputOK, NEW path \in PathsOf(estate)
    PROVE  /\ IsFile(Regenerated(path), path)
           /\ \A u \in UnitsIn(path) \ estate.generated :
                Regenerated(path).text[u] = Body(u)
<1>1. IsFile(files[path], path)
  BY DEF InputOK
<1>2. DOMAIN files[path].text = UnitsIn(path)
  BY <1>1 DEF IsFile, HasUnits
<1>3. HasUnits(Regenerated(path), UnitsIn(path))
  BY <1>2 DEF Regenerated, HasUnits
<1>4. ASSUME NEW u \in UnitsIn(path), u \notin estate.generated
      PROVE  Regenerated(path).text[u] = files[path].text[u]
  BY <1>2, <1>4 DEF Regenerated
<1>5. ASSUME NEW u \in UnitsIn(path), u \in estate.generated
      PROVE  /\ IsBody(Regenerated(path).text[u])
             /\ Regenerated(path).text[u].prose = Body(u).prose
  <2>1. Regenerated(path).text[u] =
          [files[path].text[u] EXCEPT !.places = [place \in Places |-> Cell(u, place)]]
    BY <1>2, <1>5 DEF Regenerated
  <2>2. IsBody(files[path].text[u]) /\ files[path].text[u].prose = Body(u).prose
    BY <1>1 DEF IsFile
  <2>3. Body(u) = files[path].text[u]
    BY DEF UnitsIn, Body
  <2>4. ASSUME NEW place \in Places PROVE IsCell(Cell(u, place))
    <3>1. IsCell(Body(u).places[place])
      BY <2>2, <2>3, BodyHasCells
    <3>2. \A v : IsCell([shown |-> v, coarse |-> FALSE])
      BY DEF IsCell
    <3> QED BY <3>1, <3>2 DEF Cell
  <2>5. Regenerated(path).text[u] =
          [prose |-> Body(u).prose, places |-> [place \in Places |-> Cell(u, place)]]
    BY <2>1, <2>2, <2>3 DEF IsBody
  <2> DEFINE Cells == [place \in Places |-> Cell(u, place)]
  <2>6. Regenerated(path).text[u] = [prose |-> Regenerated(path).text[u].prose,
                                     places |-> Cells]
    BY <2>5
  <2>7. \A place \in Places : IsCell(Cells[place])
    BY <2>4
  <2> HIDE DEF Cells
  <2>8. Cells = [place \in Places |-> Cells[place]]
    BY DEF Cells
  <2> QED BY <2>5, <2>6, <2>7, <2>8, CellsMakeBody
<1>6. \A u \in UnitsIn(path) : files[path].text[u] = Body(u)
  BY DEF UnitsIn, Body
<1>7. \A u \in UnitsIn(path) : /\ IsBody(Regenerated(path).text[u])
                               /\ Regenerated(path).text[u].prose = Body(u).prose
  BY <1>1, <1>4, <1>5 DEF IsFile
<1> QED BY <1>3, <1>4, <1>6, <1>7 DEF IsFile

LEMMA SingleIsInFile ==
    ASSUME NEW u \in Single
    PROVE  u \in UnitsIn(Path(u)) /\ u \in UnitsOf(estate) /\ Path(u) \in PathsOf(estate)
           /\ u \notin estate.generated
BY DEF Single, UnitsIn, PathsOf, Path

LEMMA InitInv ==
    ASSUME Init
    PROVE  Inv
<1>1. InputOK
  BY StartInputs DEF Init
<1>2. /\ phase = "pipeline" /\ todo = Work /\ impacts = {} /\ drafts = <<>>
      /\ pending = [path \in {q \in PathsOf(estate) : Regenerated(q) # files[q]}
                      |-> Regenerated(path)]
  BY DEF Init
<1>3. Shapes
  BY <1>1, <1>2, RegeneratedFile DEF Shapes
<1>4. StillDue /\ PublishedIsProposed
  BY <1>2 DEF StillDue, PublishedIsProposed
<1>5. DraftsOK
  <2>1. DraftsOK = /\ phase \in {"pipeline", "failed"} => drafts = <<>>
                   /\ drafts \in Seq({DraftRecord(i) : i \in impacts})
    BY DEF DraftsOK
  <2> QED BY <1>2, <2>1
<1>6. ASSUME NEW u \in Single
      PROVE  /\ Path(u) \in DOMAIN pending => pending[Path(u)].text[u] = Body(u)
             /\ Base(Path(u)).text[u] = Body(u)
  <2>1. Path(u) \in DOMAIN pending => pending[Path(u)].text[u] = Body(u)
    BY <1>1, <1>2, RegeneratedFile, SingleIsInFile
  <2> QED BY <2>1 DEF Base, Body
<1>7. DisputedKeysUntouched
  BY <1>6 DEF DisputedKeysUntouched
<1>8. SubstitutionsLand
  <2>1. \A u \in Single : Carries(Base(Path(u)).text[u], u)
    BY <1>2, <1>6 DEF Carries, Proposed
  <2> QED BY <1>2, <2>1 DEF SubstitutionsLand
<1> QED BY <1>1, <1>3, <1>4, <1>5, <1>7, <1>8 DEF Inv

-----------------------------------------------------------------------------
(* What the steps leave alone: no step writes the inputs, and what is      *)
(* computed from them alone stays as it is.                                *)
LEMMA SameInputs ==
    ASSUME UNCHANGED inputs
    PROVE  /\ UnitsOf(estate)' = UnitsOf(estate) /\ PathsOf(estate)' = PathsOf(estate)
           /\ Single' = Single
           /\ \A u : /\ Path(u)' = Path(u) /\ Body(u)' = Body(u)
                     /\ Twin(u)' <=> Twin(u)
           /\ \A path : UnitsIn(path)' = UnitsIn(path)
           /\ \A file, path : IsFile(file, path)' <=> IsFile(file, path)
           /\ InputOK' <=> InputOK
<1>1. /\ estate' = estate /\ facts' = facts /\ files' = files /\ marks' = marks
      /\ mutated' = mutated
  BY DEF inputs
<1>2. UnitsOf(estate)' = UnitsOf(estate) /\ PathsOf(estate)' = PathsOf(estate)
  BY <1>1 DEF UnitsOf, PathsOf
<1>3. \A u : Path(u)' = Path(u) /\ Body(u)' = Body(u)
  BY <1>1 DEF Path, Body
<1>4. \A u : Twin(u)' <=> Twin(u)
  BY <1>2, <1>3 DEF Twin
<1>5. Single' = Single
  BY <1>1, <1>2, <1>4 DEF Single
<1>6. \A path : UnitsIn(path)' = UnitsIn(path)
  BY <1>2, <1>3 DEF UnitsIn
<1>7. \A file, path : IsFile(file, path)' <=> IsFile(file, path)
  BY <1>3, <1>6 DEF IsFile
<1>8. InputOK' <=> InputOK
  BY <1>1, <1>2, <1>3, <1>7 DEF InputOK
<1> QED BY <1>2, <1>3, <1>4, <1>5, <1>6, <1>7, <1>8

LEMMA SameWork ==
    ASSUME UNCHANGED inputs
    PROVE  /\ Work' = Work
           /\ \A i : /\ Impact(i)' = Impact(i)
                     /\ Substitutes(i)' <=> Substitutes(i)
                     /\ DraftRecord(i)' = DraftRecord(i)
                     /\ Drafted(i)' = Drafted(i)
<1>1. /\ estate' = estate /\ facts' = facts /\ files' = files /\ marks' = marks
      /\ mutated' = mutated
  BY DEF inputs
<1>2. \A u : Path(u)' = Path(u) /\ Body(u)' = Body(u)
  BY <1>1 DEF Path, Body
<1>3. \A i : Agrees(i)' <=> Agrees(i)
  BY <1>2 DEF Agrees, Shown
<1>4. \A i : Classify(i)' = Classify(i)
  BY <1>1, <1>3 DEF Classify
<1>5. \A i : Impact(i)' = Impact(i) /\ (Substitutes(i)' <=> Substitutes(i))
  BY <1>1, <1>4 DEF Impact, Substitutes
<1>6. \A i : Drafted(i)' = Drafted(i)
  BY <1>2 DEF Drafted
<1>7. \A i : DraftedFile(i)' = DraftedFile(i)
  BY <1>1, <1>2, <1>6 DEF DraftedFile
<1>8. \A i : DraftRecord(i)' = DraftRecord(i)
  BY <1>2, <1>7 DEF DraftRecord
<1>9. Work' = Work
  <2>1. \A u : Declared(u)' = Declared(u)
    BY <1>1 DEF Declared
  <2>2. \A v : Claimants(v)' = Claimants(v)
    BY <1>1 DEF Claimants
  <2>3. \A u, place, key : Restates(u, place, key)' <=> Restates(u, place, key)
    BY <1>1, <1>2, <2>2 DEF Restates, Shown
  <2>4. \A u : Restated(u)' = Restated(u)
    BY <1>1, <2>3 DEF Restated
  <2>5. \A u : Projections(u)' = Projections(u)
    BY <2>1, <2>4 DEF Projections
  <2>6. Deltas' = Deltas
    BY <1>1 DEF Deltas
  <2> QED BY <1>1, <2>5, <2>6 DEF Work, UnitsOf
<1> QED BY <1>5, <1>6, <1>8, <1>9

(* What a turn of the loop adds to the substitutions reported for a unit.  *)
LEMMA NewlyProposed ==
    ASSUME NEW i, Take(i), NEW u \in Single
    PROVE  Proposed(u)' = Proposed(u) \cup
             (IF Substitutes(i) /\ i.on.unit = u THEN {Impact(i)} ELSE {})
<1>1. impacts' = impacts \cup {Impact(i)}
  BY DEF Take
<1>2. u \notin estate.generated
  BY DEF Single
<1>3. Proposed(u)' = {j \in impacts' : /\ j.unit = u /\ j.place # 0 /\ ~j.blocked
                                      /\ j.action = "DETERMINISTIC_REGEN"}
  BY DEF Proposed
<1>4. (/\ Impact(i).unit = u /\ Impact(i).place # 0 /\ ~Impact(i).blocked
       /\ Impact(i).action = "DETERMINISTIC_REGEN")
      <=> Substitutes(i) /\ i.on.unit = u
  BY <1>2 DEF Impact, Substitutes
<1> HIDE DEF Impact
<1> QED BY <1>1, <1>3, <1>4 DEF Proposed

LEMMA TakePreserves ==
    ASSUME Inv, NEW i \in todo, Take(i), phase' \in {"pipeline", "failed"}
    PROVE  /\ InputOK' /\ StillDue' /\ DraftsOK' /\ PublishedIsProposed'
           /\ todo' \subseteq Work' /\ \A j \in impacts' : j.unit \in UnitsOf(estate)'
           /\ i \in Work
<1>1. UNCHANGED inputs /\ todo' = todo \ {i} /\ impacts' = impacts \cup {Impact(i)}
      /\ drafts' = drafts /\ phase = "pipeline"
  BY DEF Take
<1>2. InputOK /\ todo \subseteq Work /\ i \in Work
  BY DEF Inv, Shapes
<1>3. InputOK'
  BY <1>1, <1>2, SameInputs
<1>4. StillDue'
  <2> SUFFICES ASSUME NEW j \in todo', Substitutes(j)' PROVE (Impact(j) \notin impacts)'
    BY DEF StillDue
  <2>1. j \in todo /\ j # i /\ j \in Work /\ Substitutes(j) /\ Impact(j)' = Impact(j)
    BY <1>1, <1>2, SameWork
  <2>2. Impact(j) \notin impacts
    BY <2>1 DEF Inv, StillDue
  <2>3. Impact(j) # Impact(i)
    BY <1>2, <2>1, ReportedOnce
  <2> QED BY <1>1, <2>1, <2>2, <2>3
<1>5. drafts' = <<>>
  BY <1>1 DEF Inv, DraftsOK
<1>6. DraftsOK'
  BY <1>5 DEF DraftsOK
<1>7. PublishedIsProposed'
  BY DEF PublishedIsProposed
<1>8. todo' \subseteq Work'
  BY <1>1, <1>2, SameWork
<1>9. \A j \in impacts' : j.unit \in UnitsOf(estate)'
  <2>1. Impact(i).unit \in UnitsOf(estate)
    BY <1>2, WorkItems DEF Impact
  <2>2. \A j \in impacts : j.unit \in UnitsOf(estate)
    BY DEF Inv, Shapes
  <2> QED BY <1>1, <2>1, <2>2, SameInputs
<1> QED BY <1>2, <1>3, <1>4, <1>6, <1>7, <1>8, <1>9

-----------------------------------------------------------------------------
(* The turns of the loop.                                                  *)
LEMMA VisitInv ==
    ASSUME Inv, NEW i \in todo, Visit(i)
    PROVE  Inv'
<1>1. Take(i) /\ ~Substitutes(i) /\ phase' = phase /\ pending' = pending
  BY DEF Visit
<1>2. UNCHANGED inputs /\ phase = "pipeline"
  BY <1>1 DEF Take
<1>3. /\ InputOK' /\ StillDue' /\ DraftsOK' /\ PublishedIsProposed'
      /\ todo' \subseteq Work' /\ \A j \in impacts' : j.unit \in UnitsOf(estate)'
  BY <1>1, <1>2, TakePreserves
<1>4. Shapes'
  BY <1>1, <1>2, <1>3, SameInputs DEF Inv, Shapes
<1>5. DisputedKeysUntouched'
  <2>1. DisputedKeysUntouched
    BY DEF Inv
  <2> QED BY <1>1, <1>2, <2>1, SameInputs DEF DisputedKeysUntouched, inputs
<1>6. \A u \in Single : Proposed(u)' = Proposed(u)
  BY <1>1, NewlyProposed
<1>7. SubstitutionsLand'
  <2>1. \A u \in Single : Carries(Base(Path(u)).text[u], u)
    BY <1>2 DEF Inv, SubstitutionsLand
  <2>2. ASSUME NEW u \in Single
        PROVE  Carries(Base(Path(u)).text[u], u)'
    <3>1. Base(Path(u))' = Base(Path(u))
      BY <1>1, <1>2, SameInputs DEF Base, inputs
    <3>2. Path(u)' = Path(u) /\ Body(u)' = Body(u) /\ Proposed(u)' = Proposed(u)
      BY <1>2, <1>6, SameInputs
    <3>3. Carries(Base(Path(u)).text[u], u)
      BY <2>1
    <3> QED BY <3>1, <3>2, <3>3 DEF Carries
  <2> QED BY <1>1, <1>2, <2>2, SameInputs DEF SubstitutionsLand
<1> QED BY <1>3, <1>4, <1>5, <1>7 DEF Inv

(* Where a body is not found, a place of it was substituted before.        *)
LEMMA ThrowInv ==
    ASSUME Inv, NEW i \in todo, Throw(i)
    PROVE  Inv'
<1>1. Take(i) /\ Substitutes(i) /\ phase' = "failed" /\ pending' = pending
  BY DEF Throw
<1>2. UNCHANGED inputs /\ phase = "pipeline" /\ impacts' = impacts \cup {Impact(i)}
  BY <1>1 DEF Take
<1>3. /\ InputOK' /\ StillDue' /\ DraftsOK' /\ PublishedIsProposed' /\ i \in Work
      /\ todo' \subseteq Work' /\ \A j \in impacts' : j.unit \in UnitsOf(estate)'
  BY <1>1, <1>2, TakePreserves
<1>4. Shapes'
  BY <1>1, <1>2, <1>3, SameInputs DEF Inv, Shapes
<1>5. DisputedKeysUntouched'
  <2>1. DisputedKeysUntouched
    BY DEF Inv
  <2> QED BY <1>1, <1>2, <2>1, SameInputs DEF DisputedKeysUntouched, inputs
<1>6. SubstitutionsLand'
  <2> DEFINE u == i.on.unit
             text == Base(Path(u)).text
  <2>1. u \in UnitsOf(estate) /\ u \notin estate.generated
    BY <1>1, <1>3, WorkItems, Substituting
  <2>2. CASE Twin(u)
    BY <1>1, <1>2, <2>1, <2>2, SameInputs DEF SubstitutionsLand
  <2>3. CASE ~Twin(u)
    <3>1. u \in Single
      BY <2>1, <2>3 DEF Single
    <3>2. Carries(text[u], u)
      BY <1>2, <3>1 DEF Inv, SubstitutionsLand
    <3>3. IsFile(Base(Path(u)), Path(u)) /\ IsBody(Body(u))
      <4>1. Path(u) \in PathsOf(estate) /\ u \in UnitsIn(Path(u))
        BY <3>1, SingleIsInFile
      <4> QED BY <4>1 DEF Inv, InputOK, Shapes, IsFile, Base, Body
    <3>4. u \in DOMAIN text /\ IsBody(text[u]) /\ IsBody(Body(u))
      <4>1. u \in UnitsIn(Path(u))
        BY <3>1, SingleIsInFile
      <4> QED BY <3>3, <4>1 DEF IsFile, HasUnits
    <3>5. text[u] # Body(u)
      <4>1. Found(text, Body(u)) = {}
        BY DEF Throw
      <4> QED BY <3>4, <4>1 DEF Found
    <3>6. PICK place \in Places : text[u].places[place] # Body(u).places[place]
      <4>1. text[u].prose = Body(u).prose
        BY <3>2 DEF Carries
      <4> HIDE DEF text, u
      <4> QED BY <3>4, <3>5, <4>1 DEF IsBody
    <3>7. PICK j \in Proposed(u) : TRUE
      BY <3>2, <3>6 DEF Carries
    <3>8. j # Impact(i)
      BY <1>1, <3>7 DEF Inv, StillDue, Proposed
    <3>9. Proposed(u)' = Proposed(u) \cup {Impact(i)}
      BY <1>1, <3>1, NewlyProposed
    <3> QED BY <1>1, <1>2, <2>1, <3>7, <3>8, <3>9, SameInputs DEF SubstitutionsLand
  <2> QED BY <2>2, <2>3
<1> QED BY <1>3, <1>4, <1>5, <1>6 DEF Inv

(* The text a substitution makes of a body.                                *)
NewBody(i) ==
    [Body(i.on.unit) EXCEPT !.places[i.on.place].shown =
       Rendered(i.to, Body(i.on.unit).places[i.on.place].coarse)]

LEMMA NewBodyIs ==
    ASSUME NEW i, IsBody(Body(i.on.unit)), i.on.place \in Places
    PROVE  /\ IsBody(NewBody(i))
           /\ NewBody(i).prose = Body(i.on.unit).prose
           /\ \A place \in Places \ {i.on.place} :
                NewBody(i).places[place] = Body(i.on.unit).places[place]
           /\ NewBody(i).places[i.on.place].shown =
                Rendered(i.to, Body(i.on.unit).places[i.on.place].coarse)
           /\ NewBody(i).places[i.on.place].coarse =
                Body(i.on.unit).places[i.on.place].coarse
<1> DEFINE body  == Body(i.on.unit)
           shown == Rendered(i.to, body.places[i.on.place].coarse)
           cell  == [body.places[i.on.place] EXCEPT !.shown = shown]
           Cells == [body.places EXCEPT ![i.on.place] = cell]
<1>1. NewBody(i) = [body EXCEPT !.places[i.on.place].shown = shown]
  BY DEF NewBody
<1>2. /\ body = [prose |-> body.prose, places |-> body.places]
      /\ body.places = [place \in Places |-> body.places[place]]
  BY DEF IsBody
<1>3. \A place \in Places : IsCell(body.places[place])
  BY BodyHasCells
<1> HIDE DEF body, shown
<1>4. cell = [shown |-> shown, coarse |-> body.places[i.on.place].coarse]
  BY <1>3, CellShows
<1>5. NewBody(i) = [prose |-> body.prose, places |-> Cells]
  BY <1>1, <1>2
<1> HIDE DEF cell
<1>6. /\ Cells = [place \in Places |-> Cells[place]]
      /\ Cells[i.on.place] = cell
      /\ \A place \in Places \ {i.on.place} : Cells[place] = body.places[place]
  BY <1>2
<1> HIDE DEF Cells
<1>7. \A place \in Places : IsCell(Cells[place])
  BY <1>3, <1>4, <1>6 DEF IsCell
<1>8. IsBody(NewBody(i))
  BY <1>5, <1>6, <1>7, CellsMakeBody
<1> QED BY <1>4, <1>5, <1>6, <1>8 DEF body, shown

(* A substitution writes into the text of one unit that reads like the one *)
(* it is for; among the units without a twin, into that one only.          *)
LEMMA SubstituteIsWith ==
    ASSUME InputOK, Shapes, NEW i \in todo, Substitute(i)
    PROVE  /\ IsFile(Base(Path(i.on.unit)), Path(i.on.unit))
           /\ Path(i.on.unit) \in PathsOf(estate)
           /\ \E s \in UnitsIn(Path(i.on.unit)) :
                /\ Base(Path(i.on.unit)).text[s] = Body(i.on.unit)
                /\ pending' = [q \in DOMAIN pending \cup {Path(i.on.unit)} |->
                     IF q = Path(i.on.unit)
                     THEN With(Base(q), UnitsIn(q), s, NewBody(i)) ELSE pending[q]]
<1> DEFINE path == Path(i.on.unit)
<1>1. i \in Work
  BY DEF Shapes
<1>2. i.on.unit \in UnitsOf(estate)
  BY <1>1, WorkItems
<1>3. path \in PathsOf(estate)
  BY <1>2 DEF PathsOf, Path
<1>4. IsFile(Base(path), path)
  BY <1>3 DEF InputOK, Shapes, Base
<1>5. /\ Found(Base(path).text, Body(i.on.unit)) # {}
      /\ pending' = [q \in DOMAIN pending \cup {path} |->
                      IF q = path THEN Replaced(Base(path), Body(i.on.unit), NewBody(i))
                      ELSE pending[q]]
  BY DEF Substitute, NewBody
<1>6. UnitsIn(path) \in SUBSET Nat /\ HasUnits(Base(path), UnitsIn(path))
  BY <1>4, UnitsAreNumbers DEF InputOK, IsFile
<1>7. PICK s \in UnitsIn(path) :
        /\ Base(path).text[s] = Body(i.on.unit)
        /\ Replaced(Base(path), Body(i.on.unit), NewBody(i)) =
             With(Base(path), UnitsIn(path), s, NewBody(i))
  BY <1>5, <1>6, ReplacedOne
<1> QED BY <1>3, <1>4, <1>5, <1>7

LEMMA SubstituteInv ==
    ASSUME Inv, NEW i \in todo, Substitute(i)
    PROVE  Inv'
<1> DEFINE unit == i.on.unit
           path == Path(unit)
<1>1. Take(i) /\ Substitutes(i) /\ phase' = phase
  BY DEF Substitute
<1>2. UNCHANGED inputs /\ phase = "pipeline"
  BY <1>1 DEF Take
<1>3. /\ InputOK' /\ StillDue' /\ DraftsOK' /\ PublishedIsProposed' /\ i \in Work
      /\ todo' \subseteq Work' /\ \A j \in impacts' : j.unit \in UnitsOf(estate)'
  BY <1>1, <1>2, TakePreserves
<1>4. InputOK /\ Shapes
  BY DEF Inv
<1>5. IsFile(Base(path), path) /\ path \in PathsOf(estate)
  BY <1>4, SubstituteIsWith
<1>6. PICK s \in UnitsIn(path) :
        /\ Base(path).text[s] = Body(unit)
        /\ pending' = [q \in DOMAIN pending \cup {path} |->
                        IF q = path THEN With(Base(q), UnitsIn(q), s, NewBody(i))
                        ELSE pending[q]]
  BY <1>4, SubstituteIsWith
<1>7. IsBody(Body(unit)) /\ Body(unit).prose = Body(s).prose
  BY <1>5, <1>6 DEF IsFile
<1>8. i.on.place \in Places
  <2>1. PICK m \in marks[unit] : m.place = i.on.place
    BY <1>1, <1>3, <1>4, SubstitutingIsTied
  <2>2. unit \in UnitsOf(estate) /\ i.on.place # 0
    BY <1>1, <1>3, WorkItems, Substituting
  <2> QED BY <1>4, <2>1, <2>2 DEF InputOK
<1>9. /\ DOMAIN pending' = DOMAIN pending \cup {path}
      /\ \A q \in DOMAIN pending : q # path => pending'[q] = pending[q]
      /\ HasUnits(pending'[path], UnitsIn(path))
      /\ \A u \in UnitsIn(path) :
           pending'[path].text[u] = IF u = s THEN NewBody(i) ELSE Base(path).text[u]
  BY <1>6 DEF With, HasUnits
<1>10. Shapes'
  <2>1. IsFile(pending'[path], path)
    BY <1>5, <1>7, <1>8, <1>9, NewBodyIs DEF IsFile
  <2>2. \A q \in DOMAIN pending' : IsFile(pending'[q], q)
    BY <1>4, <1>9, <2>1 DEF Shapes
  <2>3. DOMAIN pending' \subseteq PathsOf(estate)'
    BY <1>2, <1>4, <1>5, <1>9, SameInputs DEF Shapes
  <2>4. \A q \in DOMAIN pending' : IsFile(pending[q], q)'
    BY <1>2, <2>2, SameInputs
  <2> QED BY <1>1, <1>2, <1>3, <2>3, <2>4 DEF Shapes
<1>11. ASSUME NEW u \in Single, Path(u) = path
       PROVE  /\ u \in UnitsIn(path)
              /\ u = s <=> u = unit
  <2>1. u \in UnitsIn(path)
    BY <1>11, SingleIsInFile
  <2>2. s \in UnitsOf(estate) /\ Path(s) = path /\ unit \in UnitsOf(estate)
    BY <1>3, WorkItems DEF UnitsIn
  <2>3. ~Twin(u)
    BY DEF Single
  <2> QED BY <1>7, <1>11, <2>1, <2>2, <2>3 DEF Twin
<1>12. DisputedKeysUntouched'
  <2>1. SUFFICES ASSUME NEW u \in Single, Path(u) \in DOMAIN pending', NEW place \in Places,
                        pending'[Path(u)].text[u].places[place] # Body(u).places[place]
                 PROVE  \E m \in marks[u] : m.place = place /\ ~Disputed(facts[m.key])
    BY <1>2, SameInputs DEF DisputedKeysUntouched, inputs
  <2>2. DisputedKeysUntouched
    BY DEF Inv
  <2>3. CASE Path(u) # path
    BY <1>9, <2>1, <2>2, <2>3 DEF DisputedKeysUntouched
  <2>4. CASE Path(u) = path /\ u = s
    <3>1. u = unit
      BY <1>11, <2>4
    <3>2. pending'[path].text[u] = NewBody(i)
      BY <1>6, <1>9, <2>4
    <3>3. place = i.on.place
      BY <1>7, <1>8, <2>1, <2>4, <3>1, <3>2, NewBodyIs
    <3> QED BY <1>1, <1>3, <1>4, <3>1, <3>3, SubstitutingIsTied
  <2>5. CASE Path(u) = path /\ u # s
    <3>1. pending'[path].text[u] = Base(path).text[u]
      BY <1>9, <1>11, <2>5
    <3>2. CASE path \in DOMAIN pending
      BY <2>1, <2>2, <2>5, <3>1, <3>2 DEF DisputedKeysUntouched, Base
    <3>3. CASE path \notin DOMAIN pending
      <4>1. Base(path).text[u] = Body(u)
        BY <2>5, <3>3 DEF Base, Body
      <4> QED BY <2>1, <2>5, <3>1, <4>1
    <3> QED BY <3>2, <3>3
  <2> QED BY <2>3, <2>4, <2>5
<1>13. SubstitutionsLand'
  <2>1. \A u \in Single : Carries(Base(Path(u)).text[u], u)
    BY <1>2 DEF Inv, SubstitutionsLand
  <2>2. ASSUME NEW u \in Single
        PROVE  Carries(Base(Path(u)).text[u], u)'
    <3>1. Path(u)' = Path(u) /\ Body(u)' = Body(u)
      BY <1>2, SameInputs
    <3>2. Carries(Base(Path(u)).text[u], u)
      BY <2>1
    <3>3. CASE Path(u) # path \/ u # s
      <4>1. u # unit
        BY <1>11, <3>3
      <4>2. Proposed(u)' = Proposed(u)
        BY <1>1, <4>1, NewlyProposed
      <4>3. Base(Path(u)).text[u]' = Base(Path(u)).text[u]
        <5>1. CASE Path(u) # path
          BY <1>2, <1>9, <3>1, <5>1 DEF Base, inputs
        <5>2. CASE Path(u) = path /\ u # s
          BY <1>9, <1>11, <3>1, <5>2 DEF Base
        <5> QED BY <3>3, <5>1, <5>2
      <4> QED BY <3>1, <3>2, <4>2, <4>3 DEF Carries
    <3>4. CASE Path(u) = path /\ u = s
      <4>1. u = unit
        BY <1>11, <3>4
      <4>2. Proposed(u)' = Proposed(u) \cup {Impact(i)}
        BY <1>1, <4>1, NewlyProposed
      <4>3. Base(Path(u)).text[u]' = NewBody(i) /\ Base(Path(u)).text[u] = Body(u)
        BY <1>6, <1>9, <3>1, <3>4, <4>1 DEF Base
      <4>4. Impact(i).place = i.on.place /\ Impact(i).to = i.to
        BY DEF Impact
      <4>5. NewBody(i).prose = Body(u).prose
        BY <1>7, <1>8, <4>1, NewBodyIs
      <4>6. ASSUME NEW place \in Places
            PROVE  LET of == {j \in Proposed(u)' : j.place = place} IN
                   IF of = {} THEN NewBody(i).places[place] = Body(u).places[place]
                   ELSE \E j \in of : NewBody(i).places[place].shown =
                                       Rendered(j.to, NewBody(i).places[place].coarse)
        <5>1. CASE place = i.on.place
          <6>1. NewBody(i).places[place].shown =
                  Rendered(i.to, NewBody(i).places[place].coarse)
            BY <1>7, <1>8, <5>1, NewBodyIs
          <6>2. Impact(i) \in {j \in Proposed(u)' : j.place = place}
            BY <4>2, <4>4, <5>1
          <6> QED BY <4>4, <6>1, <6>2
        <5>2. CASE place # i.on.place
          <6>1. NewBody(i).places[place] = Body(u).places[place]
            BY <1>7, <1>8, <4>1, <5>2, NewBodyIs
          <6>2. {j \in Proposed(u)' : j.place = place} = {j \in Proposed(u) : j.place = place}
            BY <4>2, <4>4, <5>2
          <6>3. Carries(Body(u), u)
            BY <3>2, <4>3
          <6> QED BY <6>1, <6>2, <6>3 DEF Carries
        <5> QED BY <5>1, <5>2
      <4> QED BY <3>1, <4>3, <4>5, <4>6 DEF Carries
    <3> QED BY <3>3, <3>4
  <2> QED BY <1>1, <1>2, <2>2, SameInputs DEF SubstitutionsLand
<1> QED BY <1>3, <1>10, <1>12, <1>13 DEF Inv

-----------------------------------------------------------------------------
(* The drafts and the composition.                                         *)
LEMMA LandedStays ==
    ASSUME UNCHANGED inputs, UNCHANGED <<impacts, pending>>, SubstitutionsLand,
           phase # "failed" \/ phase' = phase, phase' # "failed" \/ phase' = phase
    PROVE  SubstitutionsLand'
<1>1. \A u : /\ Path(u)' = Path(u) /\ Body(u)' = Body(u) /\ Proposed(u)' = Proposed(u)
             /\ Base(Path(u))' = Base(Path(u)) /\ (Twin(u)' <=> Twin(u))
  BY SameInputs DEF Proposed, Base, inputs
<1>2. \A u : Carries(Base(Path(u)).text[u], u)' <=> Carries(Base(Path(u)).text[u], u)
  BY <1>1 DEF Carries
<1> QED BY <1>1, <1>2, SameInputs DEF SubstitutionsLand

LEMMA ReturnInv ==
    ASSUME Inv, Return
    PROVE  Inv'
<1>1. /\ UNCHANGED inputs /\ UNCHANGED <<todo, impacts, pending, drafts>>
      /\ phase' = "drafting" /\ phase = "pipeline"
  BY DEF Return
<1>2. InputOK' /\ Shapes'
  BY <1>1, SameInputs, SameWork DEF Inv, Shapes
<1>3. StillDue'
  BY <1>1, SameWork DEF Inv, StillDue
<1>4. DraftsOK'
  <2>1. drafts' = <<>> /\ phase' \notin {"pipeline", "failed"}
    BY <1>1 DEF Inv, DraftsOK
  <2> QED BY <2>1 DEF DraftsOK
<1>5. DisputedKeysUntouched'
  BY <1>1, SameInputs DEF Inv, DisputedKeysUntouched, inputs
<1>6. SubstitutionsLand'
  BY <1>1, LandedStays DEF Inv
<1>7. PublishedIsProposed'
  BY <1>1 DEF PublishedIsProposed
<1> QED BY <1>2, <1>3, <1>4, <1>5, <1>6, <1>7 DEF Inv

LEMMA DraftInv ==
    ASSUME Inv, Draft
    PROVE  Inv'
<1>1. /\ UNCHANGED inputs /\ UNCHANGED <<todo, impacts, pending, phase>>
      /\ phase = "drafting"
  BY DEF Draft
<1>2. InputOK' /\ Shapes'
  BY <1>1, SameInputs, SameWork DEF Inv, Shapes
<1>3. StillDue'
  BY <1>1, SameWork DEF Inv, StillDue
<1>4. DraftsOK'
  <2> DEFINE Records == {DraftRecord(i) : i \in impacts}
  <2>1. drafts \in Seq(Records)
    BY DEF Inv, DraftsOK
  <2>2. PICK i \in impacts : drafts' = Append(drafts, DraftRecord(i))
    BY DEF Draft, DraftRecord
  <2>3. DraftRecord(i) \in Records
    OBVIOUS
  <2>4. Records' = Records
    BY <1>1, SameWork
  <2> HIDE DEF Records
  <2>5. drafts' \in Seq(Records)
    BY <2>1, <2>2, <2>3
  <2>6. drafts' \in Seq(Records')
    BY <2>4, <2>5
  <2> QED BY <1>1, <2>6 DEF DraftsOK, Records
<1>5. DisputedKeysUntouched'
  BY <1>1, SameInputs DEF Inv, DisputedKeysUntouched, inputs
<1>6. SubstitutionsLand'
  BY <1>1, LandedStays DEF Inv
<1>7. PublishedIsProposed'
  BY <1>1 DEF PublishedIsProposed
<1> QED BY <1>2, <1>3, <1>4, <1>5, <1>6, <1>7 DEF Inv

(* In a file that the Change Lab left alone, a draft replaces the text of  *)
(* one unit; among the units without a twin, only that of its own.         *)
LEMMA DraftedUnit ==
    ASSUME InputOK, NEW i, i.unit \in UnitsOf(estate), NEW u \in Single,
           Path(u) = Path(i.unit), mutated = None \/ Path(u) # Path(mutated)
    PROVE  DraftedFile(i).text[u] = IF i.unit = u THEN Drafted(i) ELSE Body(u)
<1> DEFINE path == Path(u)
<1>1. path \in PathsOf(estate) /\ u \in UnitsIn(path) /\ i.unit \in UnitsIn(path)
  BY SingleIsInFile DEF UnitsIn
<1>2. IsFile(files[path], path) /\ files[path] = Content(estate, path)
  BY <1>1 DEF InputOK
<1>3. HasUnits(files[path], UnitsIn(path)) /\ UnitsIn(path) \in SUBSET Nat
  BY <1>2, UnitsAreNumbers DEF IsFile, InputOK
<1>4. \A v \in UnitsIn(path) : files[path].text[v] = Body(v)
  BY DEF UnitsIn, Body
<1>5. Found(files[path].text, Body(i.unit)) # {}
  BY <1>1, <1>3, <1>4 DEF Found, HasUnits
<1>6. DraftedFile(i) = Replaced(files[path], Body(i.unit), Drafted(i))
  BY <1>2, <1>5 DEF DraftedFile
<1>7. PICK s \in UnitsIn(path) :
        /\ files[path].text[s] = Body(i.unit)
        /\ DraftedFile(i) = With(files[path], UnitsIn(path), s, Drafted(i))
  BY <1>3, <1>5, <1>6, ReplacedOne
<1>8. DraftedFile(i).text[u] = IF u = s THEN Drafted(i) ELSE Body(u)
  BY <1>1, <1>4, <1>7 DEF With
<1>9. u = s <=> i.unit = u
  <2>1. Body(s) = Body(i.unit)
    BY <1>4, <1>7
  <2>2. ~Twin(u)
    BY DEF Single
  <2> QED BY <1>1, <1>7, <2>1, <2>2 DEF Twin, UnitsIn
<1> QED BY <1>8, <1>9

LEMMA FirstDraft ==
    ASSUME DraftsOK, NEW path, NEW n \in DOMAIN drafts, drafts[n].path = path
    PROVE  First(path) \in DOMAIN drafts /\ drafts[First(path)].path = path
<1> DEFINE S == {m \in DOMAIN drafts : drafts[m].path = path}
<1>1. DOMAIN drafts = 1 .. Len(drafts) /\ Len(drafts) \in Nat
  BY DEF DraftsOK
<1>2. S \in SUBSET Nat /\ n \in S
  BY <1>1
<1>3. FirstOf(S) \in S /\ \A v \in S : FirstOf(S) <= v
  BY <1>2, FirstIsOne
<1> DEFINE first == FirstOf(S)
<1>4. first \in DOMAIN drafts /\ drafts[first].path = path
  BY <1>3
<1>5. \A m \in 1 .. first - 1 : drafts[m].path # path
  <2> SUFFICES ASSUME NEW m \in 1 .. first - 1, drafts[m].path = path PROVE FALSE
    OBVIOUS
  <2>1. m \in S
    BY <1>1, <1>4
  <2> HIDE DEF S
  <2>2. first <= m
    BY <1>3, <2>1
  <2> HIDE DEF first
  <2> QED BY <1>1, <1>4, <2>2
<1> HIDE DEF first
<1> QED BY <1>4, <1>5 DEF First

LEMMA PublishInv ==
    ASSUME Inv, Publish
    PROVE  Inv'
<1>1. /\ UNCHANGED inputs /\ UNCHANGED <<todo, impacts, pending, drafts>>
      /\ phase' = "published" /\ phase = "drafting"
      /\ published' = [path \in PatchedPaths |-> Composed(path)]
      /\ skipped' = {drafts[n].path : n \in {m \in DOMAIN drafts :
                      drafts[m].path \in DOMAIN pending \/ First(drafts[m].path) # m}}
  BY DEF Publish
<1>2. InputOK' /\ Shapes'
  BY <1>1, SameInputs, SameWork DEF Inv, Shapes
<1>3. StillDue'
  BY <1>1, SameWork DEF Inv, StillDue
<1>4. DraftsOK'
  <2>1. {DraftRecord(i) : i \in impacts}' = {DraftRecord(i) : i \in impacts}
    BY <1>1, SameWork
  <2> QED BY <1>1, <2>1 DEF Inv, DraftsOK
<1>5. DisputedKeysUntouched'
  BY <1>1, SameInputs DEF Inv, DisputedKeysUntouched, inputs
<1>6. SubstitutionsLand'
  BY <1>1, LandedStays DEF Inv
<1>7. PublishedIsProposed'
  <2>1. SUFFICES ASSUME NEW u \in Single, mutated = None \/ Path(u) # Path(mutated)
                 PROVE  /\ \A n \in DraftsFor(u) :
                             \/ Path(u) \in skipped'
                             \/ published'[Path(u)].text[u] = Drafted(drafts[n].of)
                        /\ Path(u) \in DOMAIN published' =>
                             \/ Carries(published'[Path(u)].text[u], u)
                             \/ /\ Path(u) \notin DOMAIN pending
                                /\ \E n \in DraftsFor(u) :
                                     published'[Path(u)].text[u] = Drafted(drafts[n].of)
    <3>1. \A u : /\ DraftsFor(u)' = DraftsFor(u) /\ Path(u)' = Path(u)
                 /\ Body(u)' = Body(u) /\ Proposed(u)' = Proposed(u)
      BY <1>1, SameInputs DEF DraftsFor, Proposed
    <3>2. \A u : Carries(published[Path(u)].text[u], u)'
                 <=> Carries(published'[Path(u)].text[u], u)
      BY <3>1 DEF Carries
    <3>3. Single' = Single /\ drafts' = drafts /\ mutated' = mutated /\ pending' = pending
      BY <1>1, SameInputs DEF inputs
    <3>4. \A i : Drafted(i)' = Drafted(i)
      BY <1>1, SameWork
    <3> QED BY <2>1, <3>1, <3>2, <3>3, <3>4 DEF PublishedIsProposed
  <2> DEFINE path == Path(u)
  <2>2. InputOK /\ DraftsOK /\ Carries(Base(path).text[u], u)
    BY <1>1 DEF Inv, SubstitutionsLand
  <2>3. ASSUME NEW n \in DOMAIN drafts, drafts[n].path = path
        PROVE  /\ drafts[n].after.text[u] =
                     IF drafts[n].of.unit = u THEN Drafted(drafts[n].of) ELSE Body(u)
               /\ path \in PatchedPaths
    <3>1. PICK i \in impacts : drafts[n] = DraftRecord(i)
      BY <2>2 DEF DraftsOK
    <3>2. i.unit \in UnitsOf(estate)
      BY DEF Inv, Shapes
    <3>3. drafts[n].of = i /\ Path(i.unit) = path /\ drafts[n].after = DraftedFile(i)
      BY <2>3, <3>1 DEF DraftRecord
    <3>4. DraftedFile(i).text[u] = IF i.unit = u THEN Drafted(i) ELSE Body(u)
      BY <2>1, <2>2, <3>2, <3>3, DraftedUnit
    <3> QED BY <2>3, <3>3, <3>4 DEF PatchedPaths
  <2>4. ASSUME NEW n \in DraftsFor(u)
        PROVE  n \in DOMAIN drafts /\ drafts[n].path = path
    <3>1. PICK i \in impacts : drafts[n] = DraftRecord(i)
      BY <2>2 DEF DraftsOK, DraftsFor
    <3> QED BY <3>1 DEF DraftsFor, DraftRecord
  <2>5. ASSUME NEW n \in DraftsFor(u), path \notin skipped'
        PROVE  published'[path].text[u] = Drafted(drafts[n].of)
    <3>1. n \in DOMAIN drafts /\ drafts[n].path = path /\ drafts[n].of.unit = u
      BY <2>4 DEF DraftsFor
    <3>2. path \notin DOMAIN pending /\ First(path) = n
      BY <1>1, <2>5, <3>1
    <3>3. published'[path] = drafts[n].after
      BY <1>1, <2>3, <3>1, <3>2 DEF Composed
    <3> QED BY <2>3, <3>1, <3>3
  <2>6. CASE path \in DOMAIN pending
    <3>1. path \in PatchedPaths
      BY <2>6 DEF PatchedPaths
    <3>2. published'[path] = Base(path)
      BY <1>1, <2>6, <3>1 DEF Composed, Base
    <3> QED BY <2>2, <2>5, <3>2
  <2>7. CASE path \notin DOMAIN pending
    <3>1. Carries(Body(u), u)
      BY <2>2, <2>7 DEF Base, Body
    <3>2. ASSUME path \in PatchedPaths
          PROVE  \/ published'[path].text[u] = Body(u)
                 \/ \E n \in DraftsFor(u) :
                      published'[path].text[u] = Drafted(drafts[n].of)
      <4>1. PICK m \in DOMAIN drafts : drafts[m].path = path
        BY <2>7, <3>2 DEF PatchedPaths
      <4>2. First(path) \in DOMAIN drafts /\ drafts[First(path)].path = path
        BY <2>2, <4>1, FirstDraft
      <4>3. published'[path] = drafts[First(path)].after
        BY <1>1, <2>7, <3>2 DEF Composed
      <4> QED BY <2>3, <4>2, <4>3 DEF DraftsFor
    <3> QED BY <1>1, <2>5, <2>7, <3>1, <3>2
  <2> QED BY <2>6, <2>7
<1> QED BY <1>2, <1>3, <1>4, <1>5, <1>6, <1>7 DEF Inv

-----------------------------------------------------------------------------
LEMMA StutterInv ==
    ASSUME Inv, UNCHANGED vars
    PROVE  Inv'
<1>1. /\ UNCHANGED inputs
      /\ UNCHANGED <<phase, todo, impacts, pending, drafts, published, skipped>>
  BY DEF vars
<1>2. InputOK' /\ Shapes'
  BY <1>1, SameInputs, SameWork DEF Inv, Shapes
<1>3. StillDue'
  BY <1>1, SameWork DEF Inv, StillDue
<1>4. DraftsOK'
  <2>1. {DraftRecord(i) : i \in impacts}' = {DraftRecord(i) : i \in impacts}
    BY <1>1, SameWork
  <2> QED BY <1>1, <2>1 DEF Inv, DraftsOK
<1>5. DisputedKeysUntouched'
  BY <1>1, SameInputs DEF Inv, DisputedKeysUntouched, inputs
<1>6. SubstitutionsLand'
  BY <1>1, LandedStays DEF Inv
<1>7. PublishedIsProposed'
  <2>1. \A u : /\ DraftsFor(u)' = DraftsFor(u) /\ Path(u)' = Path(u)
               /\ Body(u)' = Body(u) /\ Proposed(u)' = Proposed(u)
    BY <1>1, SameInputs DEF DraftsFor, Proposed
  <2>2. \A u : Carries(published[Path(u)].text[u], u)'
               <=> Carries(published[Path(u)].text[u], u)
    BY <1>1, <2>1 DEF Carries
  <2>3. \A i : Drafted(i)' = Drafted(i)
    BY <1>1, SameWork
  <2> QED BY <1>1, <2>1, <2>2, <2>3, SameInputs DEF Inv, PublishedIsProposed, inputs
<1> QED BY <1>2, <1>3, <1>4, <1>5, <1>6, <1>7 DEF Inv

LEMMA StepInv ==
    ASSUME Inv, [Next]_vars
    PROVE  Inv'
<1>1. ASSUME NEW i \in todo, Visit(i) PROVE Inv'
  BY <1>1, VisitInv
<1>2. ASSUME NEW i \in todo, Substitute(i) PROVE Inv'
  BY <1>2, SubstituteInv
<1>3. ASSUME NEW i \in todo, Throw(i) PROVE Inv'
  BY <1>3, ThrowInv
<1>4. CASE Return
  BY <1>4, ReturnInv
<1>5. CASE Draft
  BY <1>5, DraftInv
<1>6. CASE Publish
  BY <1>6, PublishInv
<1>7. CASE UNCHANGED vars
  BY <1>7, StutterInv
<1> QED BY <1>1, <1>2, <1>3, <1>4, <1>5, <1>6, <1>7 DEF Next

THEOREM InvHolds == Spec => []Inv
<1>1. Init => Inv
  BY InitInv
<1>2. Inv /\ [Next]_vars => Inv'
  BY StepInv
<1> QED BY <1>1, <1>2, PTL DEF Spec

(* The three properties of the run, for any facts, any documents and any   *)
(* number of drafts: a value changes only where a marker ties it to a fact *)
(* that is not disputed (runPipeline), every substitution reported as      *)
(* proposed is in the patch of its file (replaceSpan, afterByPath), and    *)
(* what is published is what was proposed (contentByPath in executeRun).   *)
THEOREM DisputedKeysUntouchedHolds == Spec => []DisputedKeysUntouched
<1>1. Inv => DisputedKeysUntouched
  BY DEF Inv
<1> QED BY <1>1, InvHolds, PTL

THEOREM SubstitutionsLandHolds == Spec => []SubstitutionsLand
<1>1. Inv => SubstitutionsLand
  BY DEF Inv
<1> QED BY <1>1, InvHolds, PTL

THEOREM PublishedIsProposedHolds == Spec => []PublishedIsProposed
<1>1. Inv => PublishedIsProposed
  BY DEF Inv
<1> QED BY <1>1, InvHolds, PTL
===============================================================================
