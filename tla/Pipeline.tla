-------------------------------- MODULE Pipeline --------------------------------
(***************************************************************************)
(* runPipeline from the projections on, and what executeRun makes of its   *)
(* patches: the loop over deltas and projections that classifies and       *)
(* substitutes, the drafts the model adds per unit, and the one content    *)
(* per path that is published.                                             *)
(*                                                                         *)
(* A file is a description (of a page whose front matter states a fact)    *)
(* and the text of its units in order.  The text of a unit is its prose,   *)
(* which stands for all of its words, and the values it renders at its     *)
(* places.  Finding a body in a file is finding the first unit that reads  *)
(* the same; that a body might also occur inside other text is left out.   *)
(* A rendering is exact or coarse: formatValue rounds megabytes and        *)
(* kilobytes, here to even numbers.                                        *)
(***************************************************************************)
EXTENDS Authority, FiniteSets

CONSTANTS
    Keys,       \* integer facts
    FactSets,   \* what the two snapshots may say: functions from Keys
    Estates,    \* the documents: see EstateAssumption
    MaxDrafts   \* bound: the answers of the model that are accepted

Places == {1, 2}

\* Units are numbered in the order of their files; each has its path, its
\* text and its markers, the place a marker points at or 0.  In-product copy
\* lists its facts beside its text instead.
IsBody(b) ==
    b = [prose |-> b.prose,
         places |-> [place \in Places |-> [shown  |-> b.places[place].shown,
                                           coarse |-> b.places[place].coarse]]]

ASSUME EstateAssumption ==
    \A e \in Estates :
        /\ DOMAIN e.file \subseteq Nat
        /\ \A u \in DOMAIN e.file :
             /\ IsBody(e.body[u])
             /\ e.marks[u] \subseteq [key : Keys, place : {0} \cup Places]
             /\ \A m, n \in e.marks[u] : m.key = n.key => m = n

ASSUME FactAssumption ==
    \A f \in FactSets : \A key \in Keys :
        /\ f[key].stands = [i \in 1 .. Len(f[key].stands) |-> f[key].stands[i]]
        /\ Len(f[key].stands) \in Nat
        /\ DOMAIN f[key].releases \subseteq Nat
        /\ \A i \in DOMAIN f[key].releases : f[key].releases[i].at \in Nat

VARIABLES
    facts,      \* of the previous and the current snapshot
    estate,     \* ESTATE_FILES
    mutated,    \* the unit whose body the Change Lab replaced, or None
    files,      \* input.files: the estate, with that unit replaced
    marks,      \* the markers of each unit in input.files
    phase,      \* where executeRun is
    todo,       \* pairs of a delta and a projection still to be visited
    at,         \* the delta at hand
    impacts,    \* out.impacts
    pending,    \* afterByPath: the content after, per patched path
    drafts,     \* modelPatches, in order of acceptance
    published,  \* contentByPath
    skipped     \* compositionConflicts

inputs == <<facts, estate, mutated, files, marks>>
vars   == <<inputs, phase, todo, at, impacts, pending, drafts, published, skipped>>

UnitsOf(e) == DOMAIN e.file
PathsOf(e) == {e.file[u] : u \in UnitsOf(e)}
Path(u)    == estate.file[u]
Body(u)    == files[Path(u)].text[u]
Shown(u, place) == Body(u).places[place].shown

(* A path as the estate has it: what fileByPath gives in executeRun.       *)
Content(e, path) ==
    [description |-> e.description[path],
     text |-> [u \in {v \in UnitsOf(e) : e.file[v] = path} |-> e.body[u]]]

(* Where a search for a body in a text finds it.                           *)
Found(text, body)  == {u \in DOMAIN text : text[u] = body}
FirstOf(S)         == CHOOSE u \in S : \A v \in S : u <= v

Replaced(content, old, new) ==
    [content EXCEPT !.text[FirstOf(Found(content.text, old))] = new]

(***************************************************************************)
(* runExtractors, for integer facts: markers, then restated values in      *)
(* text that no marker claims, then one projection per unit and fact.      *)
(***************************************************************************)
Declared(u) ==
    {[unit |-> u, key |-> m.key, place |-> m.place,
      mode |-> IF u \in estate.generated THEN "generated" ELSE "mechanical_value"]
       : m \in marks[u]}

\* The facts a number may restate: current claims, and previous ones gone by.
Claimants(value) ==
    {c \in Keys \X {"registered", "other", "previous"} :
       LET fact == facts[c[1]] IN
       IF c[2] = "previous"
       THEN fact.was = value /\ fact.now # value /\ fact.other # value
       ELSE Claim(fact, c[2]) = value}

\* A number that several facts explain is refused rather than guessed.
Restates(u, place, key) ==
    /\ \A m \in marks[u] : m.place # place
    /\ Cardinality(Claimants(Shown(u, place))) = 1
    /\ \A c \in Claimants(Shown(u, place)) : c[1] = key

Restated(u) ==
    IF u \in estate.generated THEN {}
    ELSE {p \in [unit : {u}, key : Keys, place : Places, mode : {"derived_prose"}] :
            /\ Restates(u, p.place, p.key)
            /\ \A q \in Places : q < p.place => ~Restates(u, q, p.key)}

\* A marker with a value beats a restated value, which beats a bare marker.
Projections(u) ==
    {p \in Declared(u) : p.place # 0 \/ \A q \in Restated(u) : q.key # p.key}
    \cup {p \in Restated(u) : \A q \in Declared(u) : q.key = p.key => q.place = 0}

(* The front matter and the tables that the generators own, from the       *)
(* current facts; runGenerators makes a diff where the file differs.       *)
FactValue(key) == IF facts[key].now # None THEN facts[key].now ELSE facts[key].other

Cell(u, place) ==
    LET own == {m \in marks[u] : m.place = place} IN
    IF own # {} THEN [shown |-> FactValue((CHOOSE m \in own : TRUE).key), coarse |-> FALSE]
    ELSE Body(u).places[place]

Regenerated(path) ==
    LET file == files[path] IN
    [description |-> IF file.description = None THEN None
                     ELSE [file.description EXCEPT !.shown = FactValue(file.description.key)],
     text |-> [u \in DOMAIN file.text |->
        IF u \notin estate.generated THEN file.text[u]
        ELSE [file.text[u] EXCEPT !.places = [place \in Places |-> Cell(u, place)]]]]

(***************************************************************************)
(* The input: the estate, with the body of one hand-written unit replaced  *)
(* where a Change-Lab mutation asks for it (braces are not let through,    *)
(* so such a body has no markers).                                         *)
(***************************************************************************)
Hypothetical(u) == [estate.body[u] EXCEPT !.prose = "hypothetical"]

Start ==
    /\ facts \in FactSets /\ estate \in Estates
    /\ mutated \in {None} \cup (UnitsOf(estate) \ estate.generated)
    /\ files = [path \in PathsOf(estate) |->
                  IF mutated # None /\ path = Path(mutated)
                  THEN Replaced(Content(estate, path), estate.body[mutated],
                                Hypothetical(mutated))
                  ELSE Content(estate, path)]
    /\ marks = [u \in UnitsOf(estate) |->
                  IF Body(u) = estate.body[u] \/ u \in estate.listed
                  THEN estate.marks[u] ELSE {}]

Deltas == {d \in [key : Keys, tier : Tiers] : Changed(facts[d.key], d.tier)}

(* Every delta with every projection of its fact.                          *)
Work ==
    {i \in {[key |-> d.key, tier |-> d.tier, to |-> Claim(facts[d.key], d.tier), on |-> p] :
              d \in Deltas, p \in UNION {Projections(u) : u \in UnitsOf(estate)}} :
       i.on.key = i.key}

Init ==
    /\ Start
    /\ phase = "pipeline"
    /\ todo = Work
    /\ at = None
    /\ impacts = {}
    /\ pending = [path \in {q \in PathsOf(estate) : Regenerated(q) # files[q]}
                    |-> Regenerated(path)]
    /\ drafts = <<>>
    /\ published = <<>>
    /\ skipped = {}

(***************************************************************************)
(* classify: rules 1, 6, 2, 3, 4 and 5, in the order in which it asks.     *)
(* The value it compares is the one extracted, whatever was substituted    *)
(* since.  A changed value is a number, and every unit that is not         *)
(* generated is owned by people.                                           *)
(***************************************************************************)
Agrees(i) == i.on.place # 0 /\ Shown(i.on.unit, i.on.place) = i.to

Mechanical(p) == p.mode = "generated" \/ (p.mode = "mechanical_value" /\ p.place # 0)

Classify(i) ==
    IF Contested(facts[i.key])          THEN "UNRESOLVED_CONFLICT"
    ELSE IF Agrees(i)                   THEN "NO_ACTION"
    ELSE IF Mechanical(i.on)            THEN "DETERMINISTIC_REGEN"
    ELSE IF i.on.mode = "derived_prose" THEN "GROUNDED_PATCH"
    ELSE "EDITORIAL_REVIEW"

Impact(i) == [key |-> i.key, tier |-> i.tier, unit |-> i.on.unit, place |-> i.on.place,
              to |-> i.to, action |-> Classify(i),
              blocked |-> Conflicted(facts[i.key])]

Substitutes(i) ==
    /\ ~Conflicted(facts[i.key])
    /\ Classify(i) = "DETERMINISTIC_REGEN"
    /\ i.on.unit \notin estate.generated
    /\ i.on.place # 0

Rendered(value, coarse) == IF coarse THEN 2 * ((value + 1) \div 2) ELSE value

\* Slip: what earlier substitutions made of the file is not looked at.
BaseOfInput(path) == files[path]

Base(path) == IF path \in DOMAIN pending THEN pending[path] ELSE files[path]

(* One turn of the loop: a pair of the delta at hand while there is one.   *)
Take(i) ==
    /\ phase = "pipeline" /\ i \in todo
    /\ (\E j \in todo : <<j.key, j.tier>> = at) => <<i.key, i.tier>> = at
    /\ todo' = todo \ {i}
    /\ at' = <<i.key, i.tier>>
    /\ impacts' = impacts \cup {Impact(i)}
    /\ UNCHANGED <<inputs, drafts, published, skipped>>

Visit(i) ==
    /\ Take(i)
    /\ ~Substitutes(i)
    /\ UNCHANGED <<phase, pending>>

(* replaceSpan looks for the body the unit had in the input.               *)
Substitute(i) ==
    LET path == Path(i.on.unit)
        body == Body(i.on.unit)
        new  == [body EXCEPT !.places[i.on.place].shown = 
                          Rendered(i.to, body.places[i.on.place].coarse)]
    IN
    /\ Take(i)
    /\ Substitutes(i)
    /\ Found(Base(path).text, body) # {}
    /\ pending' = [q \in DOMAIN pending \cup {path} |->
                   IF q = path THEN Replaced(Base(path), body, new) ELSE pending[q]]
    /\ UNCHANGED phase

(* It does not find it, and throws: the run fails.                         *)
Throw(i) ==
    /\ Take(i)
    /\ Substitutes(i)
    /\ Found(Base(Path(i.on.unit)).text, Body(i.on.unit)) = {}
    /\ phase' = "failed"
    /\ UNCHANGED pending

Return ==
    /\ phase = "pipeline" /\ todo = {}
    /\ phase' = "drafting"
    /\ UNCHANGED <<inputs, todo, at, impacts, pending, drafts, published, skipped>>

(***************************************************************************)
(* executeRun: an answer of the model for a unit is accepted.  The new     *)
(* body is put where the unit's body is in the file of the estate, and     *)
(* where it is not, it becomes the file.  (Rejected answers and calls not  *)
(* made leave nothing behind, here.)                                       *)
(***************************************************************************)
ForModel(i) == i.action \in {"GROUNDED_PATCH", "EDITORIAL_REVIEW"} /\ ~i.blocked

Drafted(i) == [Body(i.unit) EXCEPT !.prose = <<"draft", i.key>>]

DraftedFile(i) ==
    LET before == Content(estate, Path(i.unit)) IN
    IF Found(before.text, Body(i.unit)) # {}
    THEN Replaced(before, Body(i.unit), Drafted(i))
    ELSE [description |-> None, text |-> [u \in {i.unit} |-> Drafted(i)]]

Draft ==
    /\ phase = "drafting" /\ Len(drafts) < MaxDrafts
    /\ \E i \in impacts :
         /\ ForModel(i)
         /\ \A n \in DOMAIN drafts : drafts[n].of # i
         /\ drafts' = Append(drafts, [of |-> i, path |-> Path(i.unit),
                                      after |-> DraftedFile(i)])
    /\ UNCHANGED <<inputs, phase, todo, at, impacts, pending, published, skipped>>

(***************************************************************************)
(* The content to publish: the patches of the pipeline, then the drafts    *)
(* to paths that have none yet; the others are named and left out.         *)
(***************************************************************************)
PatchedPaths == DOMAIN pending \cup {drafts[n].path : n \in DOMAIN drafts}

First(path) == CHOOSE n \in DOMAIN drafts :
                 /\ drafts[n].path = path
                 /\ \A m \in 1 .. n - 1 : drafts[m].path # path

\* Slip: a draft takes the place of a patch of the pipeline.
ComposedLate(path) ==
    IF \E n \in DOMAIN drafts : drafts[n].path = path
    THEN drafts[First(path)].after ELSE pending[path]

Composed(path) ==
    IF path \in DOMAIN pending THEN pending[path] ELSE drafts[First(path)].after

Publish ==
    /\ phase = "drafting"
    /\ phase' = "published"
    /\ published' = [path \in PatchedPaths |-> Composed(path)]
    /\ skipped' = {drafts[n].path : n \in {m \in DOMAIN drafts :
                      drafts[m].path \in DOMAIN pending \/ First(drafts[m].path) # m}}
    /\ UNCHANGED <<inputs, todo, at, impacts, pending, drafts>>

Next == \/ \E i \in todo : Visit(i) \/ Substitute(i) \/ Throw(i)
        \/ Return \/ Draft \/ Publish

Spec == Init /\ [][Next]_vars

(***************************************************************************)
(* Properties.  Units of one file with the same prose are twins: the       *)
(* search for the body of one may find the other.  What is said below is   *)
(* said of units without a twin.                                           *)
(***************************************************************************)
Twin(u) == \E v \in UnitsOf(estate) \ {u} :
             Path(v) = Path(u) /\ Body(v).prose = Body(u).prose

Single == {u \in UnitsOf(estate) \ estate.generated : ~Twin(u)}

(* The values a hand-written unit shows change only where a marker ties    *)
(* them to a fact on whose present value all claims agree.  (Tables and    *)
(* descriptions are regenerated from the authoritative claim, disputed or  *)
(* not.)                                                                   *)
DisputedKeysUntouched ==
    \A u \in Single : Path(u) \in DOMAIN pending =>
        \A place \in Places :
            pending[Path(u)].text[u].places[place] # Body(u).places[place]
            => \E m \in marks[u] : m.place = place /\ ~Disputed(facts[m.key])

(* A substitution reported as proposed is in the patch of its file, at its *)
(* place, beside all others of that file and whatever a generator made of  *)
(* it, and what no substitution was for reads as before.  The pipeline     *)
(* fails only over two substitutions in one unit.                          *)
Proposed(u) == {i \in impacts : /\ i.unit = u /\ i.place # 0 /\ ~i.blocked
                                /\ i.action = "DETERMINISTIC_REGEN"}

Carries(body, u) ==
    /\ body.prose = Body(u).prose
    /\ \A place \in Places :
         LET of == {i \in Proposed(u) : i.place = place} IN
         IF of = {} THEN body.places[place] = Body(u).places[place]
         ELSE \E i \in of : body.places[place].shown =
                             Rendered(i.to, body.places[place].coarse)

SubstitutionsLand ==
    /\ phase # "failed" => \A u \in Single : Carries(Base(Path(u)).text[u], u)
    /\ phase = "failed" =>
         \E u \in UnitsOf(estate) : (\E i, j \in Proposed(u) : i # j) \/ Twin(u)

(* What is published of a file holds every substitution proposed for it,   *)
(* and every draft unless the file is named as skipped; its other units    *)
(* are those of the estate.  (Files in which the Change Lab replaced a     *)
(* body are left out: a draft for that body takes the place of the file.)  *)
DraftsFor(u) == {n \in DOMAIN drafts : drafts[n].of.unit = u}

PublishedIsProposed ==
    phase = "published" =>
        \A u \in Single :
            mutated = None \/ Path(u) # Path(mutated) =>
            LET path == Path(u) IN
            /\ \A n \in DraftsFor(u) :
                 path \in skipped \/ published[path].text[u] = Drafted(drafts[n].of)
            /\ path \in DOMAIN published =>
                 \/ Carries(published[path].text[u], u)
                 \/ /\ path \notin DOMAIN pending
                    /\ \E n \in DraftsFor(u) :
                         published[path].text[u] = Drafted(drafts[n].of)
===============================================================================
