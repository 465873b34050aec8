------------------------------- MODULE Authority -------------------------------
(***************************************************************************)
(* What concord-core makes of the claims about one fact: what changed,     *)
(* which claim is authoritative, and where claims disagree.  The facts of  *)
(* two snapshots are given per key as a record:                            *)
(*                                                                         *)
(*   was       the claim of the registered tier in the previous snapshot   *)
(*   now       the same in the current one                                 *)
(*   other     a claim of another of the tiers T0 to T3, current snapshot  *)
(*   stands    the statements of the T5 decisions that claim the key       *)
(*   releases  the transitions that T4 records announce for it, dated      *)
(*                                                                         *)
(* None is a claim that is not there.  Keys are integer facts (the ones    *)
(* whose renderings are substituted), so claims compare by their value.    *)
(***************************************************************************)
EXTENDS Naturals, Sequences

CONSTANT None

Tiers == {"registered", "other"}

Claim(fact, tier) == IF tier = "registered" THEN fact.now ELSE fact.other

(* detectDeltas: a claim of T0 to T3 that differs from the previous one.   *)
Changed(fact, tier) ==
    /\ Claim(fact, tier) # None /\ fact.was # None
    /\ Claim(fact, tier) # fact.was

(***************************************************************************)
(* arbitrate: two decisions with different statements, or a claim of       *)
(* another tier that disagrees with the authoritative one.                 *)
(***************************************************************************)
DoubleClaim(fact) ==
    \E i \in 2 .. Len(fact.stands) : fact.stands[i] # fact.stands[1]

LowerTierDisagrees(fact) ==
    fact.now # None /\ fact.other # None /\ fact.other # fact.now

(* Rule 1 of the classification: a conflict, or no authoritative claim.    *)
Contested(fact) == DoubleClaim(fact) \/ LowerTierDisagrees(fact) \/ fact.now = None

(***************************************************************************)
(* temporalContradictions: the latest release that names the key (the      *)
(* first of its date) announced that it would leave the value it has.      *)
(***************************************************************************)
IsLatest(fact, i) ==
    \A j \in DOMAIN fact.releases :
        /\ fact.releases[j].at <= fact.releases[i].at
        /\ j < i => fact.releases[j].at < fact.releases[i].at

\* currentByKey is a Map: of two claims the second stays.
Current(fact) == IF fact.other # None THEN fact.other ELSE fact.now

Contradicted(fact) ==
    /\ Current(fact) # None
    /\ \E i \in DOMAIN fact.releases :
         /\ IsLatest(fact, i)
         /\ fact.releases[i].to # Current(fact)
         /\ fact.releases[i].from = Current(fact)

\* Slip: only arbitration finds conflicts.
ConflictedNow(fact) == fact.now # None /\ (DoubleClaim(fact) \/ LowerTierDisagrees(fact))

(* detectConflicts: a double claim with no authoritative claim beside it   *)
(* makes no draft, and rule 1 alone holds such a key back.                 *)
Conflicted(fact) ==
    \/ fact.now # None /\ (DoubleClaim(fact) \/ LowerTierDisagrees(fact))
    \/ Contradicted(fact)

(***************************************************************************)
(* The reference: a fact on which not all who speak about its present      *)
(* value agree, said without the order in which the claims are listed.     *)
(***************************************************************************)
Disputed(fact) ==
    \/ fact.now = None
    \/ \E s, t \in Tiers : /\ Claim(fact, s) # None /\ Claim(fact, t) # None
                           /\ Claim(fact, s) # Claim(fact, t)
    \/ \E i, j \in DOMAIN fact.stands : fact.stands[i] # fact.stands[j]
    \/ \E i \in DOMAIN fact.releases :
         /\ fact.releases[i].from = fact.now /\ fact.releases[i].to # fact.now
         /\ \A j \in DOMAIN fact.releases \ {i} :
              fact.releases[j].at < fact.releases[i].at
===============================================================================
