------------------------------ MODULE MCPipeline ------------------------------
(***************************************************************************)
(* A small instance of Pipeline: two facts; a page of two units with a     *)
(* description, in-product copy, and a generated table.                    *)
(***************************************************************************)
EXTENDS Pipeline, TLC

CONSTANTS k1, k2, page, copy, table

Step(date, from, to) == [at |-> date, from |-> from, to |-> to]

\* A fact that was v and is 1, or is what it was, or is 2 - v.
Plain(v) == [was |-> v, now |-> 1, other |-> None, stands |-> <<>>, releases |-> <<>>]
Quiet(v) == {[Plain(v) EXCEPT !.now = w] : w \in 0 .. 2}

\* Claims that disagree, and claims that look like it.
Troubled(v) ==
    {[Plain(v) EXCEPT !.other = w] : w \in {1, 2}}
    \cup {[Plain(v) EXCEPT !.now = None, !.other = 1], [Plain(v) EXCEPT !.was = None]}
    \cup {[Plain(v) EXCEPT !.stands = s] :
            s \in {<<"keep", "keep">>, <<"keep", "keep", "drop">>}}
    \cup {[Plain(v) EXCEPT !.releases = r] :
            r \in {<<Step(1, v, 1)>>, <<Step(2, 1, v), Step(1, v, 1)>>,
                   <<Step(1, 1, v), Step(2, v, 1)>>, <<Step(1, v, 2 - v)>>}}

MCFactSets ==
    {f \in [{k1, k2} -> UNION {Quiet(v) \cup Troubled(v) : v \in {0, 2}}] :
        \/ f[k1] \in Quiet(0) /\ f[k2] \in Quiet(2) \cup Troubled(2)
        \/ f[k1] \in Troubled(0) /\ f[k2] \in Quiet(2)}

At(key, place) == [key |-> key, place |-> place]

Text(prose, v, coarse, w) ==
    [prose |-> prose, places |-> <<[shown |-> v, coarse |-> coarse],
                                   [shown |-> w, coarse |-> FALSE]>>]

Estate(first, second, v, coarse, w, prose, shown) ==
    [file |-> <<page, page, copy, table>>,
     generated |-> {4},
     listed |-> {3},
     description |-> page :> [key |-> k1, shown |-> shown] @@ copy :> None @@ table :> None,
     body |-> <<Text("a", v, coarse, 2), Text(prose, w, coarse, 2),
                Text("c", v, FALSE, 0), Text("d", 0, FALSE, 1)>>,
     marks |-> <<first, second, {At(k2, 2)}, {At(k1, 1), At(k2, 2)}>>]

\* Units with distinct texts and with twins, descriptions that are up to date
\* and that are not; coarse values are even.
MCEstates ==
    {Estate(m[1], m[2], t[1], t[2], t[3], t[4], t[5]) :
       m \in {{}, {At(k1, 1)}, {At(k1, 1), At(k2, 2)}, {At(k1, 1), At(k2, 1)}, {At(k1, 0)}}
               \X {{}, {At(k2, 1)}, {At(k1, 1)}},
       t \in {<<0, FALSE, 2, "b", 0>>, <<2, TRUE, 2, "b", 1>>, <<0, TRUE, 0, "a", 1>>,
              <<2, FALSE, 2, "a", 0>>, <<0, FALSE, 0, "b", 1>>}}
===============================================================================
