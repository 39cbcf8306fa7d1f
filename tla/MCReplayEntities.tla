-------------------------- MODULE MCReplayEntities --------------------------
(* Finite instances of ReplayEntities: a player and two other slots. *)
EXTENDS ReplayEntities, TLC

Monster(x) == [Gone EXCEPT !.kind = "monster", !.at = x]
Beam(from, to, sprite) ==
    [Gone EXCEPT !.kind = "beam", !.ends = ("start" :> from @@ "end" :> to), !.sprite = sprite]

\* A beam comes with a monster that moves, before or after it, or with another
\* beam; players come and go.
Player == [Gone EXCEPT !.kind = "player"]

MCScenes ==
    {[s \in Slots |-> f[s]] : f \in
        {<<Player, Gone, Gone>>,
         <<Player, Beam(3, 1, TRUE), Monster(0)>>,
         <<Gone, Beam(3, 1, TRUE), Monster(1)>>,
         <<Player, Monster(1), Beam(1, 2, FALSE)>>,
         <<Gone, Beam(0, 3, FALSE), Beam(2, 2, TRUE)>>}}

MCSymmetry == Permutations(Ids)
=============================================================================
