------------------------------ MODULE MCSession ------------------------------
(* Session with model values for TLC.                                       *)
EXTENDS Session, TLC

CONSTANTS ann, bob, cat, t1, t2

\* The operator gave two clients a name each.
MCProvisions == {t1 :> ann @@ t2 :> bob}
MCSignature == <<1, 1>>

\* The sessions are interchangeable, and so are the clients with their names.
Renaming == {ann :> ann @@ bob :> bob @@ t1 :> t1 @@ t2 :> t2,
             ann :> bob @@ bob :> ann @@ t1 :> t2 @@ t2 :> t1}
Symmetry == {p @@ q : p \in Permutations(Sessions), q \in Renaming}

\* Bound: of the stashes, renames, ends of the server and expiries, three happen.
ThreeInAll == stashes + renames + stops + expiries <= 3
=============================================================================
