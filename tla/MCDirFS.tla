------------------------------ MODULE MCDirFS ------------------------------
(* Instances of DirFS: two names that are one to a disk without case,       *)
(* targets in the same directory, above it, in another one and absolute     *)
(* ones, and what may be on disk before.                                    *)
EXTENDS DirFS, TLC

MCNames == {"a", "A"}
MCFold == ("a" :> "a" @@ "A" :> "a")
MCTexts == {<<"a">>, <<"A">>, <<Up, "a">>, <<"a", "a">>, <<Root, "a">>}

Tree(entries) == [NewMemFS EXCEPT !.entry = entries @@ NewMemFS.entry]

MCEmpty == {NewMemFS}
MCBases == {NewMemFS,
            Tree(<<"a">> :> Dir @@ <<"a", "a">> :> Reg(1)),
            Tree(<<"a">> :> SymlinkTo(<<"A">>))}

\* Nothing in the model asks which content a content is.
MCSymmetry == Permutations(Contents)

\* A state after which the invariants say no more than that the types are right
\* is not continued: diverged never becomes FALSE again, and plain never TRUE.
MCClaims == (caseSensitive /\ ~diverged) \/ plain
=============================================================================
