--------------------------- MODULE MCInstalledDB ---------------------------
(* Instances of InstalledDB: every archive of some paths, with and without  *)
(* the directories they are in, behind or before a plain one.               *)
EXTENDS InstalledDB

MCHeaders ==
    {Header(<<1>>, TRUE, TRUE), Header(<<1, 2>>, TRUE, FALSE), Header(<<1, 2, 1>>, FALSE, TRUE),
     Header(<<1, 3>>, FALSE, FALSE), Header(<<2>>, FALSE, TRUE), Header(<<3>>, TRUE, TRUE)}

Plain == {Header(<<1>>, TRUE, TRUE), Header(<<1, 1>>, FALSE, FALSE)}

MCSystems == {<<hs, Plain>> : hs \in SUBSET MCHeaders}
MCScripts == <<2, 1>>
=============================================================================
