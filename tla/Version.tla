------------------------------ MODULE Version ------------------------------
(***************************************************************************)
(* Version numbers (pkg/apk/version.go): what ParseVersion makes of the    *)
(* text, the order CompareVersions puts on the results, and the version    *)
(* constraints a package can ask for.                                      *)
(*                                                                         *)
(* A text is given by the groups versionRegex cuts it into.  A group that  *)
(* may be left out is a sequence of at most one number.  The empty text,   *)
(* which stands for no version, is NoText; a text that is there and does   *)
(* not parse is one with a number larger than MaxInt.                      *)
(***************************************************************************)
EXTENDS Integers, Sequences

CONSTANT MaxInt   \* the largest number strconv.Atoi accepts

ASSUME MaxIntAssumption == MaxInt \in Nat

Optional == {<<>>} \cup {<<n>> : n \in Nat}

\* The suffixes in the order of their constants; "" is none.
PreSuffixes == <<"_alpha", "_beta", "_pre", "_rc">>
PostSuffixes == <<"_cvs", "_svn", "_git", "_hg", "_p">>

Rank(suffixes, s) ==
    IF s = "" THEN 0 ELSE CHOOSE r \in DOMAIN suffixes : suffixes[r] = s

\* packageVersionPreModifierMax
PreMax == 1000

NoText == [numbers |-> <<>>, letter |-> 0, pre |-> "", preNumber |-> <<>>,
           post |-> "", postNumber |-> <<>>, revision |-> <<>>]

----------------------------------------------------------------------------
(* Parsing                                                                 *)

\* A number that was left out counts as 0.
NumberOf(o) == IF o = <<>> THEN 0 ELSE o[1]

\* The error of ParseVersion: no match, or a number too large for an int.
Invalid(t) ==
    \/ t.numbers = <<>>
    \/ \E i \in DOMAIN t.numbers : t.numbers[i] > MaxInt
    \/ \E o \in {t.preNumber, t.postNumber, t.revision} : NumberOf(o) > MaxInt

ParseVersion(t) ==
    [numbers          |-> t.numbers,
     letter           |-> t.letter,
     preSuffix        |-> Rank(PreSuffixes, t.pre),
     preSuffixNumber  |-> NumberOf(t.preNumber),
     postSuffix       |-> Rank(PostSuffixes, t.post),
     postSuffixNumber |-> NumberOf(t.postNumber),
     revision         |-> NumberOf(t.revision)]

----------------------------------------------------------------------------
(* The order                                                               *)

greater == 1
equal == 0
less == -1

Compare(m, n) == IF m > n THEN greater ELSE IF m < n THEN less ELSE equal

\* Element by element, then by length.
CompareSeqs(s, t) ==
    LET first(i) == /\ s[i] # t[i]
                    /\ \A j \in 1..(i - 1) : s[j] = t[j]
        both == DOMAIN s \cap DOMAIN t
    IN  IF \E i \in both : s[i] # t[i]
        THEN LET i == CHOOSE i \in both : first(i) IN Compare(s[i], t[i])
        ELSE Compare(Len(s), Len(t))

\* What is compared behind the numbers.  No pre-suffix is the highest one, no
\* post-suffix the lowest.
BehindNumbers(v) ==
    <<v.letter,
      IF v.preSuffix = 0 THEN PreMax ELSE v.preSuffix, v.preSuffixNumber,
      v.postSuffix, v.postSuffixNumber,
      v.revision>>

CompareVersions(actual, required) ==
    LET c == CompareSeqs(actual.numbers, required.numbers)
    IN  IF c # equal THEN c
        ELSE CompareSeqs(BehindNumbers(actual), BehindNumbers(required))

----------------------------------------------------------------------------
(* Constraints                                                             *)

\* The part of the version the constraint gives must be there: "~1.2" takes
\* 1.2, 1.2-r3 and 1.2.3.
includesVersion(actual, required) ==
    /\ Len(actual.numbers) >= Len(required.numbers)
    /\ \A i \in DOMAIN required.numbers : actual.numbers[i] = required.numbers[i]
    /\ \/ Len(actual.numbers) > Len(required.numbers)
       \/ \A part \in DOMAIN required \ {"numbers"} :
             required[part] # 0 => actual[part] = required[part]

satisfies(dep, actual, required) ==
    LET c == CompareVersions(actual, required)
    IN  CASE dep = "any" -> TRUE
          [] dep = "~"   -> includesVersion(actual, required)
          [] dep = "="   -> c = equal
          [] dep = ">"   -> c = greater
          [] dep = "<"   -> c = less
          [] dep = ">="  -> c \in {greater, equal}
          [] dep = "<="  -> c \in {less, equal}
=============================================================================
