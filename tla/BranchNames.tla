---------------------------- MODULE BranchNames -----------------------------
(***************************************************************************)
(* The branch a feature's page tells a developer to push, and what the      *)
(* webhook reads out of a branch and the text of its pull request.  The     *)
(* patterns it reads with are not anchored and take any 36 characters that  *)
(* an id may consist of, across hyphens; so branches, ids and keys are      *)
(* sequences of characters here.  One branch is looked at per behaviour.    *)
(***************************************************************************)
EXTENDS Naturals, FiniteSets, Sequences, FiniteSetsExt

CONSTANTS
    Features, \* by id
    Bugs,     \* by id
    KeyOf,    \* key of each feature, or None: from before keys
    Parent,   \* feature of each bug, or None
    Titles,   \* as slugify leaves them before it cuts: words joined by single hyphens
    None

Letter == {"a", "b", "c", "d", "e", "f", "g", "h", "i", "j", "k", "l", "m",
           "n", "o", "p", "q", "r", "s", "t", "u", "v", "w", "x", "y", "z"}
Digit == {"0", "1", "2", "3", "4", "5", "6", "7", "8", "9"}
TitleChar == Letter \cup Digit \cup {"-"}
IdChar == Digit \cup {"a", "b", "c", "d", "e", "f", "-"} \* [a-f0-9-]
Separator == {"\\", "/", "-"}                            \* [\\/-]

Feature == <<"f", "e", "a", "t", "u", "r", "e">>
Feat == <<"f", "e", "a", "t">>
Bug == <<"b", "u", "g">>
Fix == <<"f", "i", "x">>
Kinds == {Feature, Feat, Bug, Fix} \* of branches

Ids == Features \cup Bugs
KeyText(k) == k.base \o <<"-">> \o k.number

\* deriveProjectKey and nextFreeKey: a letter, then letters and digits; the feature's number.
IsKey(k) ==
    /\ k.base \in Seq(Letter \cup Digit) /\ Len(k.base) \in 2..10 /\ k.base[1] \in Letter
    /\ k.number \in Seq(Digit) /\ k.number # <<>>

BranchAssumption ==
    /\ \A i \in Ids : i \in Seq(IdChar) /\ Len(i) = 36 /\ i # None
    /\ Features \cap Bugs = {} /\ Parent \in [Bugs -> Features \cup {None}]
    /\ \A f \in Features : KeyOf[f] # None => IsKey(KeyOf[f])
    /\ \A f, g \in Features : KeyOf[f] # None /\ KeyOf[g] # None
                              /\ KeyText(KeyOf[f]) = KeyText(KeyOf[g]) => f = g
    /\ \A f \in Features : KeyOf[f] # None => KeyText(KeyOf[f]) # None
    /\ Titles \subseteq Seq(TitleChar) /\ <<>> \in Titles

(***************************************************************************)
(* Names of branches.                                                       *)
(***************************************************************************)

\* Mutant: a slug of eighty characters.
MaxSlug_Eighty == 80

MaxSlug == 40

\* slugify: the title if it fits, else cut at the last hyphen of the first MaxSlug characters,
\* if more than twelve stand before it.
Slug(title) ==
    LET hyphen == Max({0} \cup {i \in 1..MaxSlug : title[i] = "-"}) IN
    IF Len(title) <= MaxSlug THEN title
    ELSE SubSeq(title, 1, IF hyphen > 13 THEN hyphen - 1 ELSE MaxSlug)

FeatureBranchName(f, title) ==
    Feature \o <<"/">> \o
    IF KeyOf[f] = None THEN f
    ELSE KeyText(KeyOf[f]) \o (IF Slug(title) = <<>> THEN <<>> ELSE <<"-">> \o Slug(title))

\* Bugs get no keys, so that theirs is always the id.
BugBranchName(b) == Bug \o <<"/">> \o b

(***************************************************************************)
(* extractFeatureId.                                                        *)
(***************************************************************************)

\* word stands in s, up to position e.
EndsAt(s, e, word) == Len(word) <= e /\ \A m \in 1..Len(word) : s[e - Len(word) + m] = word[m]

\* Where something is read after one of kinds and a separator.  No kind begins within another,
\* so the leftmost match is the one whose reading begins first.
After(s, kinds) == {i \in 3..Len(s) : s[i - 1] \in Separator /\ \E k \in kinds : EndsAt(s, i - 2, k)}

\* [a-f0-9-]{36}
IdAt(s, i) == i + 35 <= Len(s) /\ \A j \in i..(i + 35) : s[j] \in IdChar

IdAfter(s, kind) ==
    LET hits == {i \in After(s, {kind}) : IdAt(s, i)} IN
    IF hits = {} THEN None ELSE SubSeq(s, Min(hits), Min(hits) + 35)

\* [a-z][a-z0-9]{1,9}-\d+(?:[-_/]|$) from i on: where the digits end.
KeyEnds(s, i) ==
    {e \in (i + 3)..Len(s) :
        /\ s[i] \in Letter
        /\ \E h \in (i + 2)..(i + 10) :
              /\ h < e /\ s[h] = "-" /\ \A j \in (i + 1)..(h - 1) : s[j] \in Letter \cup Digit
              /\ \A j \in (h + 1)..e : s[j] \in Digit
        /\ e < Len(s) => s[e + 1] \in {"-", "_", "/"}}

KeyAfter(s) ==
    LET hits == {i \in After(s, Kinds) : KeyEnds(s, i) # {}} IN
    IF hits = {} THEN None ELSE SubSeq(s, Min(hits), Max(KeyEnds(s, Min(hits))))

FeatureOfBug(b) == IF b \in Bugs THEN Parent[b] ELSE None
WithKey(k) == {f \in Features : k # None /\ KeyOf[f] # None /\ KeyText(KeyOf[f]) = k}

\* The text of the pull request names one thing: "bug: #id", "feature: #id" or "closes #id".
InBody(body) ==
    CASE body.says = "bug" -> FeatureOfBug(body.id)
      [] body.says = "feature" -> body.id
      [] body.says = "closes" -> FeatureOfBug(body.id)
      [] OTHER -> None

\* An id after `bug', one after `feature' or `feat', a key; the text only if there is none.
\* What follows `bug' or `feature' need not be the id of anything.
ExtractFeatureId(branch, body) ==
    LET bug == IdAfter(branch, Bug)
        feature == IdAfter(branch, Feature)
        feat == IdAfter(branch, Feat)
        known == WithKey(KeyAfter(branch))
    IN
    IF bug # None THEN FeatureOfBug(bug)
    ELSE IF feature # None THEN feature
    ELSE IF feat # None THEN feat
    ELSE IF known # {} THEN CHOOSE f \in known : TRUE
    ELSE InBody(body)

(***************************************************************************)
(* A developer copies the branch of a feature or of a bug, or makes one up, *)
(* and opens a pull request.                                                *)
(***************************************************************************)

VARIABLES
    work,   \* what the branch is for: a feature, a bug, or None
    title,
    branch,
    body,   \* of the pull request
    opened,
    linked  \* what the webhook finds

vars == <<work, title, branch, body, opened, linked>>

NoBody == [says |-> "nothing", id |-> None]
Bodies == {NoBody} \cup [says : {"bug", "feature", "closes"}, id : Ids]

TypeOK ==
    /\ work \in Ids \cup {None} /\ title \in Titles /\ body \in Bodies
    /\ branch \in Seq(TitleChar \cup {"/"}) /\ opened \in BOOLEAN
    /\ linked = None \/ (linked \in Seq(IdChar) /\ Len(linked) = 36)

Init ==
    /\ work = None /\ title = <<>> /\ branch = <<>> /\ body = NoBody
    /\ opened = FALSE /\ linked = None

CheckOut(w) ==
    /\ branch = <<>>
    /\ title' \in Titles
    /\ branch' = IF w \in Features THEN FeatureBranchName(w, title') ELSE BugBranchName(w)
    /\ work' = w
    /\ UNCHANGED <<body, opened, linked>>

MakeUp(kind) ==
    /\ branch = <<>>
    /\ title' \in Titles /\ branch' = kind \o <<"/">> \o title'
    /\ UNCHANGED <<work, body, opened, linked>>

OpenPullRequest(text) ==
    /\ branch # <<>> /\ ~opened
    /\ body' = text /\ opened' = TRUE /\ linked' = ExtractFeatureId(branch, text)
    /\ UNCHANGED <<work, title, branch>>

Next ==
    \/ \E w \in Ids : CheckOut(w)
    \/ \E kind \in Kinds : MakeUp(kind)
    \/ \E text \in Bodies : OpenPullRequest(text)

Spec == Init /\ [][Next]_vars

(***************************************************************************)
(* Properties.                                                              *)
(***************************************************************************)

\* Key and slug together, or the slug alone, read like an id after `feature', `feat' or `bug':
\* a key of characters that ids have, or that ends in one of the three, followed by enough
\* such characters to make up 36; or a slug that is "bug-" and 36 of them.
Misleading(f, t) ==
    LET key == KeyOf[f]
        slug == Slug(t)
        Opens(n) == Len(slug) >= n /\ \A i \in 1..n : slug[i] \in IdChar
    IN
    /\ key # None
    /\ \/ (\A i \in 1..Len(key.base) : key.base[i] \in IdChar) /\ Opens(35 - Len(KeyText(key)))
       \/ /\ \E word \in {Feature, Feat, Bug} : EndsAt(key.base, Len(key.base), word)
          /\ Opens(35 - Len(key.number))
       \/ /\ Len(slug) = 40 /\ EndsAt(slug, 3, Bug) /\ slug[4] = "-"
          /\ \A i \in 5..40 : slug[i] \in IdChar

\* "Push a branch with this name and ClearLoop links the pull request automatically", to
\* the feature it was shown for, whatever the text says, unless key and title mislead.
FeatureLinksBack ==
    opened /\ work \in Features /\ ~Misleading(work, title) => linked = work

\* The branch of a bug leads to the bug's feature; of a bug without one, nowhere.
BugLinksBack == opened /\ work \in Bugs => linked = Parent[work]

\* The branch that was shown for a feature or a bug leads back there.
LinksBack == FeatureLinksBack /\ BugLinksBack

\* "The trailing slug is free text for the developer's benefit and is ignored when matching,
\* so renaming it never breaks the link": whatever it is, the feature is found.
SlugIgnored == opened /\ work \in Features => linked = work
=============================================================================
