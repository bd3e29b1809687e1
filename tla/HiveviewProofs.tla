---------------------------- MODULE HiveviewProofs ----------------------------
(***************************************************************************)
(* First the selection on the suite page, for any tests, page length,      *)
(* orders and searches, and any use of the three pages.  It does not       *)
(* matter which row is found to be deselected: SelectedRow stays           *)
(* unexpanded.                                                             *)
(* Then the filters of the start page, for any runs, menus, queries and    *)
(* bookmarks, and last the types of the three pages.                       *)
(***************************************************************************)
EXTENDS Hiveview, SequenceTheorems, WellFoundedInduction, TLAPS

\* The page starts to load without details and without highlighted rows.
LoadsUnmarked == suite = "loading" => open = {} /\ highlighted = {}

MarksInv == HashNamesSelected /\ LoadsUnmarked

\* A record of marks whose hash names a test with details and highlighting only.
Consistent(m) ==
  /\ m.highlighted \subseteq m.open
  /\ m.hash \in Tests => m.hash \in m.open \cap m.highlighted

\* Selecting a test that has details: whatever row was deselected for it, the marks
\* are consistent, the details are as before, and the URL names the test.
LEMMA SelectedMarks ==
  ASSUME NEW m, m = [open |-> m.open, highlighted |-> m.highlighted, hash |-> m.hash],
         NEW r, NEW t \in Tests, t \in m.open, m.highlighted \subseteq m.open
  PROVE  LET n == Selected(m, r, t)
         IN Consistent(n) /\ n.open = m.open /\ n.hash = t
<1> DEFINE d == Deselected(m, SelectedRow(m, r), FALSE)
           n == Selected(m, r, t)
<1>1. d = [open |-> m.open, highlighted |-> m.highlighted \ {SelectedRow(m, r)},
           hash |-> NoTest]
  BY DEF Deselected
<1>2. n = [open |-> m.open,
           highlighted |-> (m.highlighted \ {SelectedRow(m, r)}) \cup {t}, hash |-> t]
  <2>1. n = [d EXCEPT !.highlighted = @ \cup {t}, !.hash = t]
    BY DEF Selected
  <2> HIDE DEF d, n
  <2> QED  BY <1>1, <2>1
<1> QED  BY <1>2 DEF Consistent

\* A click on a test: the marks stay consistent, the details of other tests stay, and
\* a test with details that is not highlighted keeps them and is named by the URL.
LEMMA ToggledMarks ==
  ASSUME NEW m, m = [open |-> m.open, highlighted |-> m.highlighted, hash |-> m.hash],
         NEW r, NEW t \in Tests, m.highlighted \subseteq m.open
  PROVE  LET n == Toggled(m, r, t)
         IN /\ Consistent(n)
            /\ n.open \ {t} = m.open \ {t}
            /\ t \notin m.open \cap m.highlighted => t \in n.open /\ n.hash = t
<1> DEFINE n == Toggled(m, r, t)
<1>1. CASE t \notin m.open
  <2> DEFINE k == [m EXCEPT !.open = @ \cup {t}]
  <2>1. k = [open |-> m.open \cup {t}, highlighted |-> m.highlighted, hash |-> m.hash]
    OBVIOUS
  <2>2. n = Selected(k, r, t)
    BY <1>1 DEF Toggled
  <2>3. Consistent(n) /\ n.open = k.open /\ n.hash = t
    <3> HIDE DEF n
    <3>1. k = [open |-> k.open, highlighted |-> k.highlighted, hash |-> k.hash]
      BY <2>1
    <3>2. t \in k.open /\ k.highlighted \subseteq k.open
      BY <2>1
    <3> HIDE DEF k
    <3> QED  BY <2>2, <3>1, <3>2, SelectedMarks
  <2> QED  BY <2>1, <2>3
<1>2. CASE t \in m.open /\ t \notin m.highlighted
  <2>1. n = Selected(m, r, t)
    BY <1>2 DEF Toggled
  <2>2. Consistent(n) /\ n.open = m.open /\ n.hash = t
    <3> HIDE DEF n
    <3> QED  BY <1>2, <2>1, SelectedMarks
  <2> QED  BY <1>2, <2>2
<1>3. CASE t \in m.open /\ t \in m.highlighted
  <2>1. n = [open |-> m.open \ {t}, highlighted |-> m.highlighted \ {t}, hash |-> NoTest]
    BY <1>3 DEF Toggled, Deselected
  <2>2. NoTest \notin Tests
    BY TestsAssumption DEF NoTest
  <2> QED  BY <1>3, <2>1, <2>2 DEF Consistent
<1> QED  BY <1>1, <1>2, <1>3

-----------------------------------------------------------------------------

LEMMA MarksInit == Init => MarksInv
  BY DEF Init, MarksInv, HashNamesSelected, LoadsUnmarked

\* Opening a page, or leaving it, removes the marks.
LEMMA MarksOpened ==
  ASSUME NEW t, OpenSuitePage(t) \/ CloseSuitePage
  PROVE  MarksInv'
  BY DEF OpenSuitePage, CloseSuitePage, Becomes, NoMarks, MarksInv, HashNamesSelected,
         LoadsUnmarked

LEMMA MarksLoaded ==
  ASSUME MarksInv, NEW o, SuiteLoaded(o)
  PROVE  MarksInv' /\ (hash \in Tests => hash' = hash /\ open' = {hash}
                                           /\ highlighted' = {hash})
<1> DEFINE r == [order |-> o, found |-> Tests, start |-> 0]
<1>1. /\ suite' = "shown" /\ open = {} /\ highlighted = {}
      /\ Becomes(IF hash \in Tests THEN Toggled(Marks, r, hash) ELSE Marks)
  <2>1. Scrolled(Marks, r) = IF hash \in Tests THEN Toggled(Marks, r, hash) ELSE Marks
    BY DEF Scrolled, Marks
  <2>2. Becomes(Scrolled(Marks, r)) /\ suite = "loading" /\ suite' = "shown"
    BY DEF SuiteLoaded
  <2> HIDE DEF r
  <2> QED  BY <2>1, <2>2 DEF MarksInv, LoadsUnmarked
<1>2. CASE hash \in Tests
  <2>1. Marks = [open |-> {}, highlighted |-> {}, hash |-> hash]
    BY <1>1 DEF Marks
  <2>2. Toggled(Marks, r, hash) = Selected([open |-> {hash}, highlighted |-> {}, hash |-> hash], r, hash)
    BY <2>1 DEF Toggled
  <2> DEFINE x == SelectedRow([open |-> {hash}, highlighted |-> {}, hash |-> hash], r)
  <2>3. Deselected([open |-> {hash}, highlighted |-> {}, hash |-> hash], x, FALSE)
          = [open |-> {hash}, highlighted |-> {}, hash |-> NoTest]
    BY DEF Deselected
  <2>4. Selected([open |-> {hash}, highlighted |-> {}, hash |-> hash], r, hash)
          = [open |-> {hash}, highlighted |-> {hash}, hash |-> hash]
    <3> DEFINE k == [open |-> {hash}, highlighted |-> {}, hash |-> hash]
               d == Deselected(k, x, FALSE)
    <3>1. Selected(k, r, hash) = [d EXCEPT !.highlighted = @ \cup {hash}, !.hash = hash]
      BY DEF Selected
    <3>2. d = [open |-> {hash}, highlighted |-> {}, hash |-> NoTest]
      BY <2>3
    <3> HIDE DEF d
    <3> QED  BY <3>1, <3>2
  <2>5. open' = {hash} /\ highlighted' = {hash} /\ hash' = hash
    BY <1>1, <1>2, <2>2, <2>4 DEF Becomes
  <2> QED  BY <1>1, <2>5 DEF MarksInv, HashNamesSelected, LoadsUnmarked
<1>3. CASE hash \notin Tests
  <2>1. open' = {} /\ highlighted' = {} /\ hash' = hash
    BY <1>1, <1>3 DEF Becomes, Marks
  <2> QED  BY <1>1, <1>3, <2>1 DEF MarksInv, HashNamesSelected, LoadsUnmarked
<1> QED  BY <1>2, <1>3

\* What a click does, in terms of the variables.
LEMMA MarksClicked ==
  ASSUME MarksInv, NEW t \in Tests, ClickTest(t)
  PROVE  /\ MarksInv'
         /\ open' \ {t} = open \ {t}
         /\ t \notin open \cap highlighted => t \in open' /\ hash' = t
<1> DEFINE n == Toggled(Marks, rows, t)
<1>1. suite = "shown" /\ suite' = "shown" /\ Becomes(n)
  BY DEF ClickTest
<1>2. Marks = [open |-> open, highlighted |-> highlighted, hash |-> hash]
  BY DEF Marks
<1>3. Marks.highlighted \subseteq Marks.open
  BY <1>1, <1>2 DEF MarksInv, HashNamesSelected
<1>4. /\ Consistent(n)
      /\ n.open \ {t} = open \ {t}
      /\ t \notin open \cap highlighted => t \in n.open /\ n.hash = t
  <2>1. Marks = [open |-> Marks.open, highlighted |-> Marks.highlighted, hash |-> Marks.hash]
    BY <1>2
  <2> HIDE DEF n
  <2>2. /\ Consistent(n)
        /\ n.open \ {t} = Marks.open \ {t}
        /\ t \notin Marks.open \cap Marks.highlighted => t \in n.open /\ n.hash = t
    BY <1>3, <2>1, ToggledMarks DEF n
  <2> QED  BY <1>2, <2>2
<1>5. open' = n.open /\ highlighted' = n.highlighted /\ hash' = n.hash
  BY <1>1 DEF Becomes
<1> HIDE DEF n
<1> QED  BY <1>1, <1>4, <1>5 DEF Consistent, MarksInv, HashNamesSelected, LoadsUnmarked

\* The other steps of the suite page, and those of the start page, change no marks.
LEMMA MarksKept ==
  ASSUME MarksInv, UNCHANGED <<open, highlighted, hash>>,
         suite' = suite \/ (suite = "loading" /\ suite' = "failed")
  PROVE  MarksInv'
  BY DEF MarksInv, HashNamesSelected, LoadsUnmarked

LEMMA MarksNext == MarksInv /\ [Next]_vars => MarksInv'
<1> SUFFICES ASSUME MarksInv, [Next]_vars PROVE MarksInv'
  OBVIOUS
<1>1. CASE IndexNext /\ UNCHANGED <<suiteVars, navVars>>
  BY <1>1, MarksKept DEF suiteVars
<1>2. CASE SuiteNext /\ UNCHANGED <<indexVars, navVars>>
  <2>1. CASE \E o \in Orders : SuiteLoaded(o)
    BY <2>1, MarksLoaded
  <2>2. CASE SuiteFailed
    BY <2>2, MarksKept DEF SuiteFailed
  <2>3. CASE \E t \in Tests : ClickTest(t)
    BY <2>3, MarksClicked
  <2>4. ASSUME NEW r, UseTable(r) PROVE MarksInv'
    BY <2>4, MarksKept DEF UseTable
  <2> QED  BY <1>2, <2>1, <2>2, <2>3, <2>4 DEF SuiteNext
<1>3. CASE OpenSuite
  BY <1>3, MarksOpened DEF OpenSuite
<1>4. CASE \E t \in Tests \cup {NoTest} : OpenLog(t)
  BY <1>4, MarksOpened DEF OpenLog
<1>5. CASE LinkBack
  BY <1>5, MarksOpened DEF LinkBack
<1>6. CASE Back
  BY <1>6, MarksOpened DEF Back
<1>7. CASE Reload
  BY <1>7, MarksOpened, MarksKept DEF Reload, suiteVars
<1>8. CASE UNCHANGED vars
  BY <1>8, MarksKept DEF vars, suiteVars
<1> QED  BY <1>1, <1>2, <1>3, <1>4, <1>5, <1>6, <1>7, <1>8 DEF Next

\* Whatever the reader does on the three pages, a test named by the URL of the suite
\* page has its details open and its row highlighted.
THEOREM Selection == Spec => []HashNamesSelected
<1>1. MarksInv => HashNamesSelected
  BY DEF MarksInv
<1> QED  BY MarksInit, MarksNext, <1>1, PTL DEF Spec

\* A click changes the details of no other test, and closes only a highlighted one.
THEOREM Clicks == Spec => ClickKeepsDetails
<1> DEFINE Keeps ==
      \A t \in Tests : ClickTest(t) =>
        /\ open' \ {t} = open \ {t}
        /\ t \in open \ highlighted => t \in open' /\ hash' = t
<1>1. MarksInv /\ [Next]_vars => [Keeps]_suiteVars
  BY MarksClicked
<1> QED  BY MarksInit, MarksNext, <1>1, PTL DEF Spec, ClickKeepsDetails

\* The test a link names is the one that is open and selected once the page is loaded.
THEOREM LinkedTest == Spec => LinkedTestOpened
<1> DEFINE Opens ==
      suite = "loading" /\ suite' = "shown" /\ hash \in Tests =>
        hash' = hash /\ open' = {hash} /\ highlighted' = {hash}
<1>1. MarksInv /\ [Next]_vars => [Opens]_suiteVars
  <2> SUFFICES ASSUME MarksInv, [Next]_vars, suite = "loading", suite' = "shown",
                      hash \in Tests
               PROVE  hash' = hash /\ open' = {hash} /\ highlighted' = {hash}
    OBVIOUS
  <2>1. CASE SuiteNext
    <3>1. \E o \in Orders : SuiteLoaded(o)
      BY <2>1 DEF SuiteNext, SuiteFailed, ClickTest, UseTable
    <3> QED  BY <3>1, MarksLoaded
  <2>2. CASE ~SuiteNext
    <3>1. \A t : ~OpenSuitePage(t) /\ ~CloseSuitePage
      BY DEF OpenSuitePage, CloseSuitePage
    <3> QED  BY <2>2, <3>1 DEF Next, OpenSuite, OpenLog, LinkBack, Back, Reload, vars,
                               suiteVars
  <2> QED  BY <2>1, <2>2
<1> QED  BY MarksInit, MarksNext, <1>1, PTL DEF Spec, LinkedTestOpened

-----------------------------------------------------------------------------
(* Induction over the natural numbers, for the definitions that are folds   *)

LEMMA LeastNat ==
  ASSUME NEW T \in SUBSET Nat, T # {}
  PROVE  \E x \in T : \A y \in T : x <= y
<1> DEFINE NatLess == {p \in Nat \X Nat : p[1] < p[2]}
<1>1. OpToRel(<, Nat) = NatLess
  BY DEF OpToRel
<1>2. IsWellFoundedOn(NatLess, Nat)
  BY <1>1, NatLessThanWellFounded
<1>3. \A x, y \in T : <<y, x>> \notin NatLess => x <= y
  OBVIOUS
<1>4. \E x \in T : \A y \in T : <<y, x>> \notin NatLess
  <2> HIDE DEF NatLess
  <2> QED  BY <1>2, WFMin
<1> QED  BY <1>3, <1>4

LEMMA Induct ==
  ASSUME NEW T, 0 \in T, \A n \in Nat : n \in T => n + 1 \in T
  PROVE  Nat \subseteq T
<1> SUFFICES ASSUME Nat \ T # {} PROVE FALSE
  OBVIOUS
<1>1. PICK x \in Nat \ T : \A y \in Nat \ T : x <= y
  BY LeastNat
<1>2. x # 0 /\ x - 1 \in Nat /\ x - 1 \in T
  BY <1>1
<1> QED  BY <1>1, <1>2

-----------------------------------------------------------------------------
(* The order of the filters in the URL                                      *)

LEMMA Appended ==
  ASSUME NEW S, NEW s \in Seq(S), NEW e \in S
  PROVE  Append(s, e) \in Seq(S) /\ ToSet(Append(s, e)) = ToSet(s) \cup {e}
<1> DEFINE t == Append(s, e)
<1>1. /\ t \in Seq(S) /\ Len(t) = Len(s) + 1 /\ Len(s) \in Nat
      /\ t[Len(s) + 1] = e /\ \A i \in 1..Len(s) : t[i] = s[i]
  OBVIOUS
<1>2. DOMAIN t = 1..Len(t) /\ DOMAIN s = 1..Len(s) /\ 1..(Len(s) + 1) = 1..Len(s) \cup {Len(s) + 1}
  BY <1>1
<1> HIDE DEF t
<1>3. {t[i] : i \in 1..Len(s)} = {s[i] : i \in 1..Len(s)}
  BY <1>1
<1>4. {t[i] : i \in DOMAIN t} = {t[i] : i \in 1..Len(s)} \cup {t[Len(s) + 1]}
  BY <1>1, <1>2
<1>5. ToSet(t) = ToSet(s) \cup {e}
  BY <1>1, <1>2, <1>3, <1>4 DEF ToSet
<1> QED  BY <1>1, <1>5 DEF t

LEMMA WithoutUnfolds ==
  ASSUME NEW s \in Seq(Keys), NEW k
  PROVE  \E w : /\ w = [i \in 0..Len(s) |->
                          IF i = 0 THEN <<>>
                          ELSE IF s[i] = k THEN w[i - 1] ELSE Append(w[i - 1], s[i])]
                /\ Without(s, k) = w[Len(s)]
<1> DEFINE Fold(n, w) == w = [i \in 0..n |->
                                IF i = 0 THEN <<>>
                                ELSE IF s[i] = k THEN w[i - 1] ELSE Append(w[i - 1], s[i])]
           T == {n \in Nat : \E w : Fold(n, w)}
<1>1. 0 \in T
  <2>1. Fold(0, [i \in 0..0 |-> <<>>])
    OBVIOUS
  <2> QED  BY <2>1
<1>2. ASSUME NEW n \in Nat, n \in T PROVE n + 1 \in T
  <2>1. PICK w : Fold(n, w)
    BY <1>2
  <2> DEFINE x == IF s[n + 1] = k THEN w[n] ELSE Append(w[n], s[n + 1])
             v == [i \in 0..(n + 1) |-> IF i = n + 1 THEN x ELSE w[i]]
  <2>2. Fold(n + 1, v)
    <3>1. \A i \in 0..(n + 1) : i = n + 1 \/ i \in 0..n
      OBVIOUS
    <3>2. \A i \in 0..n : i # 0 => i - 1 \in 0..n /\ i - 1 # n + 1 /\ i # n + 1
      OBVIOUS
    <3>3. \A i \in 0..n : v[i] = w[i]
      OBVIOUS
    <3>4. v[n + 1] = x /\ x = IF s[n + 1] = k THEN v[n] ELSE Append(v[n], s[n + 1])
      BY <3>3
    <3> HIDE DEF v, x
    <3>5. \A i \in 0..n : v[i] = IF i = 0 THEN <<>>
                                 ELSE IF s[i] = k THEN v[i - 1] ELSE Append(v[i - 1], s[i])
      BY <2>1, <3>2, <3>3
    <3>6. \A i \in 0..(n + 1) : v[i] = IF i = 0 THEN <<>>
                                 ELSE IF s[i] = k THEN v[i - 1] ELSE Append(v[i - 1], s[i])
      BY <3>1, <3>4, <3>5
    <3>7. v = [i \in 0..(n + 1) |-> v[i]]
      BY DEF v
    <3> QED  BY <3>6, <3>7
  <2> HIDE DEF Fold, v
  <2> QED  BY <2>2 DEF T
<1>3. Nat \subseteq T
  <2> HIDE DEF T
  <2> QED  BY <1>1, <1>2, Induct
<1>4. \E w : Fold(Len(s), w)
  <2>1. Len(s) \in T
    <3> HIDE DEF T
    <3> QED  BY <1>3
  <2> QED  BY <2>1
<1> QED  BY <1>4 DEF Without

LEMMA WithoutKeys ==
  ASSUME NEW s \in Seq(Keys), NEW k
  PROVE  Without(s, k) \in Seq(Keys) /\ ToSet(Without(s, k)) = ToSet(s) \ {k}
<1>1. PICK w : /\ w = [i \in 0..Len(s) |->
                         IF i = 0 THEN <<>>
                         ELSE IF s[i] = k THEN w[i - 1] ELSE Append(w[i - 1], s[i])]
               /\ Without(s, k) = w[Len(s)]
  BY WithoutUnfolds
<1> DEFINE Kept(n) == {s[i] : i \in 1..n} \ {k}
           T == {n \in Nat : n <= Len(s) => w[n] \in Seq(Keys) /\ ToSet(w[n]) = Kept(n)}
<1>2. 0 \in T
  <2>1. w[0] = <<>>
    BY <1>1
  <2>2. <<>> \in Seq(Keys) /\ ToSet(<<>>) = {} /\ Kept(0) = {}
    BY DEF ToSet
  <2> QED  BY <2>1, <2>2
<1>3. ASSUME NEW n \in Nat, n \in T PROVE n + 1 \in T
  <2> SUFFICES ASSUME n + 1 <= Len(s)
               PROVE  w[n + 1] \in Seq(Keys) /\ ToSet(w[n + 1]) = Kept(n + 1)
    OBVIOUS
  <2>1. /\ w[n] \in Seq(Keys) /\ ToSet(w[n]) = Kept(n)
        /\ w[n + 1] = IF s[n + 1] = k THEN w[n] ELSE Append(w[n], s[n + 1])
    <3>1. n + 1 \in 0..Len(s) /\ n + 1 # 0 /\ (n + 1) - 1 = n /\ n <= Len(s)
      OBVIOUS
    <3> QED  BY <1>1, <1>3, <3>1
  <2>2. s[n + 1] \in Keys /\ Kept(n + 1) = Kept(n) \cup ({s[n + 1]} \ {k})
    <3>1. 1..(n + 1) = 1..n \cup {n + 1}
      OBVIOUS
    <3> QED  BY <3>1
  <2>3. CASE s[n + 1] = k
    <3> HIDE DEF Kept
    <3> QED  BY <2>1, <2>2, <2>3
  <2>4. CASE s[n + 1] # k
    <3>1. /\ Append(w[n], s[n + 1]) \in Seq(Keys)
          /\ ToSet(Append(w[n], s[n + 1])) = ToSet(w[n]) \cup {s[n + 1]}
      BY <2>1, <2>2, Appended
    <3> HIDE DEF Kept
    <3> QED  BY <2>1, <2>2, <2>4, <3>1
  <2> QED  BY <2>3, <2>4
<1>4. Len(s) \in T
  <2> HIDE DEF T
  <2> QED  BY <1>2, <1>3, Induct
<1>5. Kept(Len(s)) = ToSet(s) \ {k}
  BY DEF ToSet
<1> QED  BY <1>1, <1>4, <1>5

-----------------------------------------------------------------------------
(* Applying filters                                                         *)

LEMMA ApplyAllUnfolds ==
  ASSUME NEW f, NEW value, NEW s \in Seq(Keys)
  PROVE  \E g : /\ g[0] = f
                /\ \A i \in 1..Len(s) : g[i] = Apply(g[i - 1], s[i], value[s[i]])
                /\ ApplyAll(f, value, s) = g[Len(s)]
<1> DEFINE Fold(n, g) == g = [i \in 0..n |->
                                IF i = 0 THEN f ELSE Apply(g[i - 1], s[i], value[s[i]])]
           T == {n \in Nat : \E g : Fold(n, g)}
<1>1. 0 \in T
  <2>1. Fold(0, [i \in 0..0 |-> f])
    OBVIOUS
  <2> QED  BY <2>1
<1>2. ASSUME NEW n \in Nat, n \in T PROVE n + 1 \in T
  <2>1. PICK g : Fold(n, g)
    BY <1>2
  <2> DEFINE x == Apply(g[n], s[n + 1], value[s[n + 1]])
             v == [i \in 0..(n + 1) |-> IF i = n + 1 THEN x ELSE g[i]]
  <2>2. Fold(n + 1, v)
    <3>1. \A i \in 0..(n + 1) : i = n + 1 \/ i \in 0..n
      OBVIOUS
    <3>2. \A i \in 0..n : i # 0 => i - 1 \in 0..n /\ i - 1 # n + 1 /\ i # n + 1
      OBVIOUS
    <3>3. \A i \in 0..n : v[i] = g[i]
      OBVIOUS
    <3>4. v[n + 1] = x /\ x = Apply(v[n], s[n + 1], value[s[n + 1]])
      BY <3>3
    <3> HIDE DEF v, x
    <3>5. \A i \in 0..n : v[i] = IF i = 0 THEN f ELSE Apply(v[i - 1], s[i], value[s[i]])
      BY <2>1, <3>2, <3>3
    <3>6. \A i \in 0..(n + 1) : v[i] = IF i = 0 THEN f ELSE Apply(v[i - 1], s[i], value[s[i]])
      BY <3>1, <3>4, <3>5
    <3>7. v = [i \in 0..(n + 1) |-> v[i]]
      BY DEF v
    <3> QED  BY <3>6, <3>7
  <2> HIDE DEF Fold, v
  <2> QED  BY <2>2 DEF T
<1>3. \E g : Fold(Len(s), g)
  <2>1. Len(s) \in T
    <3> HIDE DEF T
    <3> QED  BY <1>1, <1>2, Induct
  <2> QED  BY <2>1
<1>4. PICK g : Fold(Len(s), g) /\ ApplyAll(f, value, s) = g[Len(s)]
  BY <1>3 DEF ApplyAll
<1>5. g[0] = f /\ \A i \in 1..Len(s) : g[i] = Apply(g[i - 1], s[i], value[s[i]])
  <2>1. \A i \in 1..Len(s) : i \in 0..Len(s) /\ i # 0
    OBVIOUS
  <2> QED  BY <1>4, <2>1
<1> QED  BY <1>4, <1>5

\* The table of the page, and a set of filters with what it works on.
Table == [cols: [ColKeys -> Value], search: Queries \cup {NoQuery}, shown: SUBSET Listing]
FilterSet == [table: Table, url: Url, values: [Keys -> Value], notice: BOOLEAN]

LEMMA KeysAre == /\ Keys = {"daysago", "suite", "status", "client"} /\ ColKeys \subseteq Keys
                 /\ \A k \in Keys : k \in ColKeys <=> k # "client"
  BY DEF Keys, ColKeys

LEMMA NoValue == {} \in Value /\ NotAnOption \in Value
  BY DEF Value

\* What storing value v of filter k makes of a URL u.
IsStored(u, k, v, n) ==
  /\ n \in Url /\ n.group = u.group /\ n.sort = u.sort
  /\ n.value = [u.value EXCEPT ![k] = v]
  /\ v = {} => ToSet(n.order) = ToSet(u.order) \ {k}
  /\ v # {} => ToSet(n.order) = IF u.value[k] # {} THEN ToSet(u.order)
                                                   ELSE ToSet(u.order) \cup {k}

LEMMA StoredURL ==
  ASSUME NEW u \in Url, NEW k \in Keys, NEW v \in Value
  PROVE  IsStored(u, k, v, StoreToURL(u, k, v))
<1> DEFINE o == IF v = {} THEN Without(u.order, k)
                ELSE IF u.value[k] # {} THEN u.order ELSE Append(u.order, k)
           n == StoreToURL(u, k, v)
<1>1. u.order \in Seq(Keys) /\ u.value \in [Keys -> Value]
  BY DEF Url
<1>2. /\ o \in Seq(Keys)
      /\ ToSet(o) = IF v = {} THEN ToSet(u.order) \ {k}
                    ELSE IF u.value[k] # {} THEN ToSet(u.order) ELSE ToSet(u.order) \cup {k}
  <2>1. CASE v = {}
    BY <1>1, <2>1, WithoutKeys
  <2>2. CASE v # {} /\ u.value[k] # {}
    BY <1>1, <2>2
  <2>3. CASE v # {} /\ u.value[k] = {}
    <3>1. /\ Append(u.order, k) \in Seq(Keys)
          /\ ToSet(Append(u.order, k)) = ToSet(u.order) \cup {k}
      BY <1>1, Appended
    <3> QED  BY <2>3, <3>1
  <2> QED  BY <2>1, <2>2, <2>3
<1>3. n = [u EXCEPT !.value = [u.value EXCEPT ![k] = v], !.order = o]
  BY DEF StoreToURL, Url
<1> HIDE DEF n, o
<1>4. n \in Url /\ n.group = u.group /\ n.sort = u.sort /\ n.order = o
      /\ n.value = [u.value EXCEPT ![k] = v]
  BY <1>1, <1>2, <1>3 DEF Url
<1> QED  BY <1>2, <1>4 DEF n, IsStored

\* What drawing the table for value v of filter k makes of it.
IsFiltered(t, k, v, n) ==
  /\ n \in Table /\ n.search = t.search
  /\ n.cols = IF k = "client" THEN t.cols ELSE [t.cols EXCEPT ![k] = v]
  /\ n.shown = {r \in Searched(Listing, n.cols, t.search) :
                  k = "client" => Matches("client", v, r)}

LEMMA Filtered ==
  ASSUME NEW t \in Table, NEW k \in Keys, NEW v \in Value
  PROVE  IsFiltered(t, k, v, FilterRows(t, k, v))
<1> DEFINE n == FilterRows(t, k, v)
<1>1. CASE k = "client"
  <2> DEFINE S == {r \in Searched(Listing, t.cols, t.search) : Matches("client", v, r)}
  <2>1. n = [t EXCEPT !.shown = S]
    BY <1>1 DEF FilterRows, DrawClient, Draw, Table
  <2>2. S \subseteq Listing
    BY DEF Searched
  <2> HIDE DEF n, S
  <2>3. n \in Table /\ n.search = t.search /\ n.cols = t.cols /\ n.shown = S
    BY <2>1, <2>2 DEF Table
  <2> QED  BY <1>1, <2>3 DEF n, S, IsFiltered
<1>2. CASE k # "client"
  <2> DEFINE C == [t.cols EXCEPT ![k] = v]
             S == Searched(Listing, C, t.search)
  <2>1. n = [t EXCEPT !.cols = C, !.shown = S]
    BY <1>2 DEF FilterRows, Draw, Table
  <2>2. S \subseteq Listing /\ C \in [ColKeys -> Value]
    BY <1>2, KeysAre DEF Searched, Table
  <2> HIDE DEF n, C, S
  <2>3. n \in Table /\ n.search = t.search /\ n.cols = C /\ n.shown = S
    BY <2>1, <2>2 DEF Table
  <2> QED  BY <1>2, <2>3 DEF n, C, S, IsFiltered
<1> QED  BY <1>1, <1>2

\* What applying a filter does.
IsApplied(f, k, v, n) ==
  /\ n \in FilterSet
  /\ IsFiltered(f.table, k, v, n.table) /\ IsStored(f.url, k, v, n.url)
  /\ n.values = [f.values EXCEPT ![k] = v]
  /\ n.notice = (v # {} \/ \E j \in Keys \ {k} : f.values[j] # {})

LEMMA Applied ==
  ASSUME NEW f \in FilterSet, NEW k \in Keys, NEW v \in Value
  PROVE  IsApplied(f, k, v, Apply(f, k, v))
<1>1. /\ f.table \in Table /\ f.url \in Url /\ f.values \in [Keys -> Value]
  BY DEF FilterSet
<1>0. /\ IsFiltered(f.table, k, v, FilterRows(f.table, k, v))
      /\ IsStored(f.url, k, v, StoreToURL(f.url, k, v))
  BY <1>1, Filtered, StoredURL
<1>2. FilterRows(f.table, k, v) \in Table /\ StoreToURL(f.url, k, v) \in Url
  BY <1>0 DEF IsFiltered, IsStored
<1>3. [f.values EXCEPT ![k] = v] \in [Keys -> Value]
  BY <1>1
<1>4. (v # {} \/ \E j \in Keys \ {k} : f.values[j] # {}) \in BOOLEAN
  OBVIOUS
<1> QED  BY <1>0, <1>2, <1>3, <1>4 DEF Apply, FilterSet, IsApplied

\* A row is shown only if it satisfies the column filters, and is shown if it
\* satisfies all filters, and has the text searched for.
Found(t, r) == t.search \in r.hits \cup {NoQuery}
Within(t, value) == \A r \in t.shown : Found(t, r) /\ \A k \in ColKeys : Matches(k, value[k], r)
Covers(t, value) ==
  \A r \in Listing : Found(t, r) /\ (\A k \in Keys : Matches(k, value[k], r)) => r \in t.shown

LEMMA NothingStated == \A k \in Keys, r \in Listing : Matches(k, {}, r)
  BY DEF Matches

\* Drawing the table for one filter, while the column searches are some of value.
LEMMA FilteredRows ==
  ASSUME NEW t \in Table, NEW k \in Keys, NEW v \in Value, NEW n, IsFiltered(t, k, v, n),
         NEW value, value[k] = v, \A j \in ColKeys : j # k => t.cols[j] \in {value[j], {}}
  PROVE  /\ Within(n, n.cols) /\ Covers(n, value)
         /\ \A j \in ColKeys : n.cols[j] = IF j = k THEN v ELSE t.cols[j]
<1>1. /\ n \in Table /\ n.search = t.search
      /\ n.cols = IF k = "client" THEN t.cols ELSE [t.cols EXCEPT ![k] = v]
      /\ n.shown = {r \in Searched(Listing, n.cols, t.search) : k = "client" => Matches("client", v, r)}
  BY DEF IsFiltered
<1>2. \A j \in ColKeys : n.cols[j] = IF j = k THEN v ELSE t.cols[j]
  BY <1>1, KeysAre DEF Table
<1>3. Within(n, n.cols)
  BY <1>1 DEF Within, Found, Searched
<1>4. ASSUME NEW r \in Listing, Found(n, r), \A j \in Keys : Matches(j, value[j], r)
      PROVE  r \in n.shown
  <2>1. \A j \in ColKeys : Matches(j, n.cols[j], r)
    BY <1>2, <1>4, NothingStated, KeysAre
  <2>2. k = "client" => Matches("client", v, r)
    BY <1>4
  <2> QED  BY <1>1, <1>4, <2>1, <2>2 DEF Found, Searched
<1> QED  BY <1>2, <1>3, <1>4 DEF Covers

\* The order in the URL lists the filters it has a value for.
UrlExact(u) == \A k \in Keys : u.value[k] # {} <=> k \in ToSet(u.order)
Agrees(f) == UrlExact(f.url) /\ \A k \in ColKeys : f.table.cols[k] = f.url.value[k]

LEMMA AppliedAgrees ==
  ASSUME NEW f \in FilterSet, NEW k \in Keys, NEW v \in Value, Agrees(f),
         NEW n, IsApplied(f, k, v, n)
  PROVE  /\ Agrees(n) /\ Within(n.table, n.url.value) /\ Covers(n.table, n.url.value)
<1>1. n \in FilterSet /\ IsFiltered(f.table, k, v, n.table) /\ IsStored(f.url, k, v, n.url)
  BY DEF IsApplied
<1>2. f.table \in Table /\ f.url \in Url /\ f.url.value \in [Keys -> Value]
  BY DEF FilterSet, Url
<1>3. /\ n.url.value = [f.url.value EXCEPT ![k] = v]
      /\ ToSet(n.url.order) = IF v = {} THEN ToSet(f.url.order) \ {k}
                              ELSE IF f.url.value[k] # {} THEN ToSet(f.url.order)
                              ELSE ToSet(f.url.order) \cup {k}
  BY <1>1 DEF IsStored
<1>5. \A j \in Keys : n.url.value[j] = IF j = k THEN v ELSE f.url.value[j]
  BY <1>2, <1>3
<1>6. UrlExact(n.url)
  BY <1>3, <1>5 DEF UrlExact, Agrees
<1>7. /\ Within(n.table, n.table.cols) /\ Covers(n.table, n.url.value)
      /\ \A j \in ColKeys : n.table.cols[j] = n.url.value[j]
  <2>1. n.url.value[k] = v /\ \A j \in ColKeys : j # k => f.table.cols[j] \in {n.url.value[j], {}}
    BY <1>5, KeysAre DEF Agrees
  <2>2. /\ Within(n.table, n.table.cols) /\ Covers(n.table, n.url.value)
        /\ \A j \in ColKeys : n.table.cols[j] = IF j = k THEN v ELSE f.table.cols[j]
    BY <1>1, <1>2, <2>1, FilteredRows
  <2> QED  BY <1>5, <2>2, KeysAre DEF Agrees
<1>8. Within(n.table, n.url.value)
  BY <1>7 DEF Within
<1> QED  BY <1>6, <1>7, <1>8 DEF Agrees

\* One filter is cleared, which turns a set h of filters into n.
ClearedOne(h, k, n) ==
  /\ n \in FilterSet
  /\ \A j \in Keys : n.url.value[j] = IF j = k THEN {} ELSE h.url.value[j]
  /\ \A j \in Keys : n.values[j] = IF j = k THEN {} ELSE h.values[j]
  /\ ToSet(n.url.order) = ToSet(h.url.order) \ {k}
  /\ n.url.group = h.url.group /\ n.url.sort = h.url.sort
  /\ n.table.search = h.table.search
  /\ \A j \in ColKeys : n.table.cols[j] = IF j = k THEN {} ELSE h.table.cols[j]
  /\ n.table.shown = {r \in Searched(Listing, n.table.cols, h.table.search) :
                        k = "client" => Matches("client", {}, r)}
  /\ n.notice = \E j \in Keys \ {k} : h.values[j] # {}

LEMMA AppliedEmpty ==
  ASSUME NEW h \in FilterSet, NEW k \in Keys
  PROVE  ClearedOne(h, k, Apply(h, k, {}))
<1> DEFINE n == Apply(h, k, {})
<1>0. IsApplied(h, k, {}, n)
  BY Applied, NoValue
<1> HIDE DEF n
<1>1. /\ n \in FilterSet
      /\ IsFiltered(h.table, k, {}, n.table) /\ IsStored(h.url, k, {}, n.url)
      /\ n.values = [h.values EXCEPT ![k] = {}]
      /\ n.notice = \E j \in Keys \ {k} : h.values[j] # {}
  BY <1>0 DEF IsApplied
<1>2. h.table \in Table /\ h.url \in Url /\ h.url.value \in [Keys -> Value]
      /\ h.values \in [Keys -> Value] /\ h.table.cols \in [ColKeys -> Value]
  BY DEF FilterSet, Url, Table
<1>3. /\ n.url.group = h.url.group /\ n.url.sort = h.url.sort
      /\ n.url.value = [h.url.value EXCEPT ![k] = {}]
      /\ ToSet(n.url.order) = ToSet(h.url.order) \ {k}
  BY <1>1 DEF IsStored
<1>4. /\ n.table.search = h.table.search
      /\ n.table.cols = IF k = "client" THEN h.table.cols ELSE [h.table.cols EXCEPT ![k] = {}]
      /\ n.table.shown = {r \in Searched(Listing, n.table.cols, h.table.search) :
                            k = "client" => Matches("client", {}, r)}
  BY <1>1 DEF IsFiltered
<1>5. \A j \in ColKeys : n.table.cols[j] = IF j = k THEN {} ELSE h.table.cols[j]
  BY <1>2, <1>4, KeysAre
<1>6. /\ \A j \in Keys : n.url.value[j] = IF j = k THEN {} ELSE h.url.value[j]
      /\ \A j \in Keys : n.values[j] = IF j = k THEN {} ELSE h.values[j]
  BY <1>1, <1>2, <1>3
<1> QED  BY <1>1, <1>3, <1>4, <1>5, <1>6 DEF ClearedOne, n

\* All filters are cleared, which turns a set f of filters into n.
IsCleared(f, n) ==
  /\ n \in FilterSet
  /\ n.url.value = NoFilters /\ n.url.order = <<>>
  /\ n.url.group = f.url.group /\ n.url.sort = f.url.sort
  /\ n.values = NoFilters /\ ~n.notice
  /\ n.table.search = f.table.search /\ \A k \in ColKeys : n.table.cols[k] = {}
  /\ n.table.shown = {r \in Listing : f.table.search \in r.hits \cup {NoQuery}}

\* Clear applies an empty value to each of the filters.
LEMMA ClearedAll ==
  ASSUME NEW f \in FilterSet
  PROVE  IsCleared(f, ApplyAll(f, NoFilters, FilterOrder))
<1>0. /\ Len(FilterOrder) = 4
      /\ FilterOrder[1] = "daysago" /\ FilterOrder[2] = "suite"
      /\ FilterOrder[3] = "client" /\ FilterOrder[4] = "status"
      /\ \A k \in Keys : NoFilters[k] = {}
  BY DEF FilterOrder, NoFilters
<1>00. FilterOrder \in Seq(Keys)
  BY KeysAre DEF FilterOrder
<1>1. PICK g : /\ g[0] = f
               /\ \A i \in 1..Len(FilterOrder) :
                    g[i] = Apply(g[i - 1], FilterOrder[i], NoFilters[FilterOrder[i]])
               /\ ApplyAll(f, NoFilters, FilterOrder) = g[Len(FilterOrder)]
  BY <1>00, ApplyAllUnfolds
<1>2. /\ g[1] = Apply(f, "daysago", {}) /\ g[2] = Apply(g[1], "suite", {})
      /\ g[3] = Apply(g[2], "client", {}) /\ g[4] = Apply(g[3], "status", {})
      /\ ApplyAll(f, NoFilters, FilterOrder) = g[4]
  <2>1. /\ NoFilters["daysago"] = {} /\ NoFilters["suite"] = {}
        /\ NoFilters["client"] = {} /\ NoFilters["status"] = {}
    BY <1>0, KeysAre
  <2>2. 1 \in 1..4 /\ 2 \in 1..4 /\ 3 \in 1..4 /\ 4 \in 1..4 /\ 1 - 1 = 0 /\ 2 - 1 = 1
        /\ 3 - 1 = 2 /\ 4 - 1 = 3
    OBVIOUS
  <2> QED  BY <1>0, <1>1, <2>1, <2>2
<1> DEFINE a == g[1]  b == g[2]  c == g[3]  d == g[4]
<1>3. ClearedOne(f, "daysago", a) /\ a \in FilterSet
  <2>1. "daysago" \in Keys
    BY KeysAre
  <2>2. ClearedOne(f, "daysago", a)
    BY <1>2, <2>1, AppliedEmpty
  <2> QED  BY <2>2 DEF ClearedOne
<1>4. ClearedOne(a, "suite", b) /\ b \in FilterSet
  <2>1. "suite" \in Keys
    BY KeysAre
  <2>2. ClearedOne(a, "suite", b)
    BY <1>2, <1>3, <2>1, AppliedEmpty
  <2> QED  BY <2>2 DEF ClearedOne
<1>5. ClearedOne(b, "client", c) /\ c \in FilterSet
  <2>1. "client" \in Keys
    BY KeysAre
  <2>2. ClearedOne(b, "client", c)
    BY <1>2, <1>4, <2>1, AppliedEmpty
  <2> QED  BY <2>2 DEF ClearedOne
<1>6. ClearedOne(c, "status", d) /\ d \in FilterSet
  <2>1. "status" \in Keys
    BY KeysAre
  <2>2. ClearedOne(c, "status", d)
    BY <1>2, <1>5, <2>1, AppliedEmpty
  <2> QED  BY <2>2 DEF ClearedOne
<1>7. ApplyAll(f, NoFilters, FilterOrder) = d
  BY <1>2
<1> HIDE DEF a, b, c, d
<1>8. /\ d.url.group = f.url.group /\ d.url.sort = f.url.sort
      /\ d.table.search = f.table.search /\ c.table.search = f.table.search
  BY <1>3, <1>4, <1>5, <1>6 DEF ClearedOne
<1>9. d.url.value = NoFilters
  <2>1. d.url.value \in [Keys -> Value]
    BY <1>6 DEF FilterSet, Url
  <2>2. \A j \in Keys : d.url.value[j] = {}
    BY <1>3, <1>4, <1>5, <1>6, KeysAre DEF ClearedOne
  <2> QED  BY <2>1, <2>2 DEF NoFilters
<1>10. d.values = NoFilters /\ ~d.notice
  <2>1. d.values \in [Keys -> Value]
    BY <1>6 DEF FilterSet
  <2>2. \A j \in Keys : d.values[j] = {} /\ (j # "status" => c.values[j] = {})
    BY <1>3, <1>4, <1>5, <1>6, KeysAre DEF ClearedOne
  <2>3. ~d.notice
    BY <1>6, <2>2 DEF ClearedOne
  <2> QED  BY <2>1, <2>2, <2>3 DEF NoFilters
<1>11. d.url.order = <<>>
  <2>1. d.url.order \in Seq(Keys)
    BY <1>6 DEF FilterSet, Url
  <2>2. f.url.order \in Seq(Keys)
    BY DEF FilterSet, Url
  <2>3. ToSet(f.url.order) \subseteq Keys
    BY <2>2 DEF ToSet
  <2>4. ToSet(d.url.order) = {}
    BY <1>3, <1>4, <1>5, <1>6, <2>3, KeysAre DEF ClearedOne
  <2>5. Len(d.url.order) # 0 => 1 \in DOMAIN d.url.order
    BY <2>1
  <2>6. Len(d.url.order) = 0
    BY <2>4, <2>5 DEF ToSet
  <2> QED  BY <2>1, <2>6
<1>12. \A k \in ColKeys : d.table.cols[k] = {}
  BY <1>3, <1>4, <1>5, <1>6 DEF ClearedOne, ColKeys
<1>13. d.table.shown = {r \in Listing : f.table.search \in r.hits \cup {NoQuery}}
  <2>1. d.table.shown = Searched(Listing, d.table.cols, f.table.search)
    BY <1>6, <1>8 DEF ClearedOne
  <2>2. \A r \in Listing, k \in ColKeys : Matches(k, d.table.cols[k], r)
    BY <1>12, NothingStated, KeysAre
  <2> QED  BY <2>1, <2>2 DEF Searched
<1> QED  BY <1>6, <1>7, <1>8, <1>9, <1>10, <1>11, <1>12, <1>13 DEF IsCleared

-----------------------------------------------------------------------------
(* Loading the start page                                                   *)

\* The filters of a URL that are in its order up to n have been applied, which makes
\* a set f of filters.
AppliedUpTo(u, n, f) ==
  /\ f \in FilterSet /\ f.table.search = NoQuery
  /\ f.url.value = u.value /\ f.url.group = u.group /\ f.url.sort = u.sort
  /\ \A k \in Keys :
       k \in ToSet(f.url.order) <=>
         k \in ToSet(u.order) /\ (u.value[k] # {} \/ \A i \in 1..n : u.order[i] # k)
  /\ \A k \in ColKeys :
       f.table.cols[k] = IF \E i \in 1..n : u.order[i] = k THEN u.value[k] ELSE {}
  /\ Within(f.table, f.table.cols) /\ Covers(f.table, u.value)

\* The page before any filter is applied.
Unfiltered(u) ==
  [table |-> [cols |-> [k \in ColKeys |-> {}], search |-> NoQuery, shown |-> Listing],
   url |-> u, values |-> NoFilters, notice |-> FALSE]

LEMMA NoneApplied ==
  ASSUME NEW u \in Url
  PROVE  AppliedUpTo(u, 0, Unfiltered(u))
<1> DEFINE f == Unfiltered(u)
<1>1. /\ f.table.search = NoQuery /\ f.table.shown = Listing /\ f.url = u
      /\ f.table.cols = [k \in ColKeys |-> {}] /\ \A k \in ColKeys : f.table.cols[k] = {}
  BY DEF Unfiltered
<1>2. f \in FilterSet
  BY NoValue DEF Unfiltered, FilterSet, Table, NoFilters
<1> HIDE DEF f
<1>3. Within(f.table, f.table.cols) /\ Covers(f.table, u.value)
  <2>1. \A r \in Listing, k \in ColKeys : Matches(k, f.table.cols[k], r)
    BY <1>1, NothingStated, KeysAre
  <2> QED  BY <1>1, <2>1 DEF Within, Covers, Found
<1>4. \A k : \A i \in 1..0 : u.order[i] # k
  OBVIOUS
<1>5. \A k : ~ \E i \in 1..0 : u.order[i] = k
  OBVIOUS
<1> QED  BY <1>1, <1>2, <1>3, <1>4, <1>5 DEF AppliedUpTo, f

LEMMA OneMoreApplied ==
  ASSUME NEW u \in Url, NEW n \in Nat, n + 1 \in 1..Len(u.order),
         NEW f, AppliedUpTo(u, n, f), NEW k, k = u.order[n + 1]
  PROVE  AppliedUpTo(u, n + 1, Apply(f, k, u.value[k]))
<1> DEFINE v == u.value[k]
           a == Apply(f, k, v)
<1>1. /\ u.order \in Seq(Keys) /\ u.value \in [Keys -> Value]
      /\ k \in Keys /\ v \in Value /\ k \in ToSet(u.order)
  BY DEF Url, ToSet
<1>2. /\ f \in FilterSet /\ f.table \in Table /\ f.url \in Url /\ f.url.value = u.value
      /\ f.url.value[k] = v
  BY DEF AppliedUpTo, FilterSet
<1>3. IsApplied(f, k, v, a)
  BY <1>1, <1>2, Applied
<1> HIDE DEF a
<1>4. a \in FilterSet /\ IsFiltered(f.table, k, v, a.table) /\ IsStored(f.url, k, v, a.url)
  BY <1>3 DEF IsApplied
<1>5. \A j : (\E i \in 1..(n + 1) : u.order[i] = j) <=> j = k \/ \E i \in 1..n : u.order[i] = j
  <2>1. 1..(n + 1) = 1..n \cup {n + 1}
    OBVIOUS
  <2> QED  BY <2>1
<1>6. /\ a.table.search = NoQuery
      /\ a.url.value = u.value /\ a.url.group = u.group /\ a.url.sort = u.sort
  <2>1. [u.value EXCEPT ![k] = v] = u.value
    BY <1>1
  <2> QED  BY <1>2, <1>4, <2>1 DEF IsFiltered, IsStored, AppliedUpTo
<1>7. ToSet(a.url.order) = IF v = {} THEN ToSet(f.url.order) \ {k} ELSE ToSet(f.url.order)
  BY <1>2, <1>4 DEF IsStored
<1>8. ASSUME NEW j \in Keys
      PROVE  j \in ToSet(a.url.order) <=>
               j \in ToSet(u.order) /\ (u.value[j] # {} \/ \A i \in 1..(n + 1) : u.order[i] # j)
  <2>1. j \in ToSet(f.url.order) <=>
          j \in ToSet(u.order) /\ (u.value[j] # {} \/ ~ \E i \in 1..n : u.order[i] = j)
    BY DEF AppliedUpTo
  <2>2. (\A i \in 1..(n + 1) : u.order[i] # j) <=> ~ \E i \in 1..(n + 1) : u.order[i] = j
    OBVIOUS
  <2> QED  BY <1>5, <1>7, <2>1, <2>2
<1>9. /\ Within(a.table, a.table.cols) /\ Covers(a.table, u.value)
      /\ \A j \in ColKeys : a.table.cols[j] = IF j = k THEN v ELSE f.table.cols[j]
  <2>1. \A j \in ColKeys : j # k => f.table.cols[j] \in {u.value[j], {}}
    BY DEF AppliedUpTo
  <2>2. v = u.value[k]
    OBVIOUS
  <2> HIDE DEF v
  <2> QED  BY <1>1, <1>2, <1>4, <2>1, <2>2, FilteredRows
<1>10. \A j \in ColKeys :
         a.table.cols[j] = IF \E i \in 1..(n + 1) : u.order[i] = j THEN u.value[j] ELSE {}
  <2>1. \A j \in ColKeys :
          f.table.cols[j] = IF \E i \in 1..n : u.order[i] = j THEN u.value[j] ELSE {}
    BY DEF AppliedUpTo
  <2> QED  BY <1>5, <1>9, <2>1
<1>11. AppliedUpTo(u, n + 1, a)
  BY <1>4, <1>6, <1>8, <1>9, <1>10 DEF AppliedUpTo
<1> QED  BY <1>11 DEF a

\* What the <select>s state for the values of a URL.
StatedBy(value) ==
  [k \in Keys |-> IF value[k] \in Options(k) \cup {{}} THEN value[k] ELSE NotAnOption]

\* The page p was loaded from a URL u.
IsLoaded(u, p) ==
  /\ [table |-> p.table, url |-> p.url, values |-> p.values, notice |-> p.notice] \in FilterSet
  /\ UrlExact(p.url)
  /\ p.url.value = u.value /\ p.url.group = u.group /\ p.url.sort = u.sort
  /\ \A k \in ColKeys : p.table.cols[k] = u.value[k]
  /\ Within(p.table, u.value) /\ Covers(p.table, u.value)
  /\ p.selects = StatedBy(u.value)
  /\ p.boxes \in [group: Groups, sort: Sorts, stated: Sorts]
  /\ p.boxes.group = u.group /\ p.boxes.stated = u.sort

\* Loading the page from a URL applies all filters of the URL, whatever their order.
LEMMA LoadedPage ==
  ASSUME NEW u \in Url, \A k \in Keys : u.value[k] # {} => k \in ToSet(u.order)
  PROVE  IsLoaded(u, Loaded(u))
<1> DEFINE f == ApplyAll(Unfiltered(u), u.value, u.order)
           p == Loaded(u)
<1>1. u.order \in Seq(Keys) /\ Len(u.order) \in Nat
  BY DEF Url
<1>2. PICK g : /\ g[0] = Unfiltered(u)
               /\ \A i \in 1..Len(u.order) :
                    g[i] = Apply(g[i - 1], u.order[i], u.value[u.order[i]])
               /\ f = g[Len(u.order)]
  <2>1. \A e, x : \E g : /\ g[0] = e
                         /\ \A i \in 1..Len(u.order) :
                              g[i] = Apply(g[i - 1], u.order[i], x[u.order[i]])
                         /\ ApplyAll(e, x, u.order) = g[Len(u.order)]
    BY <1>1, ApplyAllUnfolds
  <2> QED  BY <2>1
<1> DEFINE T == {n \in Nat : n <= Len(u.order) => AppliedUpTo(u, n, g[n])}
<1>3. 0 \in T
  BY <1>2, NoneApplied
<1>4. ASSUME NEW n \in Nat, n \in T PROVE n + 1 \in T
  <2> SUFFICES ASSUME n + 1 <= Len(u.order) PROVE AppliedUpTo(u, n + 1, g[n + 1])
    OBVIOUS
  <2>1. n <= Len(u.order) /\ n + 1 \in 1..Len(u.order) /\ (n + 1) - 1 = n
    BY <1>1
  <2>2. AppliedUpTo(u, n, g[n])
    BY <1>4, <2>1
  <2>3. g[n + 1] = Apply(g[n], u.order[n + 1], u.value[u.order[n + 1]])
    BY <1>2, <2>1
  <2> QED  BY <2>1, <2>2, <2>3, OneMoreApplied
<1>5. AppliedUpTo(u, Len(u.order), f)
  <2>1. Len(u.order) \in T
    <3> HIDE DEF T
    <3> QED  BY <1>1, <1>3, <1>4, Induct
  <2> QED  BY <1>1, <1>2, <2>1
<1>6. \A k : k \in ToSet(u.order) <=> \E i \in 1..Len(u.order) : u.order[i] = k
  BY <1>1 DEF ToSet
<1>7. p = [table |-> f.table, url |-> f.url, values |-> f.values, notice |-> f.notice,
           selects |-> StatedBy(u.value),
           boxes |-> Sorted([group |-> u.group, sort |-> "name", stated |-> "name"], u.sort)]
  BY DEF Loaded, Unfiltered, StatedBy
<1> HIDE DEF f, p
<1>8. [table |-> f.table, url |-> f.url, values |-> f.values, notice |-> f.notice] \in FilterSet
  BY <1>5 DEF AppliedUpTo, FilterSet
<1>9. UrlExact(f.url)
  <2>1. \A k \in Keys :
          k \in ToSet(f.url.order) <=>
            k \in ToSet(u.order) /\ (u.value[k] # {} \/ k \notin ToSet(u.order))
    BY <1>5, <1>6 DEF AppliedUpTo
  <2>2. f.url.value = u.value
    BY <1>5 DEF AppliedUpTo
  <2> QED  BY <2>1, <2>2 DEF UrlExact
<1>10. \A k \in ColKeys : f.table.cols[k] = u.value[k]
  BY <1>5, <1>6, KeysAre DEF AppliedUpTo
<1>11. Within(f.table, u.value) /\ Covers(f.table, u.value)
  BY <1>5, <1>10 DEF AppliedUpTo, Within
<1>12. /\ p.boxes \in [group: Groups, sort: Sorts, stated: Sorts]
       /\ p.boxes.group = u.group /\ p.boxes.stated = u.sort
  BY <1>7 DEF Sorted, Url, Sorts
<1>13. f.url.value = u.value /\ f.url.group = u.group /\ f.url.sort = u.sort
  BY <1>5 DEF AppliedUpTo
<1>14. /\ p.table = f.table /\ p.url = f.url /\ p.values = f.values /\ p.notice = f.notice
       /\ p.selects = StatedBy(u.value)
  BY <1>7
<1>15. IsLoaded(u, p)
  BY <1>8, <1>9, <1>10, <1>11, <1>12, <1>13, <1>14 DEF IsLoaded
<1> QED  BY <1>15 DEF p
-----------------------------------------------------------------------------
(* The start page in all its states                                         *)

\* The <select>s, the boxes and the column searches follow the URL.
PageAgrees ==
  index = "shown" =>
    /\ selects = StatedBy(url.value)
    /\ boxes.group = url.group /\ boxes.stated = url.sort
    /\ \A k \in ColKeys : table.cols[k] = url.value[k]

IndexInv ==
  /\ IndexTypeOK /\ PageAgrees
  /\ Within(table, url.value) /\ (index = "shown" => Covers(table, url.value))

\* The sets of filters a handler starts from.
LEMMA SetsAgree ==
  ASSUME IndexInv, index = "shown"
  PROVE  /\ OwnSet \in FilterSet /\ Agrees(OwnSet) /\ NewSet \in FilterSet /\ Agrees(NewSet)
         /\ OwnSet.url = url /\ OwnSet.table = table /\ NewSet.url = url
<1>1. /\ OwnSet = [table |-> table, url |-> url, values |-> values, notice |-> notice]
      /\ NewSet = [table |-> table, url |-> url, values |-> NoFilters, notice |-> notice]
  BY DEF OwnSet, NewSet
<1>2. OwnSet \in FilterSet /\ NewSet \in FilterSet
  BY <1>1, NoValue DEF IndexInv, IndexTypeOK, FilterSet, Table, NoFilters
<1>3. UrlExact(url) /\ \A k \in ColKeys : table.cols[k] = url.value[k]
  BY DEF IndexInv, IndexTypeOK, UrlExact, PageAgrees
<1> QED  BY <1>1, <1>2, <1>3 DEF Agrees

\* A handler that leaves the page in agreement with a set f of filters, and f in
\* agreement with itself, keeps the invariant.
LEMMA PageKept ==
  ASSUME NEW f \in FilterSet, Agrees(f), Shows(f),
         Within(f.table, f.url.value), Covers(f.table, f.url.value),
         values' \in [Keys -> Value], selects' = StatedBy(f.url.value),
         boxes' \in [group: Groups, sort: Sorts, stated: Sorts],
         boxes'.group = f.url.group, boxes'.stated = f.url.sort
  PROVE  IndexInv'
<1>1. /\ index' = "shown" /\ table' = f.table /\ url' = f.url /\ notice' = f.notice
      /\ f.table \in Table /\ f.url \in Url /\ f.notice \in BOOLEAN
  BY DEF Shows, FilterSet
<1>2. StatedBy(f.url.value) \in [Keys -> Value]
  BY <1>1, NoValue DEF StatedBy, Url
<1>3. IndexTypeOK'
  BY <1>1, <1>2 DEF IndexTypeOK, Table, Agrees, UrlExact
<1>4. PageAgrees'
  BY <1>1 DEF PageAgrees, Agrees
<1>5. Within(table, url.value)' /\ Covers(table, url.value)'
  BY <1>1 DEF Within, Covers, Found
<1> QED  BY <1>3, <1>4, <1>5 DEF IndexInv

LEMMA OptionValues == \A k \in Keys : Options(k) \subseteq Value
<1> SUFFICES ASSUME NEW k \in Keys, NEW v \in Options(k) PROVE v \in Value
  OBVIOUS
<1>1. Options(k) \cup {u.value[k] : u \in Bookmarks}
        \in {Options(j) \cup {u.value[j] : u \in Bookmarks} : j \in Keys}
  OBVIOUS
<1> QED  BY <1>1 DEF Value

\* An option that is chosen, or found in a row, is stated as it is.
LEMMA StatedOption ==
  ASSUME NEW value \in [Keys -> Value], NEW k \in Keys, NEW v \in Options(k) \cup {{}}
  PROVE  [StatedBy(value) EXCEPT ![k] = v] = StatedBy([value EXCEPT ![k] = v])
  BY DEF StatedBy

LEMMA ChooseKeeps ==
  ASSUME IndexInv, NEW k \in Keys, NEW v \in Options(k) \cup {{}}, ChooseOption(k, v)
  PROVE  IndexInv'
<1> DEFINE f == Apply(OwnSet, k, v)
<1>1. /\ index = "shown" /\ Shows(f) /\ values' = f.values
      /\ selects' = [selects EXCEPT ![k] = v] /\ boxes' = boxes
  BY DEF ChooseOption, Shows
<1>2. v \in Value
  BY OptionValues, NoValue
<1>3. IsApplied(OwnSet, k, v, f)
  BY <1>1, <1>2, SetsAgree, Applied
<1> HIDE DEF f
<1>4. /\ f \in FilterSet /\ f.values \in [Keys -> Value] /\ IsStored(url, k, v, f.url)
  BY <1>1, <1>3, SetsAgree DEF IsApplied, FilterSet
<1>5. Agrees(f) /\ Within(f.table, f.url.value) /\ Covers(f.table, f.url.value)
  BY <1>1, <1>2, <1>3, SetsAgree, AppliedAgrees
<1>6. /\ f.url.value = [url.value EXCEPT ![k] = v]
      /\ f.url.group = url.group /\ f.url.sort = url.sort
  BY <1>4 DEF IsStored
<1>7. selects' = StatedBy(f.url.value)
  <2>1. url.value \in [Keys -> Value] /\ selects = StatedBy(url.value)
    BY <1>1 DEF IndexInv, IndexTypeOK, PageAgrees, Url
  <2> QED  BY <1>1, <1>6, <2>1, StatedOption
<1>8. /\ boxes' \in [group: Groups, sort: Sorts, stated: Sorts]
      /\ boxes'.group = f.url.group /\ boxes'.stated = f.url.sort
  BY <1>1, <1>6 DEF IndexInv, IndexTypeOK, PageAgrees
<1> QED  BY <1>1, <1>4, <1>5, <1>7, <1>8, PageKept

LEMMA FilterBothKeeps ==
  ASSUME IndexInv, NEW j \in Keys, NEW v \in Options(j) \cup {{}},
         NEW k \in Keys, NEW w \in Options(k) \cup {{}}, FilterBoth(j, v, k, w)
  PROVE  IndexInv'
<1> DEFINE e == Apply(NewSet, j, v)
           f == Apply(e, k, w)
<1>1. /\ index = "shown" /\ Shows(f) /\ values' = values
      /\ selects' = [selects EXCEPT ![j] = v, ![k] = w] /\ boxes' = boxes
  BY DEF FilterBoth, Shows
<1>2. v \in Value /\ w \in Value
  BY OptionValues, NoValue
<1>3. IsApplied(NewSet, j, v, e)
  BY <1>1, <1>2, SetsAgree, Applied
<1>4. e \in FilterSet /\ IsStored(url, j, v, e.url)
  <2> HIDE DEF e
  <2> QED  BY <1>1, <1>3, SetsAgree DEF IsApplied
<1>5. IsApplied(e, k, w, f)
  <2>1. \A h \in FilterSet : IsApplied(h, k, w, Apply(h, k, w))
    BY <1>2, Applied
  <2> HIDE DEF e
  <2> QED  BY <1>4, <2>1
<1> HIDE DEF e, f
<1>6. f \in FilterSet /\ IsStored(e.url, k, w, f.url)
  BY <1>5 DEF IsApplied
<1>7. Agrees(e)
  BY <1>1, <1>2, <1>3, SetsAgree, AppliedAgrees
<1>8. Agrees(f) /\ Within(f.table, f.url.value) /\ Covers(f.table, f.url.value)
  BY <1>2, <1>4, <1>5, <1>7, AppliedAgrees
<1>9. /\ e.url.value = [url.value EXCEPT ![j] = v]
      /\ f.url.value = [e.url.value EXCEPT ![k] = w]
      /\ f.url.group = url.group /\ f.url.sort = url.sort
  BY <1>4, <1>6 DEF IsStored
<1>10. selects' = StatedBy(f.url.value)
  <2>1. url.value \in [Keys -> Value] /\ selects = StatedBy(url.value)
    BY <1>1 DEF IndexInv, IndexTypeOK, PageAgrees, Url
  <2>2. [selects EXCEPT ![j] = v] = StatedBy(e.url.value) /\ e.url.value \in [Keys -> Value]
    BY <1>2, <1>9, <2>1, StatedOption
  <2>3. selects' = [[selects EXCEPT ![j] = v] EXCEPT ![k] = w]
    BY <1>1
  <2>4. [StatedBy(e.url.value) EXCEPT ![k] = w] = StatedBy([e.url.value EXCEPT ![k] = w])
    BY <2>2, StatedOption
  <2> QED  BY <1>9, <2>2, <2>3, <2>4
<1>11. /\ boxes' \in [group: Groups, sort: Sorts, stated: Sorts]
       /\ boxes'.group = f.url.group /\ boxes'.stated = f.url.sort
  BY <1>1, <1>9 DEF IndexInv, IndexTypeOK, PageAgrees
<1>12. values' \in [Keys -> Value]
  BY <1>1 DEF IndexInv, IndexTypeOK
<1> QED  BY <1>1, <1>6, <1>8, <1>10, <1>11, <1>12, PageKept

\* A click on a box or a funnel button: the names in a row are options.
LEMMA BoxKeeps ==
  ASSUME IndexInv, NEW r \in Listing,
         \/ FilterSuite(r.name)
         \/ \E c \in r.clients :
              FilterClient(c) \/ \E cs \in {r.clients, {c}} : FilterSuiteAndClient(r.name, cs)
  PROVE  IndexInv'
<1>1. "suite" \in Keys /\ "client" \in Keys
  BY KeysAre
<1>2. {r.name} \in Options("suite")
  BY DEF Options
<1>3. r.clients \in Options("client") /\ \A c \in r.clients : {c} \in Options("client")
  BY DEF Options
<1>4. CASE FilterSuite(r.name)
  BY <1>1, <1>2, <1>4, FilterBothKeeps DEF FilterSuite
<1>5. ASSUME NEW c \in r.clients, FilterClient(c) PROVE IndexInv'
  BY <1>1, <1>3, <1>5, FilterBothKeeps DEF FilterClient
<1>6. ASSUME NEW c \in r.clients, NEW cs \in {r.clients, {c}}, FilterSuiteAndClient(r.name, cs)
      PROVE  IndexInv'
  <2>1. cs \in Options("client") /\ FilterBoth("suite", {r.name}, "client", cs)
    BY <1>3, <1>6 DEF FilterSuiteAndClient
  <2> QED  BY <1>1, <1>2, <2>1, FilterBothKeeps
<1> QED  BY <1>4, <1>5, <1>6

LEMMA ClearKeeps ==
  ASSUME IndexInv, Clear
  PROVE  IndexInv'
<1>1. /\ index = "shown" /\ Shows(Cleared) /\ values' = Cleared.values
      /\ selects' = NoFilters /\ boxes' = boxes
  BY DEF Clear, Shows
<1>2. IsCleared(OwnSet, Cleared)
  BY <1>1, SetsAgree, ClearedAll DEF Cleared
<1>3. /\ Cleared \in FilterSet /\ Cleared.values \in [Keys -> Value]
      /\ Cleared.url.value = NoFilters /\ Cleared.url.order = <<>>
      /\ Cleared.url.group = url.group /\ Cleared.url.sort = url.sort
      /\ \A k \in ColKeys : Cleared.table.cols[k] = {}
      /\ Cleared.table.search = table.search
      /\ Cleared.table.shown = {r \in Listing : table.search \in r.hits \cup {NoQuery}}
  BY <1>1, <1>2, SetsAgree DEF IsCleared, FilterSet
<1>4. Agrees(Cleared)
  <2>1. ToSet(Cleared.url.order) = {} /\ \A k \in Keys : Cleared.url.value[k] = {}
    BY <1>3 DEF ToSet, NoFilters
  <2> QED  BY <1>3, <2>1, KeysAre DEF Agrees, UrlExact
<1>5. Within(Cleared.table, Cleared.url.value) /\ Covers(Cleared.table, Cleared.url.value)
  <2>1. \A r \in Listing, k \in ColKeys : Matches(k, Cleared.url.value[k], r)
    BY <1>3, NothingStated, KeysAre DEF NoFilters
  <2> QED  BY <1>3, <2>1 DEF Within, Covers, Found
<1>6. selects' = StatedBy(Cleared.url.value)
  BY <1>1, <1>3 DEF StatedBy, NoFilters
<1>7. /\ boxes' \in [group: Groups, sort: Sorts, stated: Sorts]
      /\ boxes'.group = Cleared.url.group /\ boxes'.stated = Cleared.url.sort
  BY <1>1, <1>3 DEF IndexInv, IndexTypeOK, PageAgrees
<1> QED  BY <1>1, <1>3, <1>4, <1>5, <1>6, <1>7, PageKept
\* The rows are searched again, from a base that has all rows which are to be found.
IsBase(base, q, value) ==
  /\ base \subseteq Listing
  /\ \A r \in Listing : q \in r.hits \cup {NoQuery} /\ (\A k \in Keys : Matches(k, value[k], r))
                         => r \in base

LEMMA SearchedRows ==
  ASSUME NEW t \in Table, NEW q \in Queries \cup {NoQuery},
         NEW value, \A k \in ColKeys : t.cols[k] = value[k],
         NEW base, IsBase(base, q, value),
         NEW n, n = [t EXCEPT !.search = q, !.shown = Searched(base, t.cols, q)]
  PROVE  n \in Table /\ n.cols = t.cols /\ Within(n, value) /\ Covers(n, value)
<1>1. Searched(base, t.cols, q) \subseteq Listing
  BY DEF Searched, IsBase
<1>2. /\ n \in Table /\ n.cols = t.cols /\ n.search = q /\ n.shown = Searched(base, t.cols, q)
  BY <1>1 DEF Table
<1>3. Within(n, value)
  BY <1>2 DEF Within, Found, Searched
<1>4. Covers(n, value)
  BY <1>2, KeysAre DEF Covers, Found, Searched, IsBase
<1> QED  BY <1>2, <1>3, <1>4

\* A handler that leaves the filters alone.
LEMMA ViewKept ==
  ASSUME IndexInv, NEW t \in Table, t.cols = table.cols,
         Within(t, url.value), Covers(t, url.value),
         NEW group \in Groups, NEW sort \in Sorts,
         Shows([table |-> t, url |-> [url EXCEPT !.group = group, !.sort = sort],
                values |-> values, notice |-> notice]),
         UNCHANGED <<values, selects>>,
         boxes' \in [group: Groups, sort: Sorts, stated: Sorts],
         boxes'.group = group, boxes'.stated = sort
  PROVE  IndexInv'
<1> DEFINE u == [url EXCEPT !.group = group, !.sort = sort]
           f == [table |-> t, url |-> u, values |-> values, notice |-> notice]
<1>1. index = "shown" /\ Shows(f)
  BY DEF Shows
<1>2. url \in Url /\ values \in [Keys -> Value] /\ notice \in BOOLEAN
  BY DEF IndexInv, IndexTypeOK
<1>3. /\ u \in Url /\ u.value = url.value /\ u.order = url.order
      /\ u.group = group /\ u.sort = sort
  BY <1>2 DEF Url
<1>4. /\ f.table = t /\ f.url = u /\ f.values = values /\ f.notice = notice
  OBVIOUS
<1>5. f \in FilterSet
  BY <1>2, <1>3 DEF FilterSet
<1> HIDE DEF u, f
<1>6. Agrees(f)
  BY <1>1, <1>3, <1>4 DEF Agrees, UrlExact, IndexInv, IndexTypeOK, PageAgrees
<1>7. selects' = StatedBy(f.url.value)
  BY <1>1, <1>3, <1>4 DEF IndexInv, PageAgrees
<1>8. Within(f.table, f.url.value) /\ Covers(f.table, f.url.value)
  BY <1>3, <1>4
<1>9. values' \in [Keys -> Value] /\ boxes'.group = f.url.group /\ boxes'.stated = f.url.sort
  BY <1>2, <1>3, <1>4
<1> QED  BY <1>1, <1>5, <1>6, <1>7, <1>8, <1>9, PageKept

\* The search field and the column heads.
LEMMA SearchKeeps ==
  ASSUME IndexInv, (\E q \in Queries \cup {NoQuery} : Search(q)) \/ SortRows
  PROVE  IndexInv'
<1>1. /\ index = "shown" /\ UNCHANGED <<values, selects, boxes>>
      /\ table \in Table /\ url \in Url /\ table.shown \subseteq Listing
      /\ boxes \in [group: Groups, sort: Sorts, stated: Sorts]
      /\ boxes.group = url.group /\ boxes.stated = url.sort
      /\ \A k \in ColKeys : table.cols[k] = url.value[k]
      /\ Covers(table, url.value)
  BY DEF Search, SortRows, Shows, IndexInv, IndexTypeOK, PageAgrees, Table
<1>2. ASSUME NEW t, Shows([OwnSet EXCEPT !.table = t])
      PROVE  Shows([table |-> t, url |-> [url EXCEPT !.group = url.group, !.sort = url.sort],
                    values |-> values, notice |-> notice])
  <2>1. [url EXCEPT !.group = url.group, !.sort = url.sort] = url
    BY <1>1 DEF Url
  <2> QED  BY <1>2, <2>1 DEF OwnSet
<1>3. ASSUME NEW q \in Queries \cup {NoQuery}, NEW base, IsBase(base, q, url.value),
             NEW t, t = [table EXCEPT !.search = q, !.shown = Searched(base, table.cols, q)],
             Shows([OwnSet EXCEPT !.table = t])
      PROVE  IndexInv'
  <2>1. t \in Table /\ t.cols = table.cols /\ Within(t, url.value) /\ Covers(t, url.value)
    <3> DEFINE value == url.value
    <3>1. \A k \in ColKeys : table.cols[k] = value[k]
      BY <1>1
    <3>2. IsBase(base, q, value) /\ t = [table EXCEPT !.search = q, !.shown = Searched(base, table.cols, q)]
      BY <1>3
    <3> HIDE DEF value
    <3>3. t \in Table /\ t.cols = table.cols /\ Within(t, value) /\ Covers(t, value)
      <4>1. table \in Table
        BY <1>1
      <4>2. \A n : n = [table EXCEPT !.search = q, !.shown = Searched(base, table.cols, q)] =>
               n \in Table /\ n.cols = table.cols /\ Within(n, value) /\ Covers(n, value)
        BY <3>1, <3>2, <4>1, SearchedRows
      <4> QED  BY <3>2, <4>2
    <3> QED  BY <3>3 DEF value
  <2>2. url.group \in Groups /\ url.sort \in Sorts
    BY <1>1 DEF Url
  <2> QED  BY <1>1, <1>2, <1>3, <2>1, <2>2, ViewKept
<1>4. ASSUME NEW q \in Queries \cup {NoQuery}, Search(q) PROVE IndexInv'
  <2>1. TypeQuery(table, q) \in
          {[table EXCEPT !.search = q, !.shown = Searched(base, table.cols, q)] :
             base \in {IF q # NoQuery /\ <<table.search, q>> \in Extends THEN table.shown ELSE Listing}}
    BY <1>1 DEF TypeQuery, Table
  <2>2. CASE q # NoQuery /\ <<table.search, q>> \in Extends
    <3>1. IsBase(table.shown, q, url.value)
      <4>1. \A r \in Listing : q \in r.hits => table.search \in r.hits \cup {NoQuery}
        BY <2>2, ListingAssumption
      <4> QED  BY <1>1, <2>2, <4>1 DEF IsBase, Covers, Found
    <3>2. TypeQuery(table, q) = [table EXCEPT !.search = q, !.shown = Searched(table.shown, table.cols, q)]
      BY <2>1, <2>2
    <3> QED  BY <1>1, <1>3, <1>4, <3>1, <3>2 DEF Search
  <2>3. CASE ~(q # NoQuery /\ <<table.search, q>> \in Extends)
    <3>1. TypeQuery(table, q) = [table EXCEPT !.search = q, !.shown = Searched(Listing, table.cols, q)]
      BY <2>1, <2>3
    <3> QED  BY <1>3, <1>4, <3>1 DEF Search, IsBase
  <2> QED  BY <2>2, <2>3
<1>5. CASE SortRows
  <2>1. /\ Draw(table) = [table EXCEPT !.search = table.search,
                                       !.shown = Searched(Listing, table.cols, table.search)]
        /\ table.search \in Queries \cup {NoQuery}
    BY <1>1 DEF Draw, Table
  <2> QED  BY <1>3, <1>5, <2>1 DEF SortRows, IsBase
<1> QED  BY <1>4, <1>5

\* The controls of the boxes.
LEMMA BoxesKeep ==
  ASSUME IndexInv, (\E by \in Sorts : SortBoxes(by)) \/ (\E g \in Groups : ToggleGrouping(g))
  PROVE  IndexInv'
<1>1. /\ index = "shown" /\ UNCHANGED <<values, selects>>
      /\ table \in Table /\ url \in Url /\ url.group \in Groups /\ url.sort \in Sorts
      /\ boxes \in [group: Groups, sort: Sorts, stated: Sorts]
      /\ boxes.group = url.group /\ boxes.stated = url.sort
      /\ Within(table, url.value) /\ Covers(table, url.value)
  BY DEF SortBoxes, ToggleGrouping, Shows, IndexInv, IndexTypeOK, PageAgrees, Table, Url
<1>2. ASSUME NEW by \in Sorts, SortBoxes(by) PROVE IndexInv'
  <2>1. /\ boxes' \in [group: Groups, sort: Sorts, stated: Sorts]
        /\ boxes'.group = url.group /\ boxes'.stated = by
    BY <1>1, <1>2 DEF SortBoxes, Sorted
  <2>2. Shows([table |-> table, url |-> [url EXCEPT !.group = url.group, !.sort = by],
               values |-> values, notice |-> notice])
    <3>1. [url EXCEPT !.group = url.group, !.sort = by] = [url EXCEPT !.sort = by]
      BY <1>1 DEF Url
    <3>2. Shows([OwnSet EXCEPT !.url.sort = by])
      BY <1>2 DEF SortBoxes
    <3> QED  BY <3>1, <3>2 DEF OwnSet
  <2> QED  BY <1>1, <2>1, <2>2, ViewKept
<1>3. ASSUME NEW g \in Groups, ToggleGrouping(g) PROVE IndexInv'
  <2>1. /\ boxes' \in [group: Groups, sort: Sorts, stated: Sorts]
        /\ boxes'.group = g /\ boxes'.stated = url.sort
    BY <1>1, <1>3 DEF ToggleGrouping, Sorts
  <2>2. Shows([table |-> table, url |-> [url EXCEPT !.group = g, !.sort = url.sort],
               values |-> values, notice |-> notice])
    <3>1. [url EXCEPT !.group = g, !.sort = url.sort] = [url EXCEPT !.group = g]
      BY <1>1 DEF Url
    <3>2. Shows([OwnSet EXCEPT !.url.group = g])
      BY <1>3 DEF ToggleGrouping
    <3> QED  BY <3>1, <3>2 DEF OwnSet
  <2> QED  BY <1>1, <2>1, <2>2, ViewKept
<1> QED  BY <1>2, <1>3

LEMMA IndexStep == IndexInv /\ IndexNext => IndexInv'
<1> SUFFICES ASSUME IndexInv, IndexNext PROVE IndexInv'
  OBVIOUS
<1>1. ASSUME NEW k \in Keys, NEW v \in Options(k) \cup {{}}, ChooseOption(k, v) PROVE IndexInv'
  BY <1>1, ChooseKeeps
<1>2. ASSUME NEW r \in Listing,
             \/ FilterSuite(r.name)
             \/ \E c \in r.clients :
                  FilterClient(c) \/ \E cs \in {r.clients, {c}} : FilterSuiteAndClient(r.name, cs)
      PROVE  IndexInv'
  BY <1>2, BoxKeeps
<1> QED  BY <1>1, <1>2, ClearKeeps, SearchKeeps, BoxesKeep DEF IndexNext

\* Opening the page from a URL.
LEMMA IndexOpened ==
  ASSUME NEW u \in Url, NEW p, IsLoaded(u, p)
  PROVE  /\ p.table \in Table /\ p.url \in Url /\ UrlExact(p.url)
         /\ p.values \in [Keys -> Value] /\ p.notice \in BOOLEAN
         /\ p.selects \in [Keys -> Value]
<1>1. p.selects = StatedBy(u.value) /\ u.value \in [Keys -> Value]
  BY DEF IsLoaded, Url
<1>2. StatedBy(u.value) \in [Keys -> Value]
  BY <1>1, NoValue DEF StatedBy
<1>3. p.table \in Table /\ p.url \in Url /\ p.values \in [Keys -> Value] /\ p.notice \in BOOLEAN
  BY DEF IsLoaded, FilterSet
<1> QED  BY <1>1, <1>2, <1>3 DEF IsLoaded

LEMMA LoadKeeps == IndexInv /\ LoadIndex => IndexInv'
<1> SUFFICES ASSUME IndexInv, LoadIndex PROVE IndexInv'
  OBVIOUS
<1> DEFINE p == Loaded(url)
<1>1. /\ index' = "shown"
      /\ table' = p.table /\ url' = p.url /\ values' = p.values /\ notice' = p.notice
      /\ selects' = p.selects /\ boxes' = p.boxes
  BY DEF LoadIndex
<1>2. url \in Url /\ IsLoaded(url, p)
  BY LoadedPage DEF IndexInv, IndexTypeOK
<1> HIDE DEF p
<1>3. IndexTypeOK'
  BY <1>1, <1>2, IndexOpened DEF IndexTypeOK, Table, UrlExact, IsLoaded
<1>4. PageAgrees' /\ Within(table, url.value)' /\ Covers(table, url.value)'
  BY <1>1, <1>2 DEF PageAgrees, IsLoaded, Within, Covers, Found
<1> QED  BY <1>3, <1>4 DEF IndexInv

LEMMA IndexStart == IndexInit => IndexInv
<1> SUFFICES ASSUME IndexInit PROVE IndexInv
  OBVIOUS
<1>1. PICK u \in Bookmarks :
        /\ index = "shown" /\ table = Loaded(u).table /\ url = Loaded(u).url
        /\ values = Loaded(u).values /\ notice = Loaded(u).notice
        /\ selects = Loaded(u).selects /\ boxes = Loaded(u).boxes
  BY DEF IndexInit
<1> DEFINE p == Loaded(u)
<1>2. u \in Url /\ IsLoaded(u, p)
  BY BookmarksAssumption, LoadedPage
<1> HIDE DEF p
<1>3. /\ index = "shown" /\ table = p.table /\ url = p.url /\ values = p.values
      /\ notice = p.notice /\ selects = p.selects /\ boxes = p.boxes
  BY <1>1 DEF p
<1>4. IndexTypeOK
  BY <1>2, <1>3, IndexOpened DEF IndexTypeOK, Table, UrlExact, IsLoaded
<1>5. PageAgrees /\ Within(table, url.value) /\ Covers(table, url.value)
  BY <1>2, <1>3 DEF PageAgrees, IsLoaded, Within, Covers, Found
<1> QED  BY <1>4, <1>5 DEF IndexInv

LEMMA LeaveKeeps == IndexInv /\ LeaveIndex => IndexInv'
<1> SUFFICES ASSUME IndexInv, LeaveIndex PROVE IndexInv'
  OBVIOUS
<1>1. IndexTypeOK'
  BY NoValue DEF IndexInv, IndexTypeOK, LeaveIndex, NoTable, NoFilters, NoBoxes, Groups, Sorts
<1> QED  BY <1>1 DEF IndexInv, LeaveIndex, NoTable, PageAgrees, Within

LEMMA IndexKept == IndexInv /\ UNCHANGED indexVars => IndexInv'
  BY DEF indexVars, IndexInv, IndexTypeOK, PageAgrees, Within, Covers, Found

LEMMA IndexAlways == IndexInv /\ [Next]_vars => IndexInv'
<1>1. IndexInv /\ OpenSuite => IndexInv'
  BY LeaveKeeps DEF OpenSuite
<1>2. IndexInv /\ (Back \/ Reload) => IndexInv'
  BY LoadKeeps, IndexKept DEF Back, Reload
<1> QED  BY <1>1, <1>2, IndexStep, IndexKept DEF Next, OpenLog, LinkBack, vars
\* The filters the <select>s show are those of the URL, for any runs, menus and
\* bookmarks, and any order of choices, clicks on boxes, clearing, reloading and Back.
THEOREM FiltersAgree == Spec => []StatedFiltersAgree
<1>1. Init => IndexInv
  BY IndexStart DEF Init
<1>2. IndexInv => StatedFiltersAgree
  BY DEF IndexInv, PageAgrees, StatedFiltersAgree, StatedBy
<1> QED  BY <1>1, <1>2, IndexAlways, PTL DEF Spec

\* No row is shown that the stated suite, date or status filter excludes, or that does
\* not have the text searched for.
THEOREM ColumnFilters == Spec => []ColumnFiltersHold
<1>1. Init => IndexInv
  BY IndexStart DEF Init
<1>2. IndexInv => ColumnFiltersHold
  BY DEF IndexInv, Within, Found, ColumnFiltersHold
<1> QED  BY <1>1, <1>2, IndexAlways, PTL DEF Spec

\* No row is hidden that satisfies all stated filters and has the text searched for,
\* even where the search starts from the rows shown before.
THEOREM NothingHidden == Spec => []NoMatchHidden
<1>1. Init => IndexInv
  BY IndexStart DEF Init
<1>2. IndexInv => NoMatchHidden
  BY DEF IndexInv, Covers, Found, NoMatchHidden
<1> QED  BY <1>1, <1>2, IndexAlways, PTL DEF Spec

\* Clearing removes every filter, from the URL too, and shows every row the search
\* finds, whichever filter sets had set them.
THEOREM Clearing == Spec => ClearShowsAll
<1> DEFINE Shown ==
      Clear => /\ url'.value = NoFilters /\ url'.order = <<>> /\ ~notice'
               /\ table'.shown = {r \in Listing : table.search \in r.hits \cup {NoQuery}}
<1>1. Init => IndexInv
  BY IndexStart DEF Init
<1>2. IndexInv /\ [Next]_vars => [Shown]_indexVars
  <2> SUFFICES ASSUME IndexInv, Clear PROVE Shown
    OBVIOUS
  <2>1. /\ index = "shown" /\ table' = Cleared.table /\ url' = Cleared.url
        /\ notice' = Cleared.notice
    BY DEF Clear, Shows
  <2>2. IsCleared(OwnSet, Cleared) /\ OwnSet.table = table
    BY <2>1, SetsAgree, ClearedAll DEF Cleared
  <2> QED  BY <2>1, <2>2 DEF IsCleared
<1> QED  BY <1>1, <1>2, IndexAlways, PTL DEF Spec, ClearShowsAll

\* A reload of the start page keeps the filters, the grouping and the sorting.
THEOREM Reloading == Spec => ReloadKeepsView
<1> DEFINE Keeps ==
      index = "shown" /\ Reload =>
        /\ selects' = selects /\ table'.cols = table.cols
        /\ boxes'.group = boxes.group /\ boxes'.stated = boxes.stated
<1>1. Init => IndexInv
  BY IndexStart DEF Init
<1>2. IndexInv /\ [Next]_vars => [Keeps]_vars
  <2> SUFFICES ASSUME IndexInv, index = "shown", Reload PROVE Keeps
    OBVIOUS
  <2>1. CASE UNCHANGED indexVars
    BY <2>1 DEF indexVars
  <2>2. CASE LoadIndex
    <3> DEFINE p == Loaded(url)
    <3>1. table' = p.table /\ selects' = p.selects /\ boxes' = p.boxes
      BY <2>2 DEF LoadIndex
    <3>2. IsLoaded(url, p) /\ p.table \in Table
      BY LoadedPage, IndexOpened DEF IndexInv, IndexTypeOK
    <3> HIDE DEF p
    <3>3. /\ selects = StatedBy(url.value) /\ boxes.group = url.group /\ boxes.stated = url.sort
          /\ table \in Table /\ \A k \in ColKeys : table.cols[k] = url.value[k]
      BY DEF IndexInv, PageAgrees, IndexTypeOK, Table
    <3>4. p.table.cols = table.cols
      BY <3>2, <3>3 DEF IsLoaded, Table
    <3> QED  BY <3>1, <3>2, <3>3, <3>4 DEF IsLoaded
  <2> QED  BY <2>1, <2>2 DEF Reload
<1> QED  BY <1>1, <1>2, IndexAlways, PTL DEF Spec, ReloadKeepsView

-----------------------------------------------------------------------------
(* The types of all three pages                                             *)

\* Pages are remembered with a test of the suite or none, and so is the hash.
Test == Tests \cup {NoTest}
TypeInv == SuiteTypeOK /\ viewed \in Test /\ trail \in BoundedSeq(Entry, MaxTrail) /\ hash \in Test

LEMMA TestsAre == Test \subseteq Nat
  BY TestsAssumption DEF Test, NoTest

LEMMA Trails ==
  /\ BoundedSeq(Entry, MaxTrail) = {s \in Seq(Entry) : Len(s) <= MaxTrail}
  /\ <<>> \in BoundedSeq(Entry, MaxTrail)
<1>1. \A s : s \in BoundedSeq(Entry, MaxTrail) <=> \E m \in 0..MaxTrail : s \in [1..m -> Entry]
  BY DEF BoundedSeq, SeqOf
<1>2. ASSUME NEW s, NEW m \in 0..MaxTrail, s \in [1..m -> Entry]
      PROVE  s \in Seq(Entry) /\ Len(s) <= MaxTrail
  BY <1>2, TrailAssumption
<1>3. ASSUME NEW s \in Seq(Entry), Len(s) <= MaxTrail
      PROVE  \E m \in 0..MaxTrail : s \in [1..m -> Entry]
  <2>1. s \in [1..Len(s) -> Entry] /\ Len(s) \in 0..MaxTrail
    BY <1>3, TrailAssumption
  <2> QED  BY <2>1
<1>4. <<>> \in Seq(Entry) /\ Len(<<>>) <= MaxTrail
  BY TrailAssumption
<1> QED  BY <1>1, <1>2, <1>3, <1>4

\* Selecting and deselecting tests.
LEMMA ToggledTypes ==
  ASSUME NEW r, NEW t \in Tests, open \subseteq Tests, highlighted \subseteq Tests
  PROVE  LET n == Toggled(Marks, r, t)
         IN n.open \subseteq Tests /\ n.highlighted \subseteq Tests /\ n.hash \in Test
<1> DEFINE n == Toggled(Marks, r, t)
<1>1. ASSUME NEW o \in SUBSET Tests
      PROVE  LET s == Selected([open |-> o, highlighted |-> highlighted, hash |-> hash], r, t)
             IN s.open \subseteq Tests /\ s.highlighted \subseteq Tests /\ s.hash \in Test
  BY DEF Selected, Deselected, Test
<1>2. /\ Marks = [open |-> open, highlighted |-> highlighted, hash |-> hash]
      /\ [Marks EXCEPT !.open = @ \cup {t}]
           = [open |-> open \cup {t}, highlighted |-> highlighted, hash |-> hash]
  BY DEF Marks
<1>3. CASE t \notin open
  <2>1. n = Selected([open |-> open \cup {t}, highlighted |-> highlighted, hash |-> hash], r, t)
    BY <1>2, <1>3 DEF Toggled
  <2> HIDE DEF n
  <2> QED  BY <1>1, <2>1 DEF n
<1>4. CASE t \in open /\ t \notin highlighted
  <2>1. n = Selected([open |-> open, highlighted |-> highlighted, hash |-> hash], r, t)
    BY <1>2, <1>4 DEF Toggled
  <2> HIDE DEF n
  <2> QED  BY <1>1, <2>1 DEF n
<1>5. CASE t \in open /\ t \in highlighted
  BY <1>2, <1>5 DEF Toggled, Deselected, Test
<1> QED  BY <1>3, <1>4, <1>5

LEMMA TypesOpened ==
  ASSUME NEW t \in Test, OpenSuitePage(t) \/ CloseSuitePage
  PROVE  SuiteTypeOK' /\ hash' \in Test
<1>1. /\ suite' \in {"absent", "loading"} /\ rows' = NoRows
      /\ open' = {} /\ highlighted' = {} /\ hash' \in Test
  BY DEF OpenSuitePage, CloseSuitePage, Becomes, NoMarks, Test
<1> QED  BY <1>1, TestsAre DEF SuiteTypeOK, NoRows

LEMMA TypesSuite == TypeInv /\ SuiteNext => SuiteTypeOK' /\ hash' \in Test
<1> SUFFICES ASSUME TypeInv, SuiteNext PROVE SuiteTypeOK' /\ hash' \in Test
  OBVIOUS
<1>1. ASSUME NEW o \in Orders, SuiteLoaded(o) PROVE SuiteTypeOK' /\ hash' \in Test
  <2> DEFINE r == [order |-> o, found |-> Tests, start |-> 0]
             n == Scrolled(Marks, r)
  <2>1. suite' = "shown" /\ rows' = r /\ Becomes(n)
    BY <1>1 DEF SuiteLoaded
  <2>2. Marks.hash = hash /\ open \subseteq Tests /\ highlighted \subseteq Tests /\ hash \in Test
    BY DEF Marks, TypeInv, SuiteTypeOK
  <2>3. n.open \subseteq Tests /\ n.highlighted \subseteq Tests /\ n.hash \in Test
    <3>1. CASE hash \in Tests
      BY <2>2, <3>1, ToggledTypes DEF Scrolled
    <3>2. CASE hash \notin Tests
      BY <2>2, <3>2 DEF Scrolled, Marks
    <3> QED  BY <3>1, <3>2
  <2>4. open' = n.open /\ highlighted' = n.highlighted /\ hash' = n.hash
    BY <2>1 DEF Becomes
  <2> HIDE DEF n
  <2> QED  BY <2>1, <2>3, <2>4, TestsAre DEF SuiteTypeOK
<1>2. CASE SuiteFailed
  BY <1>2 DEF SuiteFailed, TypeInv, SuiteTypeOK
<1>3. ASSUME NEW t \in Tests, ClickTest(t) PROVE SuiteTypeOK' /\ hash' \in Test
  <2> DEFINE n == Toggled(Marks, rows, t)
  <2>1. suite' = suite /\ rows' = rows /\ Becomes(n)
    BY <1>3 DEF ClickTest
  <2>2. n.open \subseteq Tests /\ n.highlighted \subseteq Tests /\ n.hash \in Test
    BY ToggledTypes DEF TypeInv, SuiteTypeOK
  <2>3. open' = n.open /\ highlighted' = n.highlighted /\ hash' = n.hash
    BY <2>1 DEF Becomes
  <2> HIDE DEF n
  <2> QED  BY <2>1, <2>2, <2>3, TestsAre DEF SuiteTypeOK, TypeInv
<1>4. ASSUME NEW r \in [order: Orders \cup {<<>>}, found: Finds \cup {{}, Tests}, start: Nat],
             UseTable(r)
      PROVE  SuiteTypeOK' /\ hash' \in Test
  BY <1>4 DEF UseTable, TypeInv, SuiteTypeOK
<1>5. rows \in [order: Orders \cup {<<>>}, found: Finds \cup {{}, Tests}, start: Nat]
  BY DEF TypeInv, SuiteTypeOK
<1>6. ASSUME NEW o \in Orders, UseTable(SetOrder(rows, o)) PROVE SuiteTypeOK' /\ hash' \in Test
  BY <1>4, <1>5, <1>6 DEF SetOrder
<1>7. ASSUME NEW f \in Finds, UseTable(SetFound(rows, f)) PROVE SuiteTypeOK' /\ hash' \in Test
  BY <1>4, <1>5, <1>7 DEF SetFound
<1>8. ASSUME NEW n \in PageStarts(rows), UseTable([rows EXCEPT !.start = n])
      PROVE  SuiteTypeOK' /\ hash' \in Test
  <2>1. n \in Nat
    BY DEF PageStarts
  <2> QED  BY <1>4, <1>5, <1>8, <2>1
<1> QED  BY <1>1, <1>2, <1>3, <1>6, <1>7, <1>8 DEF SuiteNext

LEMMA TypesStep == TypeInv /\ [Next]_vars => TypeInv'
<1> SUFFICES ASSUME TypeInv, [Next]_vars PROVE TypeInv'
  OBVIOUS
<1> DEFINE S == SuiteTypeOK' /\ hash' \in Test
           V == viewed' \in Test
           L == trail' \in BoundedSeq(Entry, MaxTrail)
<1>0. /\ viewed \in Test /\ hash \in Test /\ NoTest \in Test
      /\ trail \in Seq(Entry) /\ Len(trail) <= MaxTrail /\ Len(trail) \in Nat
  BY Trails DEF TypeInv, Test
<1>1. ASSUME UNCHANGED suiteVars PROVE S
  BY <1>1 DEF suiteVars, TypeInv, SuiteTypeOK
<1>2. ASSUME UNCHANGED navVars PROVE V /\ L
  BY <1>2 DEF navVars, TypeInv
<1>3. ASSUME NEW e \in Entry, trail' = Append(trail, e), Len(trail) < MaxTrail PROVE L
  <2>1. Append(trail, e) \in Seq(Entry) /\ Len(Append(trail, e)) = Len(trail) + 1
    BY <1>0
  <2> QED  BY <1>0, <1>3, <2>1, Trails, TrailAssumption
<1>4. CASE OpenSuite
  BY <1>0, <1>2, <1>4, TypesOpened DEF OpenSuite, TypeInv
<1>5. ASSUME NEW t \in Tests \cup {NoTest}, OpenLog(t) PROVE TypeInv'
  <2>1. [page |-> "suite", test |-> hash] \in Entry
    BY <1>0 DEF Entry, Test
  <2>2. L
    BY <1>3, <1>5, <2>1 DEF OpenLog
  <2> QED  BY <1>0, <1>5, <2>2, TypesOpened DEF OpenLog, TypeInv, Test
<1>6. CASE LinkBack
  <2>1. [page |-> "viewer", test |-> viewed] \in Entry
    BY <1>0 DEF Entry, Test
  <2>2. L
    BY <1>3, <1>6, <2>1 DEF LinkBack
  <2> QED  BY <1>0, <1>6, <2>2, TypesOpened DEF LinkBack, TypeInv
<1>7. CASE Back
  <2>1. CASE trail = <<>>
    BY <1>0, <1>2, <1>7, <2>1, TypesOpened DEF Back, TypeInv
  <2>2. CASE trail # <<>>
    <3> DEFINE e == Last(trail)
    <3>0. Len(trail) # 0
      BY <1>0, <2>2
    <3>1. e \in Entry /\ e.test \in Test
      <4>1. Len(trail) \in 1..Len(trail)
        BY <1>0, <3>0
      <4>2. e \in Entry
        BY <1>0, <4>1 DEF Last
      <4> HIDE DEF e
      <4> QED  BY <4>2 DEF Entry, Test
    <3>2. L
      <4>1. Front(trail) \in Seq(Entry) /\ Len(Front(trail)) = Len(trail) - 1
        <5>1. \A i \in 1..Len(trail) - 1 : trail[i] \in Entry
          BY <1>0
        <5>2. 1 \in Int /\ Len(trail) - 1 \in Int
          BY <1>0
        <5>3. /\ SubSeq(trail, 1, Len(trail) - 1) \in Seq(Entry)
              /\ Len(SubSeq(trail, 1, Len(trail) - 1))
                   = IF 1 <= Len(trail) - 1 THEN (Len(trail) - 1) - 1 + 1 ELSE 0
          BY <5>1, <5>2, SubSeqProperties
        <5>4. Front(trail) = SubSeq(trail, 1, Len(trail) - 1)
          BY DEF Front
        <5>5. Len(SubSeq(trail, 1, Len(trail) - 1)) = Len(trail) - 1
          <6>1. \A n \in Nat : n # 0 => (IF 1 <= n - 1 THEN (n - 1) - 1 + 1 ELSE 0) = n - 1
            OBVIOUS
          <6> QED  BY <1>0, <3>0, <5>3, <6>1
        <5> QED  BY <5>3, <5>4, <5>5
      <4> QED  BY <1>0, <1>7, <2>2, <4>1, Trails, TrailAssumption DEF Back
    <3>3. \/ OpenSuitePage(e.test) /\ viewed' = NoTest
          \/ CloseSuitePage /\ viewed' = e.test
      BY <1>7, <2>2 DEF Back
    <3> HIDE DEF e
    <3> QED  BY <1>0, <3>1, <3>2, <3>3, TypesOpened DEF TypeInv
  <2> QED  BY <2>1, <2>2
<1>8. CASE Reload
  BY <1>0, <1>1, <1>2, <1>8, TypesOpened DEF Reload, TypeInv
<1>9. CASE SuiteNext /\ UNCHANGED navVars
  BY <1>2, <1>9, TypesSuite DEF TypeInv
<1>10. CASE UNCHANGED <<suiteVars, navVars>>
  BY <1>1, <1>2, <1>10 DEF TypeInv
<1> QED  BY <1>4, <1>5, <1>6, <1>7, <1>8, <1>9, <1>10 DEF Next, vars

\* The types of the three pages, and of the pages the browser remembers.
THEOREM PagesTyped == Spec => []TypeOK
<1>1. Init => IndexInv /\ TypeInv
  <2>1. Init => IndexInv
    BY IndexStart DEF Init
  <2>2. Init => TypeInv
    BY Trails DEF Init, TypeInv, SuiteTypeOK, NoRows, Test, NoTest
  <2> QED  BY <2>1, <2>2
<1>2. IndexInv /\ TypeInv => TypeOK
  BY DEF IndexInv, TypeInv, TypeOK, Test
<1> QED  BY <1>1, <1>2, IndexAlways, TypesStep, PTL DEF Spec
=============================================================================
