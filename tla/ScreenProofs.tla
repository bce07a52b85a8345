----------------------------- MODULE ScreenProofs -----------------------------
(***************************************************************************)
(* Theorems about Screen for every set of networks, targets and letters,   *)
(* and every number of lines, splits and events.                           *)
(***************************************************************************)
EXTENDS Screen, FiniteSetTheorems, SequenceTheorems, WellFoundedInduction, TLAPS

(***************************************************************************)
(* Numbers and finite sets.                                                *)
(***************************************************************************)

\* A set of naturals has a least element.
LEMMA LeastNumber ==
  ASSUME NEW S \in SUBSET Nat, S # {}
  PROVE  \E n \in S : \A m \in S : n =< m
<1>1. IsWellFoundedOn(OpToRel(<, Nat), Nat)
  BY NatLessThanWellFounded, Zenon
<1>2. PICK x \in S : \A y \in S : ~ (<<y, x>> \in OpToRel(<, Nat))
  BY <1>1, WFMin, Zenon
<1>3. ASSUME NEW y \in S, y < x PROVE FALSE
  <2>1. <<y, x>> \in Nat \X Nat
    OBVIOUS
  <2>2. <<y, x>> \in OpToRel(<, Nat)
    BY <1>3, <2>1, Zenon DEF OpToRel
  <2> QED
    BY <1>2, <2>2
<1> QED
  BY <1>3

\* A bounded set of naturals has a greatest element.
LEMMA GreatestNumber ==
  ASSUME NEW S \in SUBSET Nat, S # {}, NEW b \in Nat, \A n \in S : n =< b
  PROVE  \E n \in S : \A m \in S : m =< n
<1> DEFINE T == {b - n : n \in S}
<1>1. T \in SUBSET Nat /\ T # {}
  <2>1. \A n \in S : n \in Nat /\ n =< b
    OBVIOUS
  <2>2. \A n \in S : b - n \in Nat
    BY <2>1
  <2> QED
    BY <2>2
<1>2. PICK t \in T : \A u \in T : t =< u
  BY <1>1, LeastNumber
<1>3. PICK n \in S : t = b - n
  BY <1>2
<1>4. \A m \in S : b - n =< b - m
  BY <1>2, <1>3
<1> QED
  BY <1>4

\* Max of a set is its greatest element.
LEMMA MaxIs ==
  ASSUME NEW S \in SUBSET Nat, NEW m \in S, \A n \in S : n =< m
  PROVE  Max(S) = m
<1>1. \A x \in S : (\A y \in S : x >= y) => x = m
  OBVIOUS
<1>2. \A y \in S : m >= y
  OBVIOUS
<1> QED
  BY <1>1, <1>2 DEF Max

(***************************************************************************)
(* Steps of a function of the state, one after the other.                  *)
(***************************************************************************)
Begins(g, A, F, a, k) ==
  /\ g \in [0 .. k -> A] /\ g[0] = a
  /\ \A i \in 1 .. k : g[i] = F[i][g[i - 1]]

\* Steps on A, the k-th one F[k], lead from a through a sequence in A.
LEMMA Steps ==
  ASSUME NEW A, NEW a \in A, NEW F \in [Nat -> [A -> A]], NEW k \in Nat
  PROVE  \E g : Begins(g, A, F, a, k)
<1> DEFINE Bad == {n \in Nat : ~ \E g : Begins(g, A, F, a, n)}
<1>1. SUFFICES ASSUME Bad # {} PROVE FALSE
  BY <1>1
<1>2. PICK n \in Bad : \A m \in Bad : n =< m
  BY <1>1, LeastNumber
<1>3. n \in Nat /\ ~ \E g : Begins(g, A, F, a, n)
  OBVIOUS
<1>4. n # 0
  <2>1. Begins([i \in 0 .. 0 |-> a], A, F, a, 0)
    BY DEF Begins
  <2> QED
    BY <1>3, <2>1
<1>5. PICK g : Begins(g, A, F, a, n - 1)
  <2>1. n - 1 \in Nat /\ n - 1 \notin Bad
    BY <1>2, <1>3, <1>4
  <2> QED
    BY <2>1
<1> DEFINE h == [i \in 0 .. n |-> IF i = n THEN F[n][g[n - 1]] ELSE g[i]]
<1>6. g[n - 1] \in A /\ F[n][g[n - 1]] \in A
  BY <1>3, <1>4, <1>5 DEF Begins
<1>7. h \in [0 .. n -> A] /\ h[0] = a
  BY <1>3, <1>4, <1>5, <1>6 DEF Begins
<1>8. ASSUME NEW i \in 1 .. n PROVE h[i] = F[i][h[i - 1]]
  BY <1>3, <1>4, <1>5 DEF Begins
<1>9. Begins(h, A, F, a, n)
  <2> HIDE DEF h
  <2> QED
    BY <1>7, <1>8 DEF Begins
<1> QED
  BY <1>3, <1>9

\* There is one such sequence.
LEMMA StepsAgree ==
  ASSUME NEW A, NEW a \in A, NEW F \in [Nat -> [A -> A]], NEW k \in Nat, NEW l \in Nat,
         NEW g, Begins(g, A, F, a, k), NEW h, Begins(h, A, F, a, l)
  PROVE  \A i \in Nat : i =< k /\ i =< l => g[i] = h[i]
<1> DEFINE Bad == {i \in Nat : i =< k /\ i =< l /\ g[i] # h[i]}
<1>1. SUFFICES ASSUME Bad # {} PROVE FALSE
  BY <1>1
<1>2. PICK i \in Bad : \A m \in Bad : i =< m
  BY <1>1, LeastNumber
<1>3. i \in Nat /\ i =< k /\ i =< l /\ g[i] # h[i]
  OBVIOUS
<1>4. i # 0
  BY <1>3 DEF Begins
<1>5. i - 1 \in Nat /\ g[i - 1] = h[i - 1]
  BY <1>2, <1>3, <1>4
<1>6. g[i] = F[i][g[i - 1]] /\ h[i] = F[i][h[i - 1]]
  BY <1>3, <1>4 DEF Begins
<1> QED
  BY <1>3, <1>5, <1>6

\* They extend to a sequence without end.
Walks(g, A, F, a) ==
  g \in [Nat -> A] /\ g[0] = a /\ \A i \in Nat \ {0} : g[i] = F[i][g[i - 1]]

LEMMA AllSteps ==
  ASSUME NEW A, NEW a \in A, NEW F \in [Nat -> [A -> A]]
  PROVE  \E g : Walks(g, A, F, a)
<1> DEFINE G(k) == CHOOSE g : Begins(g, A, F, a, k)
           f == [k \in Nat |-> G(k)[k]]
<1>1. ASSUME NEW k \in Nat PROVE Begins(G(k), A, F, a, k)
  BY Steps
<1> HIDE DEF G
<1>2. ASSUME NEW k \in Nat \ {0} PROVE G(k)[k - 1] = G(k - 1)[k - 1]
  <2>1. k - 1 \in Nat /\ k \in Nat
    OBVIOUS
  <2>2. Begins(G(k), A, F, a, k) /\ Begins(G(k - 1), A, F, a, k - 1)
    BY <1>1, <2>1
  <2> QED
    BY <2>1, <2>2, StepsAgree
<1>3. f \in [Nat -> A] /\ f[0] = a
  BY <1>1 DEF Begins
<1>4. ASSUME NEW i \in Nat \ {0} PROVE f[i] = F[i][f[i - 1]]
  <2>1. G(i)[i] = F[i][G(i)[i - 1]]
    BY <1>1 DEF Begins
  <2> QED
    BY <1>2, <2>1
<1> HIDE DEF f
<1> QED
  BY <1>3, <1>4 DEF Walks

\* What holds first and is kept by each step holds throughout.
LEMMA NumberInduction ==
  ASSUME NEW S, 0 \in S, \A i \in Nat : i \in S => i + 1 \in S
  PROVE  Nat \subseteq S
<1> DEFINE Bad == Nat \ S
<1>1. SUFFICES ASSUME Bad # {} PROVE FALSE
  BY <1>1
<1>2. PICK i \in Bad : \A m \in Bad : i =< m
  BY <1>1, LeastNumber
<1>3. i # 0 /\ i \in Nat
  OBVIOUS
<1>4. i - 1 \in Nat /\ i - 1 \in S
  BY <1>2, <1>3
<1> QED
  BY <1>2, <1>3, <1>4
(***************************************************************************)
(* The order of places.                                                    *)
(***************************************************************************)

\* A place has at most a network and a target, which have the rank they
\* stand at.
LEMMA PlaceRanks ==
  ASSUME NEW p \in Places
  PROVE  /\ Len(p) \in Nat
         /\ Rank(Networks, p, 1) \in Nat /\ Rank(Networks, p, 1) =< Len(Networks)
         /\ Rank(Targets, p, 2) \in Nat /\ Rank(Targets, p, 2) =< Len(Targets)
         /\ p = << >> => Rank(Networks, p, 1) = 0 /\ Rank(Targets, p, 2) = 0
         /\ Len(p) = 1 =>
              /\ p = <<p[1]>> /\ p[1] \in Each(Networks)
              /\ Rank(Networks, p, 1) \in DOMAIN Networks
              /\ Rank(Targets, p, 2) = 0
              /\ p[1] = Networks[Rank(Networks, p, 1)]
         /\ Len(p) = 2 =>
              /\ p = <<p[1], p[2]>> /\ p[1] \in Each(Networks) /\ p[2] \in Each(Targets)
              /\ Rank(Networks, p, 1) \in DOMAIN Networks
              /\ Rank(Targets, p, 2) \in DOMAIN Targets
              /\ p[1] = Networks[Rank(Networks, p, 1)]
              /\ p[2] = Targets[Rank(Targets, p, 2)]
         /\ p = << >> \/ Len(p) \in {1, 2}
<1>1. /\ DOMAIN Networks = 1 .. Len(Networks) /\ Len(Networks) \in Nat
      /\ DOMAIN Targets = 1 .. Len(Targets) /\ Len(Targets) \in Nat
  BY WindowsAssumption
<1>2. ASSUME NEW n \in Each(Networks)
      PROVE  LET i == CHOOSE i \in DOMAIN Networks : Networks[i] = n
             IN i \in DOMAIN Networks /\ Networks[i] = n
  BY DEF Each
<1>3. ASSUME NEW t \in Each(Targets)
      PROVE  LET i == CHOOSE i \in DOMAIN Targets : Targets[i] = t
             IN i \in DOMAIN Targets /\ Targets[i] = t
  BY DEF Each
<1>4. CASE p = << >>
  BY <1>1, <1>4 DEF Rank
<1>5. ASSUME NEW n \in Each(Networks), p = <<n>>
      PROVE  /\ Len(p) = 1 /\ p[1] = n /\ p = <<p[1]>> /\ p # << >>
             /\ Rank(Networks, p, 1) \in DOMAIN Networks
             /\ n = Networks[Rank(Networks, p, 1)]
             /\ Rank(Targets, p, 2) = 0
  BY <1>2, <1>5 DEF Rank
<1>6. ASSUME NEW n \in Each(Networks), NEW t \in Each(Targets), p = <<n, t>>
      PROVE  /\ Len(p) = 2 /\ p[1] = n /\ p[2] = t /\ p = <<p[1], p[2]>> /\ p # << >>
             /\ Rank(Networks, p, 1) \in DOMAIN Networks
             /\ n = Networks[Rank(Networks, p, 1)]
             /\ Rank(Targets, p, 2) \in DOMAIN Targets
             /\ t = Targets[Rank(Targets, p, 2)]
  BY <1>2, <1>3, <1>6 DEF Rank
<1>7. CASE \E n \in Each(Networks) : p = <<n>>
  BY <1>1, <1>5, <1>7
<1>8. CASE \E n \in Each(Networks), t \in Each(Targets) : p = <<n, t>>
  BY <1>1, <1>6, <1>8
<1> QED
  BY <1>4, <1>7, <1>8 DEF Places

\* Places of equal ranks are equal, so that any two are in order.
LEMMA PlacesOrdered ==
  ASSUME NEW p \in Places, NEW q \in Places
  PROVE  p = q \/ Precedes(p, q) \/ Precedes(q, p)
<1>1. ASSUME Rank(Networks, p, 1) = Rank(Networks, q, 1),
             Rank(Targets, p, 2) = Rank(Targets, q, 2)
      PROVE  p = q
  <2>1. 0 \notin DOMAIN Networks /\ 0 \notin DOMAIN Targets
    BY WindowsAssumption
  <2> QED
    BY <1>1, <2>1, PlaceRanks
<1>2. /\ Rank(Networks, p, 1) \in Nat /\ Rank(Networks, q, 1) \in Nat
      /\ Rank(Targets, p, 2) \in Nat /\ Rank(Targets, q, 2) \in Nat
  BY PlaceRanks
<1> QED
  BY <1>1, <1>2 DEF Precedes

\* A set of places has a first one.
LEMMA EarliestIn ==
  ASSUME NEW S \in SUBSET Places, S # {}
  PROVE  Earliest(S) \in S
<1> DEFINE R1 == {Rank(Networks, p, 1) : p \in S}
<1>1. R1 \in SUBSET Nat /\ R1 # {}
  BY PlaceRanks
<1>2. PICK m \in R1 : \A n \in R1 : m =< n
  BY <1>1, LeastNumber
<1> DEFINE S1 == {p \in S : Rank(Networks, p, 1) = m}
           R2 == {Rank(Targets, p, 2) : p \in S1}
<1>3. R2 \in SUBSET Nat /\ R2 # {}
  BY <1>2, PlaceRanks
<1>4. PICK k \in R2 : \A n \in R2 : k =< n
  BY <1>3, LeastNumber
<1>5. PICK p \in S : Rank(Networks, p, 1) = m /\ Rank(Targets, p, 2) = k
  BY <1>4
<1>6. ASSUME NEW q \in S \ {p}
      PROVE  Precedes(p, q)
  <2>1. m =< Rank(Networks, q, 1)
    BY <1>2
  <2>2. Rank(Networks, q, 1) = m => k =< Rank(Targets, q, 2)
    BY <1>4
  <2>3. /\ Rank(Networks, p, 1) \in Nat /\ Rank(Networks, q, 1) \in Nat
        /\ Rank(Targets, p, 2) \in Nat /\ Rank(Targets, q, 2) \in Nat
    BY PlaceRanks
  <2>4. p = q \/ Precedes(p, q) \/ Precedes(q, p)
    BY PlacesOrdered
  <2> QED
    BY <1>5, <2>1, <2>2, <2>3, <2>4 DEF Precedes
<1> QED
  BY <1>6 DEF Earliest

\* A set of places has a last one.
LEMMA LatestIn ==
  ASSUME NEW S \in SUBSET Places, S # {}
  PROVE  Latest(S) \in S
<1> DEFINE R1 == {Rank(Networks, p, 1) : p \in S}
<1>1. R1 \in SUBSET Nat /\ R1 # {} /\ Len(Networks) \in Nat
      /\ \A n \in R1 : n =< Len(Networks)
  BY PlaceRanks, WindowsAssumption
<1>2. PICK m \in R1 : \A n \in R1 : n =< m
  BY <1>1, GreatestNumber
<1> DEFINE S1 == {p \in S : Rank(Networks, p, 1) = m}
           R2 == {Rank(Targets, p, 2) : p \in S1}
<1>3. R2 \in SUBSET Nat /\ R2 # {} /\ Len(Targets) \in Nat
      /\ \A n \in R2 : n =< Len(Targets)
  BY <1>2, PlaceRanks, WindowsAssumption
<1>4. PICK k \in R2 : \A n \in R2 : n =< k
  BY <1>3, GreatestNumber
<1>5. PICK p \in S : Rank(Networks, p, 1) = m /\ Rank(Targets, p, 2) = k
  BY <1>4
<1>6. ASSUME NEW q \in S \ {p}
      PROVE  Precedes(q, p)
  <2>1. Rank(Networks, q, 1) =< m
    BY <1>2
  <2>2. Rank(Networks, q, 1) = m => Rank(Targets, q, 2) =< k
    BY <1>4
  <2>3. /\ Rank(Networks, p, 1) \in Nat /\ Rank(Networks, q, 1) \in Nat
        /\ Rank(Targets, p, 2) \in Nat /\ Rank(Targets, q, 2) \in Nat
    BY PlaceRanks
  <2>4. p = q \/ Precedes(p, q) \/ Precedes(q, p)
    BY PlacesOrdered
  <2> QED
    BY <1>5, <2>1, <2>2, <2>3, <2>4 DEF Precedes
<1> QED
  BY <1>6 DEF Latest

\* There are finitely many places.
LEMMA PlacesFinite == IsFiniteSet(Places)
<1> DEFINE N == 0 .. Len(Networks)
           T == 0 .. Len(Targets)
           f == [p \in Places |-> <<Rank(Networks, p, 1), Rank(Targets, p, 2)>>]
<1>1. IsFiniteSet(N \X T)
  <2>1. IsFiniteSet(N) /\ IsFiniteSet(T)
    BY FS_Interval, WindowsAssumption
  <2> QED
    BY <2>1, FS_Product
<1>2. f \in Injection(Places, N \X T)
  <2>1. f \in [Places -> N \X T]
    BY PlaceRanks
  <2>2. ASSUME NEW p \in Places, NEW q \in Places, f[p] = f[q]
        PROVE  p = q
    <3>1. Rank(Networks, p, 1) = Rank(Networks, q, 1)
          /\ Rank(Targets, p, 2) = Rank(Targets, q, 2)
      BY <2>2
    <3>2. /\ Rank(Networks, p, 1) \in Nat /\ Rank(Targets, p, 2) \in Nat
      BY PlaceRanks
    <3> QED
      BY <3>1, <3>2, PlacesOrdered DEF Precedes
  <2> HIDE DEF f
  <2> QED
    BY <2>1, <2>2 DEF Injection, IsInjective
<1> QED
  BY <1>1, <1>2, FS_Injection

(***************************************************************************)
(* One window.                                                             *)
(***************************************************************************)
Line == [imp : Importance, known : BOOLEAN]
Window ==
  [lines : Seq(Line), marker : SUBSET Nat,
   unread : Nat, mention : Importance, name : 0 .. Names, hidden : BOOLEAN,
   filter : AllFilters]

Marked(w) == w.marker = {} \/ \E m \in 0 .. Len(w.lines) : w.marker = {m}
Imps(w) == {w.lines[n].imp : n \in Unknown(w)} \cup {Boring}
Announced(w) == w.unread = Cardinality(Unknown(w)) /\ w.mention = Max(Imps(w))

Good(w) == w \in Window /\ Marked(w) /\ w.unread =< Len(w.lines) /\ Announced(w)

\* What the operators on a window assign.
Assigned(v, w, lines, marker, unread, mention) ==
  v = [w EXCEPT !.lines = lines, !.marker = marker, !.unread = unread,
                !.mention = mention]

\* The fields of the window after it.
LEMMA WindowFields ==
  ASSUME NEW w \in Window, NEW lines \in Seq(Line), NEW marker \in SUBSET Nat,
         NEW unread \in Nat, NEW mention \in Importance, NEW v,
         Assigned(v, w, lines, marker, unread, mention)
  PROVE  /\ v \in Window /\ v.lines = lines /\ v.marker = marker
         /\ v.unread = unread /\ v.mention = mention /\ v.name = w.name
<1>1. w = [lines |-> w.lines, marker |-> w.marker, unread |-> w.unread,
           mention |-> w.mention, name |-> w.name, hidden |-> w.hidden,
           filter |-> w.filter]
  BY Zenon DEF Window
<1>2. v = [lines |-> lines, marker |-> marker, unread |-> unread,
           mention |-> mention, name |-> w.name, hidden |-> w.hidden,
           filter |-> w.filter]
  BY <1>1 DEF Assigned
<1>3. w.name \in 0 .. Names /\ w.hidden \in BOOLEAN /\ w.filter \in AllFilters
  BY Zenon DEF Window
<1>4. v \in Window
  BY <1>2, <1>3, Zenon DEF Window
<1>5. /\ v.lines = lines /\ v.marker = marker
      /\ v.unread = unread /\ v.mention = mention /\ v.name = w.name
  BY <1>2
<1> QED
  BY <1>4, <1>5

\* The lines a user has not seen are some of the window's lines.
LEMMA UnknownLines ==
  ASSUME NEW w \in Window
  PROVE  /\ Unknown(w) \subseteq 1 .. Len(w.lines) /\ IsFiniteSet(Unknown(w))
         /\ Cardinality(Unknown(w)) \in Nat
         /\ Imps(w) \subseteq Importance /\ Imps(w) \in SUBSET Nat
         /\ Len(w.lines) \in Nat
<1>1. /\ w.lines \in Seq(Line)
      /\ Len(w.lines) \in Nat /\ DOMAIN w.lines = 1 .. Len(w.lines)
  BY DEF Window
<1>2. Unknown(w) \subseteq 1 .. Len(w.lines)
  BY <1>1 DEF Unknown
<1>3. IsFiniteSet(Unknown(w)) /\ Cardinality(Unknown(w)) \in Nat
  <2>1. IsFiniteSet(1 .. Len(w.lines))
    BY <1>1, FS_Interval
  <2>2. IsFiniteSet(Unknown(w))
    BY <1>2, <2>1, FS_Subset
  <2> QED
    BY <2>2, FS_CardinalityType
<1>4. Imps(w) \subseteq Importance
  <2>1. \A n \in Unknown(w) : w.lines[n] \in Line
    BY <1>1, <1>2
  <2>2. \A x \in Line : x.imp \in Importance
    BY DEF Line
  <2>3. \A n \in Unknown(w) : w.lines[n].imp \in Importance
    BY <2>1, <2>2
  <2> QED
    BY <2>3 DEF Imps, Importance, Boring, Important
<1> QED
  BY <1>1, <1>2, <1>3, <1>4 DEF Importance, Boring, Important

\* What concerns neither the lines nor their activity leaves a window good.
LEMMA SameActivity ==
  ASSUME NEW w, Good(w), NEW v \in Window, v.lines = w.lines, v.unread = w.unread,
         v.mention = w.mention, Marked(v)
  PROVE  Good(v)
<1>1. Unknown(v) = Unknown(w) /\ Imps(v) = Imps(w)
  BY DEF Unknown, Imps
<1> QED
  BY <1>1 DEF Good, Announced

\* A window without lines unknown to its user announces nothing.
LEMMA NothingUnknown ==
  ASSUME NEW w \in Window, Unknown(w) = {}, w.unread = 0, w.mention = Boring, Marked(w)
  PROVE  Good(w)
<1>1. Cardinality(Unknown(w)) = 0
  BY FS_EmptySet
<1>2. Imps(w) = {Boring}
  BY DEF Imps
<1>3. Max(Imps(w)) = Boring
  BY <1>2, MaxIs DEF Boring
<1>4. Len(w.lines) \in Nat
  BY UnknownLines
<1> QED
  BY <1>1, <1>3, <1>4 DEF Good, Announced

\* applyActivityFilter gives an importance, and none to what has none.
LEMMA FilteredType ==
  ASSUME NEW f, NEW imp \in Importance
  PROVE  /\ Filtered(f, imp) \in Importance
         /\ Filtered(f, Boring) = Boring
BY DEF Filtered, Importance, Boring, Normal, Important

\* addToWindow puts one line on top of the others.
LEMMA AddedLine ==
  ASSUME NEW w \in Window, NEW imp \in Importance
  PROVE  LET v == AddToWindow(w, imp)
         IN /\ v \in Window /\ v.name = w.name
            /\ Len(v.lines) = Len(w.lines) + 1
            /\ v.lines[1] = [imp |-> Filtered(w.filter, imp), known |-> FALSE]
            /\ \A n \in 1 .. Len(w.lines) : v.lines[n + 1] = w.lines[n]
            /\ v.marker = {m + 1 : m \in w.marker}
            /\ v.unread = IF Filtered(w.filter, imp) = Boring THEN w.unread
                          ELSE w.unread + 1
            /\ v.mention = IF Filtered(w.filter, imp) > w.mention
                           THEN Filtered(w.filter, imp) ELSE w.mention
<1> DEFINE i == Filtered(w.filter, imp)
           x == [imp |-> i, known |-> FALSE]
           v == AddToWindow(w, imp)
<1>1. i \in Importance /\ i \in Nat
  BY FilteredType DEF Importance, Boring, Important
<1>2. /\ w.lines \in Seq(Line)
      /\ w.marker \subseteq Nat /\ w.unread \in Nat /\ w.mention \in Importance
  BY DEF Window
<1>3. x \in Line
  BY <1>1 DEF Line
<1> HIDE DEF i, x
<1>4. v = [w EXCEPT !.lines = <<x>> \o @,
                    !.marker = {m + 1 : m \in @},
                    !.unread = IF i = Boring THEN @ ELSE @ + 1,
                    !.mention = IF i > @ THEN i ELSE @]
  BY DEF AddToWindow, i, x
<1>5. /\ <<x>> \o w.lines \in Seq(Line)
      /\ Len(<<x>> \o w.lines) = Len(w.lines) + 1
      /\ (<<x>> \o w.lines)[1] = x
      /\ \A n \in 1 .. Len(w.lines) : (<<x>> \o w.lines)[n + 1] = w.lines[n]
  <2>1. <<x>> \in Seq(Line) /\ Len(<<x>>) = 1
    BY <1>3
  <2>2. Len(w.lines) \in Nat
    BY <1>2
  <2> QED
    BY <1>2, <2>1, <2>2, ConcatProperties
<1>6. {m + 1 : m \in w.marker} \subseteq Nat
  BY <1>2
<1>7. v \in Window /\ v.name = w.name /\ v.lines = <<x>> \o w.lines
      /\ v.marker = {m + 1 : m \in w.marker}
      /\ v.unread = (IF i = Boring THEN w.unread ELSE w.unread + 1)
      /\ v.mention = (IF i > w.mention THEN i ELSE w.mention)
  <2> DEFINE ls == <<x>> \o w.lines
             mk == {m + 1 : m \in w.marker}
             un == IF i = Boring THEN w.unread ELSE w.unread + 1
             mn == IF i > w.mention THEN i ELSE w.mention
  <2>1. ls \in Seq(Line) /\ mk \in SUBSET Nat /\ un \in Nat /\ mn \in Importance
    BY <1>1, <1>2, <1>5, <1>6
  <2>2. Assigned(v, w, ls, mk, un, mn)
    BY <1>4 DEF Assigned
  <2> HIDE DEF ls, mk, un, mn, v
  <2>3. /\ v \in Window /\ v.name = w.name /\ v.lines = ls
        /\ v.marker = mk /\ v.unread = un /\ v.mention = mn
    BY <2>1, <2>2, WindowFields
  <2> QED
    BY <2>3 DEF ls, mk, un, mn
<1> QED
  BY <1>5, <1>7 DEF i, x

\* A line moves the unknown lines down by one, and is one of them itself
\* unless it is boring.
LEMMA AddedUnknown ==
  ASSUME NEW w \in Window, NEW v \in Window, NEW i \in Importance,
         Len(v.lines) = Len(w.lines) + 1,
         v.lines[1] = [imp |-> i, known |-> FALSE],
         \A n \in 1 .. Len(w.lines) : v.lines[n + 1] = w.lines[n]
  PROVE  /\ Cardinality(Unknown(v)) = IF i = Boring THEN Cardinality(Unknown(w))
                                      ELSE Cardinality(Unknown(w)) + 1
         /\ Imps(v) = Imps(w) \cup {i}
<1> DEFINE down == {n + 1 : n \in Unknown(w)}
<1>1. /\ Len(w.lines) \in Nat /\ DOMAIN w.lines = 1 .. Len(w.lines)
      /\ DOMAIN v.lines = 1 .. Len(w.lines) + 1
      /\ Unknown(w) \subseteq 1 .. Len(w.lines) /\ IsFiniteSet(Unknown(w))
      /\ Cardinality(Unknown(w)) \in Nat
  <2>1. w.lines \in Seq(Line) /\ v.lines \in Seq(Line)
    BY DEF Window
  <2>2. DOMAIN w.lines = 1 .. Len(w.lines) /\ DOMAIN v.lines = 1 .. Len(v.lines)
    BY <2>1
  <2> QED
    BY <2>2, UnknownLines
<1>2. IsFiniteSet(down) /\ Cardinality(down) = Cardinality(Unknown(w))
  <2> DEFINE f == [n \in Unknown(w) |-> n + 1]
  <2>1. f \in [Unknown(w) -> down]
    OBVIOUS
  <2>2. \A a, b \in Unknown(w) : f[a] = f[b] => a = b
    BY <1>1
  <2>3. \A t \in down : \E s \in Unknown(w) : f[s] = t
    OBVIOUS
  <2>4. f \in Bijection(Unknown(w), down)
    <3> HIDE DEF f, down
    <3> QED
      BY <2>1, <2>2, <2>3 DEF Bijection, Injection, Surjection, IsInjective
  <2>5. ExistsBijection(Unknown(w), down)
    BY <2>4 DEF ExistsBijection
  <2> QED
    BY <1>1, <2>5, FS_Bijection
<1>3. \A n \in 1 .. Len(w.lines) : n + 1 \in Unknown(v) <=> n \in Unknown(w)
  BY <1>1 DEF Unknown
<1>4. i # Boring => i > Boring
  BY DEF Importance, Boring, Important
<1>5. 1 \in Unknown(v) <=> i # Boring
  BY <1>1, <1>4 DEF Unknown, Boring
<1>6. Unknown(v) \subseteq 1 .. Len(w.lines) + 1
  BY <1>1 DEF Unknown
<1>7. \A n \in Unknown(v) : n = 1 \/ n \in down
  <2> SUFFICES ASSUME NEW n \in Unknown(v), n # 1 PROVE n \in down
    OBVIOUS
  <2>1. n - 1 \in 1 .. Len(w.lines) /\ n = (n - 1) + 1
    BY <1>1, <1>6
  <2> QED
    BY <1>3, <2>1
<1>8. down \subseteq Unknown(v) /\ 1 \notin down
  BY <1>1, <1>3
<1>9. Unknown(v) = IF i = Boring THEN down ELSE down \cup {1}
  BY <1>5, <1>7, <1>8
<1>10. Cardinality(Unknown(v)) = IF i = Boring THEN Cardinality(down)
                                 ELSE Cardinality(down) + 1
  <2> HIDE DEF down
  <2> QED
    BY <1>2, <1>8, <1>9, FS_AddElement
<1>11. Imps(v) = Imps(w) \cup {i}
  <2>1. \A n \in Unknown(w) : v.lines[n + 1].imp = w.lines[n].imp
    BY <1>1
  <2>2. {v.lines[m].imp : m \in down} = {w.lines[n].imp : n \in Unknown(w)}
    <3>1. ASSUME NEW m \in down
          PROVE  \E n \in Unknown(w) : v.lines[m].imp = w.lines[n].imp
      BY <2>1
    <3>2. ASSUME NEW n \in Unknown(w)
          PROVE  \E m \in down : v.lines[m].imp = w.lines[n].imp
      BY <2>1
    <3> HIDE DEF down
    <3> QED
      BY <3>1, <3>2
  <2>3. v.lines[1].imp = i
    OBVIOUS
  <2> HIDE DEF down
  <2> QED
    BY <1>9, <2>2, <2>3 DEF Imps
<1> QED
  BY <1>2, <1>10, <1>11

\* A good window stays one when a line is added.
LEMMA AddedGood ==
  ASSUME NEW w, Good(w), NEW imp \in Importance
  PROVE  Good(AddToWindow(w, imp))
<1> DEFINE v == AddToWindow(w, imp)
           i == Filtered(w.filter, imp)
<1>1. w \in Window /\ i \in Importance
  BY FilteredType DEF Good
<1> HIDE DEF v, i
<1>2. /\ v \in Window
      /\ Len(v.lines) = Len(w.lines) + 1
      /\ v.lines[1] = [imp |-> i, known |-> FALSE]
      /\ \A n \in 1 .. Len(w.lines) : v.lines[n + 1] = w.lines[n]
      /\ v.marker = {m + 1 : m \in w.marker}
      /\ v.unread = IF i = Boring THEN w.unread ELSE w.unread + 1
      /\ v.mention = IF i > w.mention THEN i ELSE w.mention
  BY <1>1, AddedLine DEF v, i
<1>3. /\ Cardinality(Unknown(v)) = IF i = Boring THEN Cardinality(Unknown(w))
                                   ELSE Cardinality(Unknown(w)) + 1
      /\ Imps(v) = Imps(w) \cup {i}
  BY <1>1, <1>2, AddedUnknown
<1>4. Len(w.lines) \in Nat /\ w.unread \in Nat /\ w.unread =< Len(w.lines)
  BY <1>1, UnknownLines DEF Good, Window
<1>5. v.mention = Max(Imps(v))
  <2>1. Imps(w) \in SUBSET Nat /\ Imps(v) \in SUBSET Nat /\ Imps(w) \subseteq Importance
        /\ i \in Nat
    BY <1>1, <1>2, UnknownLines DEF Importance, Boring, Important
  <2>2. w.mention = Max(Imps(w)) /\ w.mention \in Importance
    BY DEF Good, Announced, Window
  <2>3. PICK m \in Imps(w) : \A n \in Imps(w) : n =< m
    <3>1. Imps(w) # {} /\ \A n \in Imps(w) : n =< Important
      BY <2>1 DEF Imps, Importance, Boring, Important
    <3> QED
      BY <2>1, <3>1, GreatestNumber DEF Important
  <2>4. w.mention = m
    BY <2>1, <2>2, <2>3, MaxIs
  <2>5. v.mention \in Imps(v) /\ \A n \in Imps(v) : n =< v.mention
    BY <1>2, <1>3, <2>1, <2>3, <2>4
  <2> QED
    BY <2>1, <2>5, MaxIs
<1>6. v.unread = Cardinality(Unknown(v))
  BY <1>2, <1>3 DEF Good, Announced
<1>7. Marked(v)
  <2>1. CASE w.marker = {}
    BY <1>2, <2>1 DEF Marked
  <2>2. ASSUME NEW m \in 0 .. Len(w.lines), w.marker = {m}
        PROVE  Marked(v)
    <3>1. v.marker = {m + 1} /\ m + 1 \in 0 .. Len(v.lines)
      BY <1>2, <1>4, <2>2
    <3> QED
      BY <3>1 DEF Marked
  <2> QED
    BY <2>1, <2>2 DEF Good, Marked
<1>8. v.unread =< Len(v.lines)
  BY <1>2, <1>4
<1> QED
  BY <1>2, <1>5, <1>6, <1>7, <1>8 DEF Good, Announced, v

\* A new window is good.
LEMMA EmptyGood ==
  ASSUME NEW name \in 0 .. Names
  PROVE  Good(EmptyWindow(name)) /\ EmptyWindow(name).name = name
<1> DEFINE w == EmptyWindow(name)
<1>1. w.lines = << >> /\ w.marker = {} /\ w.unread = 0 /\ w.mention = Boring
      /\ w.name = name
  BY DEF EmptyWindow
<1>2. w \in Window
  BY DEF EmptyWindow, Window, Importance, Boring, Important, AllFilters
<1>3. Unknown(w) = {}
  BY <1>1 DEF Unknown
<1> HIDE DEF w
<1>4. Good(w)
  BY <1>1, <1>2, <1>3, NothingUnknown DEF Marked
<1> QED
  BY <1>1, <1>4 DEF w

\* So are a window activated, deactivated or cleared, and one on the screen
\* of a user who looks; each keeps its letter.
LEMMA TouchedGood ==
  ASSUME NEW w, Good(w)
  PROVE  /\ Good(WindowActivate(w)) /\ WindowActivate(w).name = w.name
         /\ Good(WindowDeactivate(w)) /\ WindowDeactivate(w).name = w.name
         /\ Good(WindowClear(w)) /\ WindowClear(w).name = w.name
         /\ Good(Known(WindowSeen(w))) /\ Known(WindowSeen(w)).name = w.name
<1>1. w \in Window /\ w.lines \in Seq(Line)
      /\ Len(w.lines) \in Nat
  BY UnknownLines DEF Good, Window
<1>2. Good(WindowActivate(w)) /\ WindowActivate(w).name = w.name
  <2>1. CASE w.unread = 0
    <3> DEFINE v == [w EXCEPT !.marker = {}]
    <3>1. /\ v \in Window /\ v.lines = w.lines /\ v.unread = w.unread
          /\ v.mention = w.mention /\ v.marker = {} /\ v.name = w.name
      BY <1>1 DEF Window
    <3> HIDE DEF v
    <3>2. Good(v)
      BY <3>1, SameActivity DEF Marked
    <3> QED
      BY <2>1, <3>1, <3>2 DEF WindowActivate, v
  <2> QED
    BY <2>1 DEF WindowActivate
<1>3. Good(WindowDeactivate(w)) /\ WindowDeactivate(w).name = w.name
  <2> DEFINE v == [w EXCEPT !.marker = {0}]
  <2>1. /\ v \in Window /\ v.lines = w.lines /\ v.unread = w.unread
        /\ v.mention = w.mention /\ v.marker = {0} /\ v.name = w.name
    BY <1>1 DEF Window
  <2> HIDE DEF v
  <2>2. Good(v)
    BY <1>1, <2>1, SameActivity DEF Marked
  <2> QED
    BY <2>1, <2>2 DEF WindowDeactivate, v
<1>4. Good(WindowClear(w)) /\ WindowClear(w).name = w.name
  <2> DEFINE v == WindowClear(w)
  <2>1. << >> \in Seq(Line) /\ {} \in SUBSET Nat /\ 0 \in Nat /\ Boring \in Importance
    BY DEF Importance, Boring, Important
  <2>2. /\ v \in Window /\ v.lines = << >> /\ v.unread = 0 /\ v.mention = Boring
        /\ v.marker = {} /\ v.name = w.name
    <3> DEFINE lines == << >>
               marker == {}
    <3>1. Assigned(v, w, lines, marker, 0, Boring)
      BY DEF Assigned, WindowClear
    <3>2. lines \in Seq(Line) /\ marker \in SUBSET Nat
      BY <2>1
    <3> HIDE DEF v, lines, marker
    <3>3. /\ v \in Window /\ v.lines = lines /\ v.unread = 0 /\ v.mention = Boring
          /\ v.marker = marker /\ v.name = w.name
      BY <1>1, <2>1, <3>1, <3>2, WindowFields
    <3> QED
      BY <3>3 DEF lines, marker
  <2>3. Unknown(v) = {}
    BY <2>2 DEF Unknown
  <2> HIDE DEF v
  <2>4. Good(v)
    BY <2>2, <2>3, NothingUnknown DEF Marked
  <2> QED
    BY <2>2, <2>4 DEF v
<1>5. Good(Known(WindowSeen(w))) /\ Known(WindowSeen(w)).name = w.name
  <2> DEFINE lines == [n \in DOMAIN w.lines |-> [w.lines[n] EXCEPT !.known = TRUE]]
             v == Known(WindowSeen(w))
  <2>1. /\ lines \in Seq(Line)
        /\ Len(lines) = Len(w.lines)
        /\ \A n \in DOMAIN lines : lines[n].known
    <3>1. \A x \in Line : /\ [x EXCEPT !.known = TRUE] \in Line
                          /\ [x EXCEPT !.known = TRUE].known
      BY DEF Line
    <3>2. /\ DOMAIN w.lines = 1 .. Len(w.lines)
          /\ \A n \in DOMAIN w.lines : w.lines[n] \in Line
      BY <1>1
    <3>3. lines \in [1 .. Len(w.lines) -> Line]
      BY <3>1, <3>2
    <3>4. \A n \in DOMAIN lines : lines[n].known
      BY <3>1, <3>2
    <3> HIDE DEF lines
    <3> QED
      BY <1>1, <3>3, <3>4
  <2>2. v = [w EXCEPT !.unread = 0, !.mention = Boring, !.lines = lines]
    BY <1>1 DEF Known, WindowSeen, Window
  <2> HIDE DEF lines, v
  <2>3. /\ v \in Window /\ v.lines = lines /\ v.unread = 0 /\ v.mention = Boring
        /\ v.marker = w.marker /\ v.name = w.name
    <3>1. w.marker \in SUBSET Nat /\ 0 \in Nat /\ Boring \in Importance
      BY <1>1 DEF Window, Importance, Boring, Important
    <3>2. Assigned(v, w, lines, w.marker, 0, Boring)
      BY <1>1, <2>2 DEF Window, Assigned
    <3> QED
      BY <1>1, <2>1, <3>1, <3>2, WindowFields
  <2>4. Unknown(v) = {}
    BY <2>1, <2>3 DEF Unknown
  <2>5. Marked(v)
    BY <2>1, <2>3 DEF Marked, Good
  <2>6. Good(v)
    BY <2>3, <2>4, <2>5, NothingUnknown
  <2> QED
    BY <2>3, <2>6 DEF v
<1> QED
  BY <1>2, <1>3, <1>4, <1>5


(***************************************************************************)
(* The client's state: what WindowsSound and ActivityShown say of it.      *)
(***************************************************************************)
Layout(ws) ==
  /\ DOMAIN ws \subseteq Places
  /\ \A p \in DOMAIN ws : Good(ws[p])
  /\ \A p, q \in DOMAIN ws : p # q /\ ws[p].name = ws[q].name => ws[p].name = 0

Layouts == {ws \in UNION {[D -> Window] : D \in SUBSET Places} : Layout(ws)}

Flags == BOOLEAN

Fields ==
  [windows : Layouts, focus : Places, messages : Flags, prev : Places,
   extra : SUBSET Views, return : SUBSET Places, looking : Flags,
   online : SUBSET Each(Networks), joined : SUBSET (Each(Networks) \X Channels)]

AtMostOne(S) == S = {} \/ \E p : S = {p}

Clients ==
  {st \in Fields : /\ AtMostOne(st.return)
                   /\ \A q \in st.joined : q[1] \in st.online}

\* What the parts of a client's state are.
LEMMA ClientFields ==
  ASSUME NEW st \in Clients
  PROVE  /\ st.windows \in Layouts /\ st.focus \in Places /\ st.messages \in BOOLEAN
         /\ st.prev \in Places /\ st.extra \subseteq Views
         /\ st.return \subseteq Places /\ AtMostOne(st.return)
         /\ st.looking \in BOOLEAN /\ st.online \subseteq Each(Networks)
         /\ st.joined \subseteq Each(Networks) \X Channels
         /\ \A q \in st.joined : q[1] \in st.online
<1>1. st \in Fields /\ AtMostOne(st.return) /\ \A q \in st.joined : q[1] \in st.online
  BY DEF Clients
<1>2. /\ st.windows \in Layouts /\ st.focus \in Places /\ st.messages \in Flags
      /\ st.prev \in Places /\ st.extra \in SUBSET Views
      /\ st.return \in SUBSET Places
      /\ st.looking \in Flags /\ st.online \in SUBSET Each(Networks)
      /\ st.joined \in SUBSET (Each(Networks) \X Channels)
  BY <1>1 DEF Fields
<1> QED
  BY <1>1, <1>2, Zenon DEF Flags

\* The windows of a layout.
LEMMA LayoutFields ==
  ASSUME NEW ws \in Layouts
  PROVE  /\ DOMAIN ws \subseteq Places /\ ws \in [DOMAIN ws -> Window]
         /\ \A p \in DOMAIN ws : Good(ws[p]) /\ ws[p] \in Window
         /\ \A p, q \in DOMAIN ws :
              p # q /\ ws[p].name = ws[q].name => ws[p].name = 0
<1>1. Layout(ws) /\ ws \in UNION {[D -> Window] : D \in SUBSET Places}
  BY DEF Layouts
<1>2. PICK D \in SUBSET Places : ws \in [D -> Window]
  BY <1>1
<1>3. DOMAIN ws = D
  BY <1>2
<1> QED
  BY <1>1, <1>2, <1>3 DEF Layout

LEMMA IsLayout ==
  ASSUME NEW D \in SUBSET Places, NEW ws \in [D -> Window],
         \A p \in D : Good(ws[p]),
         \A p, q \in D : p # q /\ ws[p].name = ws[q].name => ws[p].name = 0
  PROVE  ws \in Layouts
<1>1. DOMAIN ws = D
  OBVIOUS
<1>2. Layout(ws)
  BY <1>1 DEF Layout
<1>3. ws \in UNION {[E -> Window] : E \in SUBSET Places}
  OBVIOUS
<1> QED
  BY <1>2, <1>3, Zenon DEF Layouts

\* Windows that are changed one by one, each keeping its letter or losing it.
LEMMA TouchedLayout ==
  ASSUME NEW ws \in Layouts, NEW vs \in [DOMAIN ws -> Window],
         \A p \in DOMAIN ws : Good(vs[p]) /\ vs[p].name \in {0, ws[p].name}
  PROVE  vs \in Layouts
<1>1. DOMAIN ws \in SUBSET Places
      /\ \A p, q \in DOMAIN ws : p # q /\ ws[p].name = ws[q].name => ws[p].name = 0
  BY LayoutFields
<1>2. ASSUME NEW p \in DOMAIN ws, NEW q \in DOMAIN ws, p # q, vs[p].name = vs[q].name
      PROVE  vs[p].name = 0
  BY <1>1, <1>2
<1> QED
  BY <1>1, <1>2, IsLayout

(***************************************************************************)
(* Assigning the parts of the client's state.                              *)
(***************************************************************************)

\* v differs from st in its windows, which are ws.
Rewindowed(v, st, ws) ==
  /\ v \in Clients /\ v.windows = ws
  /\ v.focus = st.focus /\ v.messages = st.messages /\ v.prev = st.prev
  /\ v.extra = st.extra /\ v.return = st.return /\ v.looking = st.looking
  /\ v.online = st.online /\ v.joined = st.joined

LEMMA SetWindows ==
  ASSUME NEW st \in Clients, NEW ws \in Layouts
  PROVE  Rewindowed([st EXCEPT !.windows = ws], st, ws)
<1> DEFINE v == [st EXCEPT !.windows = ws]
<1>1. st \in Fields
  BY DEF Clients
<1>2. /\ v \in Fields /\ v.windows = ws
      /\ v.focus = st.focus /\ v.messages = st.messages /\ v.prev = st.prev
      /\ v.extra = st.extra /\ v.return = st.return /\ v.looking = st.looking
      /\ v.online = st.online /\ v.joined = st.joined
  BY <1>1 DEF Fields
<1> HIDE DEF v
<1>3. v \in Clients
  BY <1>2, ClientFields DEF Clients
<1> QED
  BY <1>2, <1>3 DEF Rewindowed, v

\* v differs from st in its focus, which is p.
Refocused(v, st, p) ==
  /\ v \in Clients /\ v.windows = st.windows
  /\ v.focus = p /\ v.messages = TRUE
  /\ v.extra = st.extra /\ v.return = st.return /\ v.looking = st.looking
  /\ v.online = st.online /\ v.joined = st.joined

LEMMA SetFocus ==
  ASSUME NEW st \in Clients, NEW p \in Places, NEW q \in Places
  PROVE  Refocused([st EXCEPT !.focus = p, !.messages = TRUE, !.prev = q], st, p)
<1> DEFINE v == [st EXCEPT !.focus = p, !.messages = TRUE, !.prev = q]
<1>1. st \in Fields /\ TRUE \in Flags
  BY DEF Clients, Flags
<1>2. /\ v \in Fields /\ v.windows = st.windows /\ v.focus = p /\ v.messages = TRUE
      /\ v.extra = st.extra /\ v.return = st.return /\ v.looking = st.looking
      /\ v.online = st.online /\ v.joined = st.joined
  BY <1>1 DEF Fields
<1> HIDE DEF v
<1>3. v \in Clients
  BY <1>2, ClientFields DEF Clients
<1> QED
  BY <1>2, <1>3 DEF Refocused, v

\* What else a key or command may assign.
Returned(v, st, R) == v = [st EXCEPT !.return = R]

SameBut(v, st, R) ==
  /\ v.return = R /\ v.windows = st.windows /\ v.focus = st.focus
  /\ v.messages = st.messages /\ v.looking = st.looking

LEMMA SetReturn ==
  ASSUME NEW st \in Clients, NEW R \in SUBSET Places, AtMostOne(R), NEW v,
         Returned(v, st, R)
  PROVE  v \in Clients /\ SameBut(v, st, R)
<1>1. st \in Fields
  BY DEF Clients
<1>2. /\ v \in Fields /\ v.return = R /\ v.windows = st.windows
      /\ v.focus = st.focus /\ v.messages = st.messages /\ v.extra = st.extra
      /\ v.looking = st.looking /\ v.online = st.online /\ v.joined = st.joined
  BY <1>1 DEF Fields, Returned
<1>3. v \in Clients
  BY <1>2, ClientFields DEF Clients
<1> QED
  BY <1>2, <1>3 DEF SameBut

LEMMA SetOthers ==
  ASSUME NEW st \in Clients, NEW b \in BOOLEAN
  PROVE  /\ [st EXCEPT !.messages = b] \in Clients
         /\ [st EXCEPT !.looking = b] \in Clients
<1>1. st \in Fields /\ b \in Flags
  BY DEF Clients, Flags
<1>2. ASSUME NEW v, v \in {[st EXCEPT !.messages = b], [st EXCEPT !.looking = b]}
      PROVE  v \in Fields /\ v.return = st.return /\ v.online = st.online
             /\ v.joined = st.joined
  BY <1>1, <1>2 DEF Fields
<1>3. ASSUME NEW v, v \in {[st EXCEPT !.messages = b], [st EXCEPT !.looking = b]}
      PROVE  v \in Clients
  BY <1>2, <1>3, ClientFields DEF Clients
<1> QED
  BY <1>3, Zenon

LEMMA SetPlace ==
  ASSUME NEW st \in Clients, NEW p \in Places, NEW v, v = [st EXCEPT !.focus = p]
  PROVE  v \in Clients /\ v.focus = p /\ v.windows = st.windows
<1>1. st \in Fields
  BY DEF Clients
<1>2. /\ v \in Fields /\ v.return = st.return /\ v.online = st.online
      /\ v.joined = st.joined /\ v.focus = p /\ v.windows = st.windows
  BY <1>1 DEF Fields
<1>3. v \in Clients
  BY <1>2, ClientFields DEF Clients
<1> QED
  BY <1>2, <1>3

LEMMA SetExtra ==
  ASSUME NEW st \in Clients, NEW E \in SUBSET Views
  PROVE  [st EXCEPT !.extra = E] \in Clients
<1> DEFINE v == [st EXCEPT !.extra = E]
<1>1. st \in Fields
  BY DEF Clients
<1>2. /\ v \in Fields /\ v.return = st.return
      /\ v.online = st.online /\ v.joined = st.joined
  BY <1>1 DEF Fields
<1> HIDE DEF v
<1>3. v \in Clients
  BY <1>2, ClientFields DEF Clients
<1> QED
  BY <1>3 DEF v

\* The network table: channels are joined on networks that are there.
LEMMA SetTable ==
  ASSUME NEW st \in Clients, NEW on \in SUBSET Each(Networks),
         NEW in \in SUBSET (Each(Networks) \X Channels),
         \A q \in in : q[1] \in on
  PROVE  [st EXCEPT !.online = on, !.joined = in] \in Clients
<1> DEFINE v == [st EXCEPT !.online = on, !.joined = in]
<1>1. st \in Fields
  BY DEF Clients
<1>2. v \in Fields /\ v.return = st.return /\ v.online = on /\ v.joined = in
  BY <1>1 DEF Fields
<1> HIDE DEF v
<1>3. v \in Clients
  BY <1>2, ClientFields DEF Clients
<1> QED
  BY <1>3 DEF v

(***************************************************************************)
(* Changing one window, or those of some places.                           *)
(***************************************************************************)
Put(ws, p, w) == IF p \in DOMAIN ws THEN [ws EXCEPT ![p] = w] ELSE ws

LEMMA OverIs ==
  ASSUME NEW st \in Clients, NEW p, NEW w,
         p \in DOMAIN st.windows => Good(w) /\ w.name \in {0, st.windows[p].name}
  PROVE  Rewindowed(IF p \in DOMAIN st.windows
                    THEN [st EXCEPT !.windows[p] = w] ELSE st,
                    st, Put(st.windows, p, w))
<1>1. CASE p \notin DOMAIN st.windows
  BY <1>1, Zenon DEF Rewindowed, Put
<1>2. CASE p \in DOMAIN st.windows
  <2> DEFINE ws == st.windows
             vs == [ws EXCEPT ![p] = w]
  <2>1. ws \in Layouts /\ ws \in [DOMAIN ws -> Window]
        /\ \A q \in DOMAIN ws : Good(ws[q])
    BY ClientFields, LayoutFields
  <2>2. w \in Window
    BY <1>2 DEF Good
  <2>3. vs \in [DOMAIN ws -> Window]
    BY <2>1, <2>2
  <2>4. vs[p] = w /\ \A q \in DOMAIN ws : q # p => vs[q] = ws[q]
    BY <1>2, <2>1
  <2>5. \A q \in DOMAIN ws : Good(vs[q]) /\ vs[q].name \in {0, ws[q].name}
    BY <1>2, <2>1, <2>4
  <2>6. vs \in Layouts
    BY <2>1, <2>3, <2>5, TouchedLayout
  <2>7. Rewindowed([st EXCEPT !.windows = vs], st, vs)
    BY <2>6, SetWindows
  <2>8. [st EXCEPT !.windows = vs] = [st EXCEPT !.windows[p] = w]
    BY <2>1, Zenon
  <2> QED
    BY <1>2, <2>7, <2>8, Zenon DEF Put
<1> QED
  BY <1>1, <1>2

PutAll(ws, S, f) == [p \in DOMAIN ws |-> IF p \in S THEN f[p] ELSE ws[p]]

LEMMA OverAllIs ==
  ASSUME NEW st \in Clients, NEW S, NEW f,
         \A p \in S \cap DOMAIN st.windows :
           Good(f[p]) /\ f[p].name \in {0, st.windows[p].name}
  PROVE  Rewindowed([st EXCEPT !.windows = PutAll(st.windows, S, f)],
                    st, PutAll(st.windows, S, f))
<1> DEFINE ws == st.windows
           vs == PutAll(ws, S, f)
<1>1. ws \in Layouts /\ \A p \in DOMAIN ws : Good(ws[p]) /\ ws[p] \in Window
  BY ClientFields, LayoutFields
<1>2. \A p \in DOMAIN ws : vs[p] = IF p \in S THEN f[p] ELSE ws[p]
  BY DEF PutAll
<1>3. \A p \in DOMAIN ws : Good(vs[p]) /\ vs[p].name \in {0, ws[p].name}
  BY <1>1, <1>2
<1>4. vs \in [DOMAIN ws -> Window]
  <2>1. \A p \in DOMAIN ws : (IF p \in S THEN f[p] ELSE ws[p]) \in Window
    BY <1>2, <1>3 DEF Good
  <2> QED
    BY <2>1 DEF PutAll
<1>5. vs \in Layouts
  <2> HIDE DEF vs
  <2> QED
    BY <1>1, <1>3, <1>4, TouchedLayout
<1> QED
  BY <1>5, SetWindows

\* A window opened or replaced.
LEMMA SetWindowIs ==
  ASSUME NEW st \in Clients, NEW p \in Places, NEW w, Good(w),
         \A q \in DOMAIN st.windows :
           q # p /\ st.windows[q].name = w.name => w.name = 0
  PROVE  Rewindowed(SetWindow(st, p, w), st,
                    [q \in DOMAIN st.windows \cup {p} |->
                       IF q = p THEN w ELSE st.windows[q]])
<1> DEFINE ws == st.windows
           D == DOMAIN ws \cup {p}
           vs == [q \in D |-> IF q = p THEN w ELSE ws[q]]
<1>1. /\ ws \in Layouts /\ DOMAIN ws \subseteq Places
      /\ \A q \in DOMAIN ws : Good(ws[q]) /\ ws[q] \in Window
      /\ \A q, r \in DOMAIN ws :
           q # r /\ ws[q].name = ws[r].name => ws[q].name = 0
  BY ClientFields, LayoutFields
<1>2. D \in SUBSET Places /\ vs \in [D -> Window]
  BY <1>1 DEF Good
<1>3. \A q \in D : Good(vs[q])
  BY <1>1
<1>4. ASSUME NEW q \in D, NEW r \in D, q # r, vs[q].name = vs[r].name
      PROVE  vs[q].name = 0
  BY <1>1, <1>4
<1>5. vs \in Layouts
  <2> HIDE DEF vs, D
  <2> QED
    BY <1>2, <1>3, <1>4, IsLayout
<1>6. Rewindowed([st EXCEPT !.windows = vs], st, vs)
  BY <1>5, SetWindows
<1> QED
  BY <1>6 DEF SetWindow

\* A window closed.
LEMMA DropWindowIs ==
  ASSUME NEW st \in Clients, NEW p
  PROVE  Rewindowed(DropWindow(st, p), st,
                    [q \in DOMAIN st.windows \ {p} |-> st.windows[q]])
<1> DEFINE ws == st.windows
           D == DOMAIN ws \ {p}
           vs == [q \in D |-> ws[q]]
<1>1. /\ ws \in Layouts /\ DOMAIN ws \subseteq Places
      /\ \A q \in DOMAIN ws : Good(ws[q]) /\ ws[q] \in Window
      /\ \A q, r \in DOMAIN ws :
           q # r /\ ws[q].name = ws[r].name => ws[q].name = 0
  BY ClientFields, LayoutFields
<1>2. D \in SUBSET Places /\ vs \in [D -> Window]
  BY <1>1 DEF Good
<1>3. /\ \A q \in D : Good(vs[q])
      /\ \A q, r \in D : q # r /\ vs[q].name = vs[r].name => vs[q].name = 0
  BY <1>1
<1>4. vs \in Layouts
  <2> HIDE DEF vs, D
  <2> QED
    BY <1>2, <1>3, IsLayout
<1>5. Rewindowed([st EXCEPT !.windows = vs], st, vs)
  BY <1>4, SetWindows
<1> QED
  BY <1>5 DEF DropWindow

\* The letter of a new window is one that no window has.
LEMMA NextWindowNameIs ==
  ASSUME NEW st \in Clients
  PROVE  /\ NextWindowName(st) \in 0 .. Names
         /\ \A p \in DOMAIN st.windows :
              st.windows[p].name = NextWindowName(st) => NextWindowName(st) = 0
<1> DEFINE free == (1 .. Names) \ UsedNames(st)
           n == CHOOSE n \in free : \A m \in free : n =< m
<1>1. CASE free = {}
  BY <1>1, WindowsAssumption DEF NextWindowName
<1>2. CASE free # {}
  <2>1. free \in SUBSET Nat
    BY WindowsAssumption
  <2>2. \E k \in free : \A m \in free : k =< m
    <3> HIDE DEF free
    <3> QED
      BY <1>2, <2>1, LeastNumber
  <2>3. n \in free
    <3> HIDE DEF free
    <3> QED
      BY <2>2
  <2>4. NextWindowName(st) = n
    BY <1>2 DEF NextWindowName
  <2>5. n \notin UsedNames(st) /\ n \in 0 .. Names
    BY <2>3, WindowsAssumption
  <2> HIDE DEF n, free
  <2> QED
    BY <2>4, <2>5 DEF UsedNames
<1> QED
  BY <1>1, <1>2

(***************************************************************************)
(* What comes from the networks.                                           *)
(***************************************************************************)

\* A window extends itself, and one with another line extends it.
LEMMA ExtendsBoth ==
  ASSUME NEW w \in Window, NEW imp \in Importance
  PROVE  Extends(w, w) /\ Extends(AddToWindow(w, imp), w)
<1> DEFINE v == AddToWindow(w, imp)
<1>1. w.lines \in Seq(Line) /\ Len(w.lines) \in Nat
  BY UnknownLines DEF Window
<1>2. DOMAIN w.lines = 1 .. Len(w.lines)
  BY <1>1
<1>3. Extends(w, w)
  BY <1>1, <1>2 DEF Extends
<1>4. Len(v.lines) = Len(w.lines) + 1
      /\ \A n \in 1 .. Len(w.lines) : v.lines[n + 1] = w.lines[n]
  BY AddedLine
<1> HIDE DEF v
<1>5. Extends(v, w)
  BY <1>1, <1>2, <1>4 DEF Extends
<1> QED
  BY <1>3, <1>5 DEF v

\* A user keeps his windows and his place when each window is extended.
LEMMA KeptInPlace ==
  ASSUME NEW st, NEW v, v.focus = st.focus,
         \A p \in DOMAIN st.windows :
           p \in DOMAIN v.windows /\ Extends(v.windows[p], st.windows[p])
  PROVE  Kept(st, v)
BY DEF Kept

\* A line for a window.
LEMMA RecordWindowLineIs ==
  ASSUME NEW st \in Clients, NEW create \in BOOLEAN, NEW p \in Places,
         NEW imp \in Importance
  PROVE  /\ RecordWindowLine(st, create, p, imp) \in Clients
         /\ RecordWindowLine(st, create, p, imp).focus = st.focus
         /\ Kept(st, RecordWindowLine(st, create, p, imp))
<1> DEFINE ws == st.windows
           v == RecordWindowLine(st, create, p, imp)
<1>1. /\ DOMAIN ws \subseteq Places
      /\ \A q \in DOMAIN ws : Good(ws[q]) /\ ws[q] \in Window
      /\ \A q, r \in DOMAIN ws :
           q # r /\ ws[q].name = ws[r].name => ws[q].name = 0
  BY ClientFields, LayoutFields
<1>2. \A q \in DOMAIN ws : Extends(ws[q], ws[q])
  BY <1>1, ExtendsBoth
<1>3. CASE p \in DOMAIN ws
  <2> DEFINE w == AddToWindow(ws[p], imp)
  <2>1. Good(w) /\ w.name = ws[p].name /\ Extends(w, ws[p])
    BY <1>1, <1>3, AddedGood, AddedLine, ExtendsBoth
  <2> HIDE DEF w
  <2>2. Rewindowed(SetWindow(st, p, w), st,
                   [q \in DOMAIN ws \cup {p} |-> IF q = p THEN w ELSE ws[q]])
    BY <1>1, <1>3, <2>1, SetWindowIs
  <2>3. v = SetWindow(st, p, w)
    BY <1>3 DEF RecordWindowLine, w
  <2> HIDE DEF v
  <2> QED
    BY <1>2, <1>3, <2>1, <2>2, <2>3 DEF Rewindowed, Kept, v
<1>4. CASE p \notin DOMAIN ws /\ create
  <2> DEFINE name == NextWindowName(st)
             e == EmptyWindow(name)
             w == AddToWindow(e, imp)
  <2>1. name \in 0 .. Names /\ \A q \in DOMAIN ws : ws[q].name = name => name = 0
    BY NextWindowNameIs
  <2> HIDE DEF name
  <2>2. Good(e) /\ e.name = name /\ e \in Window
    BY <2>1, EmptyGood DEF Good
  <2> HIDE DEF e
  <2>3. Good(w) /\ w.name = name
    BY <2>2, AddedGood, AddedLine
  <2> HIDE DEF w
  <2>4. Rewindowed(SetWindow(st, p, w), st,
                   [q \in DOMAIN ws \cup {p} |-> IF q = p THEN w ELSE ws[q]])
    BY <2>1, <2>3, SetWindowIs
  <2>5. v = SetWindow(st, p, w)
    BY <1>4 DEF RecordWindowLine, w, e, name
  <2> HIDE DEF v
  <2>6. /\ v \in Clients /\ v.focus = st.focus
        /\ v.windows = [q \in DOMAIN ws \cup {p} |-> IF q = p THEN w ELSE ws[q]]
    BY <2>4, <2>5 DEF Rewindowed
  <2>7. \A q \in DOMAIN ws :
          q \in DOMAIN v.windows /\ Extends(v.windows[q], ws[q])
    BY <1>2, <1>4, <2>6
  <2>8. Kept(st, v)
    BY <2>6, <2>7, KeptInPlace
  <2> QED
    BY <2>6, <2>8 DEF v
<1>5. CASE p \notin DOMAIN ws /\ ~create
  <2>1. v = st
    BY <1>5 DEF RecordWindowLine
  <2> HIDE DEF v
  <2> QED
    BY <1>2, <2>1 DEF Kept, v
<1> QED
  BY <1>3, <1>4, <1>5

\* A line about a user, in the channels where he is.
LEMMA RecordUserMessageIs ==
  ASSUME NEW st \in Clients, NEW n, NEW user, NEW S
  PROVE  /\ RecordUserMessage(st, n, user, S) \in Clients
         /\ Kept(st, RecordUserMessage(st, n, user, S))
<1> DEFINE ws == st.windows
           P == {<<n, t>> : t \in S \cup {user}}
           f == [p \in DOMAIN ws |-> AddToWindow(ws[p], Boring)]
           vs == PutAll(ws, P, f)
           v == RecordUserMessage(st, n, user, S)
<1>1. \A q \in DOMAIN ws : Good(ws[q]) /\ ws[q] \in Window
  BY ClientFields, LayoutFields
<1>2. Boring \in Importance
  BY DEF Importance, Boring, Important
<1>3. \A q \in DOMAIN ws : /\ Good(f[q]) /\ f[q].name = ws[q].name
                          /\ Extends(f[q], ws[q]) /\ Extends(ws[q], ws[q])
  BY <1>1, <1>2, AddedGood, AddedLine, ExtendsBoth
<1>4. v = [st EXCEPT !.windows = vs]
  <2>1. vs = [p \in DOMAIN ws |->
                IF p \in P THEN AddToWindow(ws[p], Boring) ELSE ws[p]]
    BY DEF PutAll
  <2> QED
    BY <2>1, Zenon DEF RecordUserMessage, OverAll
<1> HIDE DEF f, P
<1>5. Rewindowed([st EXCEPT !.windows = vs], st, vs)
  BY <1>3, OverAllIs
<1>6. \A q \in DOMAIN ws : q \in DOMAIN vs /\ Extends(vs[q], ws[q])
  BY <1>3 DEF PutAll
<1> HIDE DEF v, vs
<1>7. v \in Clients /\ v.windows = vs /\ v.focus = st.focus
  BY <1>4, <1>5 DEF Rewindowed
<1>8. Kept(st, v)
  BY <1>6, <1>7, KeptInPlace
<1> QED
  BY <1>7, <1>8 DEF v

\* A window that follows its user's nickname.
LEMMA ApplyWindowRenamesIs ==
  ASSUME NEW st \in Clients, NEW n \in Each(Networks), NEW old,
         NEW new \in Each(Targets)
  PROVE  /\ ApplyWindowRenames(st, n, old, new) \in Clients
         /\ Kept(st, ApplyWindowRenames(st, n, old, new))
<1> DEFINE ws == st.windows
           from == <<n, old>>
           to == <<n, new>>
           v == ApplyWindowRenames(st, n, old, new)
<1>1. /\ ws \in Layouts /\ DOMAIN ws \subseteq Places
      /\ \A q \in DOMAIN ws : Good(ws[q]) /\ ws[q] \in Window
      /\ \A q, r \in DOMAIN ws :
           q # r /\ ws[q].name = ws[r].name => ws[q].name = 0
      /\ st.focus \in Places
  BY ClientFields, LayoutFields
<1>2. \A q \in DOMAIN ws : Extends(ws[q], ws[q])
  <2>1. Boring \in Importance
    BY DEF Importance, Boring, Important
  <2> QED
    BY <1>1, <2>1, ExtendsBoth
<1>3. to \in Places
  BY DEF Places
<1>4. CASE from \in DOMAIN ws /\ to \notin DOMAIN ws
  <2> DEFINE u == SetWindow(st, to, ws[from])
             us == [q \in DOMAIN ws \cup {to} |-> IF q = to THEN ws[from] ELSE ws[q]]
             D == (DOMAIN ws \cup {to}) \ {from}
             vs == [q \in D |-> IF q = to THEN ws[from] ELSE ws[q]]
             m == DropWindow(u, from)
             p == IF st.focus = from THEN to ELSE st.focus
  <2>1. v = [m EXCEPT !.focus = IF @ = from THEN to ELSE @]
    BY <1>4 DEF ApplyWindowRenames
  <2>2. m = [st EXCEPT !.windows = vs]
    <3>1. u = [st EXCEPT !.windows = us]
      BY DEF SetWindow
    <3>2. st \in Fields
      BY DEF Clients
    <3> HIDE DEF us
    <3>3. u.windows = us
      BY <3>1, <3>2 DEF Fields
    <3>4. m = [u EXCEPT !.windows = [q \in DOMAIN us \ {from} |-> us[q]]]
      BY <3>3 DEF DropWindow
    <3>5. [q \in DOMAIN us \ {from} |-> us[q]] = vs
      BY DEF us
    <3> HIDE DEF m, u, vs
    <3>6. m = [u EXCEPT !.windows = vs]
      BY <3>4, <3>5
    <3> QED
      BY <3>1, <3>2, <3>6 DEF Fields
  <2>3. D \in SUBSET Places /\ vs \in [D -> Window] /\ \A q \in D : Good(vs[q])
    BY <1>1, <1>3, <1>4
  <2>4. ASSUME NEW q \in D, NEW r \in D, q # r, vs[q].name = vs[r].name
        PROVE  vs[q].name = 0
    BY <1>1, <1>4, <2>4
  <2> HIDE DEF m, u, us
  <2>5. vs \in Layouts
    <3> HIDE DEF D, vs
    <3> QED
      BY <2>3, <2>4, IsLayout
  <2>6. m \in Clients /\ m.windows = vs /\ m.focus = st.focus
    <3> HIDE DEF vs
    <3> QED
      BY <2>2, <2>5, SetWindows DEF Rewindowed
  <2>7. v = [m EXCEPT !.focus = p]
    BY <2>1, <2>6
  <2>8. p \in Places
    BY <1>1, <1>3
  <2> HIDE DEF v
  <2>9. v \in Clients /\ v.focus = p /\ v.windows = vs
    <3> HIDE DEF vs, p
    <3> QED
      BY <2>6, <2>7, <2>8, SetPlace
  <2>10. ASSUME NEW q \in DOMAIN ws
         PROVE  \E r \in DOMAIN v.windows : /\ Extends(v.windows[r], ws[q])
                                            /\ q = st.focus => r = v.focus
    <3>1. CASE q = from
      <4>1. to \in DOMAIN v.windows /\ v.windows[to] = ws[q]
        BY <1>4, <2>9, <3>1
      <4> QED
        BY <1>2, <2>9, <3>1, <4>1
    <3>2. CASE q # from
      <4>1. q \in DOMAIN v.windows /\ v.windows[q] = ws[q]
        BY <1>4, <2>9, <3>2
      <4> QED
        BY <1>2, <2>9, <3>2, <4>1
    <3> QED
      BY <3>1, <3>2
  <2> QED
    BY <2>9, <2>10 DEF Kept, v
<1>5. CASE ~(from \in DOMAIN ws /\ to \notin DOMAIN ws)
  <2>1. v = st
    BY <1>5 DEF ApplyWindowRenames
  <2> HIDE DEF v
  <2>2. Kept(st, v)
    BY <1>2, <2>1, KeptInPlace
  <2> QED
    BY <2>1, <2>2 DEF v
<1> QED
  BY <1>4, <1>5

(***************************************************************************)
(* Focus.                                                                  *)
(***************************************************************************)

\* No operator on the marker touches the count; seeing a window empties it.
LEMMA TouchedUnread ==
  ASSUME NEW w, Good(w)
  PROVE  /\ WindowActivate(w).unread = w.unread
         /\ WindowDeactivate(w).unread = w.unread
         /\ Known(WindowSeen(w)).unread = 0
<1>1. w \in Window
  BY DEF Good
<1>2. /\ [w EXCEPT !.marker = {}].unread = w.unread
      /\ [w EXCEPT !.marker = {0}].unread = w.unread
  BY <1>1 DEF Window
<1>3. Known(WindowSeen(w)).unread = 0
  <2>1. WindowSeen(w).unread = 0
    BY <1>1 DEF Window, WindowSeen
  <2>2. WindowSeen(w) = [w EXCEPT !.unread = 0, !.mention = Boring]
    BY DEF WindowSeen
  <2> QED
    BY <1>1, <2>2 DEF Known, Window
<1> QED
  BY <1>2, <1>3 DEF WindowActivate, WindowDeactivate

SameUnread(vs, ws) ==
  DOMAIN vs = DOMAIN ws /\ \A q \in DOMAIN ws : vs[q].unread = ws[q].unread

\* v differs from st in its focus, which is p, and in markers.
Focused(v, st, p) ==
  /\ v \in Clients /\ v.focus = p /\ v.messages = TRUE
  /\ SameUnread(v.windows, st.windows)
  /\ v.extra = st.extra /\ v.return = st.return /\ v.looking = st.looking
  /\ v.online = st.online /\ v.joined = st.joined

\* One window activated or deactivated.
LEMMA PutUnread ==
  ASSUME NEW ws, NEW p, NEW w, p \in DOMAIN ws => w.unread = ws[p].unread
  PROVE  SameUnread(Put(ws, p, w), ws)
BY DEF SameUnread, Put

LEMMA ChangeFocusIs ==
  ASSUME NEW st \in Clients, NEW p \in Places
  PROVE  Focused(ChangeFocus(st, p), st, p)
<1> DEFINE ws == st.windows
           old == st.focus
           to == IF p = old THEN st.prev ELSE old
           moved == [st EXCEPT !.focus = p, !.messages = TRUE, !.prev = to]
           gone == Over(moved, old, WindowDeactivate)
           left == IF old = p \/ View(old, TRUE) \in st.extra THEN moved ELSE gone
           v == Over(left, p, WindowActivate)
<1>1. v = ChangeFocus(st, p)
  <2>1. st \in Fields
    BY DEF Clients
  <2>2. moved = [st EXCEPT !.focus = p, !.messages = TRUE,
                           !.prev = IF p = old THEN @ ELSE old]
    BY <2>1 DEF Fields
  <2> HIDE DEF to
  <2> QED
    BY <2>2, Zenon DEF ChangeFocus
<1>2. Refocused(moved, st, p)
  <2>1. to \in Places
    BY ClientFields
  <2> HIDE DEF to
  <2> QED
    BY <2>1, SetFocus
<1> HIDE DEF moved
<1>3. moved \in Clients /\ moved.windows = ws
      /\ \A q \in DOMAIN ws : Good(ws[q])
  BY <1>2, ClientFields, LayoutFields DEF Refocused
<1>4. Focused(moved, st, p)
  BY <1>2 DEF Refocused, Focused, SameUnread
<1>5. Focused(gone, st, p)
  <2> DEFINE w == WindowDeactivate(ws[old])
             vs == Put(ws, old, w)
  <2>1. old \in DOMAIN ws => /\ Good(w) /\ w.name \in {0, ws[old].name}
                             /\ w.unread = ws[old].unread
    BY <1>3, TouchedGood, TouchedUnread
  <2>2. gone = IF old \in DOMAIN moved.windows
               THEN [moved EXCEPT !.windows[old] = w] ELSE moved
    BY <1>3, Zenon DEF Over
  <2> HIDE DEF w
  <2>3. Rewindowed(gone, moved, vs)
    BY <1>3, <2>1, <2>2, OverIs
  <2>4. SameUnread(vs, ws)
    BY <2>1, PutUnread
  <2> HIDE DEF vs, gone
  <2> QED
    BY <1>2, <2>3, <2>4 DEF Rewindowed, Refocused, Focused
<1> HIDE DEF gone
<1>6. Focused(left, st, p)
  BY <1>4, <1>5
<1> HIDE DEF left
<1>7. left \in Clients /\ SameUnread(left.windows, ws)
      /\ \A q \in DOMAIN left.windows : Good(left.windows[q])
  BY <1>6, ClientFields, LayoutFields DEF Focused
<1>8. Focused(v, st, p)
  <2> DEFINE us == left.windows
             w == WindowActivate(us[p])
             vs == Put(us, p, w)
  <2>1. p \in DOMAIN us => /\ Good(w) /\ w.name \in {0, us[p].name}
                           /\ w.unread = us[p].unread
    BY <1>7, TouchedGood, TouchedUnread
  <2>2. v = IF p \in DOMAIN us THEN [left EXCEPT !.windows[p] = w] ELSE left
    BY Zenon DEF Over
  <2> HIDE DEF w
  <2>3. Rewindowed(v, left, vs)
    BY <1>7, <2>1, <2>2, OverIs
  <2>4. SameUnread(vs, us)
    BY <2>1, PutUnread
  <2> HIDE DEF vs, v
  <2>5. SameUnread(vs, ws)
    BY <1>7, <2>4 DEF SameUnread
  <2> QED
    BY <1>6, <2>3, <2>5 DEF Rewindowed, Focused
<1> QED
  BY <1>1, <1>8

\* Splits.
LEMMA SetExtraFocusIs ==
  ASSUME NEW st \in Clients, NEW new \in SUBSET Views
  PROVE  SetExtraFocus(st, new) \in Clients
<1> DEFINE active == MessagePart(new) \ MessagePart({Current(st)} \cup st.extra)
           inactive == MessagePart(st.extra) \ MessagePart({Current(st)} \cup new)
           base == [st EXCEPT !.extra = new]
           f == [p \in DOMAIN base.windows |-> WindowActivate(base.windows[p])]
           mid == [base EXCEPT !.windows = PutAll(base.windows, active, f)]
           g == [p \in DOMAIN mid.windows |-> WindowDeactivate(mid.windows[p])]
           end == [mid EXCEPT !.windows = PutAll(mid.windows, inactive, g)]
<1>1. SetExtraFocus(st, new) =
        OverAll(OverAll(base, active, WindowActivate), inactive, WindowDeactivate)
  BY DEF SetExtraFocus
<1> HIDE DEF active, inactive
<1>2. base \in Clients
  BY SetExtra
<1> HIDE DEF base
<1>3. mid = OverAll(base, active, WindowActivate)
  <2>1. PutAll(base.windows, active, f) =
          [p \in DOMAIN base.windows |->
             IF p \in active THEN WindowActivate(base.windows[p]) ELSE base.windows[p]]
    BY DEF PutAll
  <2> QED
    BY <2>1, Zenon DEF OverAll
<1>4. mid \in Clients
  <2>1. \A p \in DOMAIN base.windows :
          Good(f[p]) /\ f[p].name = base.windows[p].name
    BY <1>2, ClientFields, LayoutFields, TouchedGood
  <2> HIDE DEF f
  <2> QED
    BY <1>2, <2>1, OverAllIs DEF Rewindowed
<1> HIDE DEF mid, f
<1>5. end = OverAll(mid, inactive, WindowDeactivate)
  <2>1. PutAll(mid.windows, inactive, g) =
          [p \in DOMAIN mid.windows |->
             IF p \in inactive THEN WindowDeactivate(mid.windows[p])
             ELSE mid.windows[p]]
    BY DEF PutAll
  <2> QED
    BY <2>1, Zenon DEF OverAll
<1>6. end \in Clients
  <2>1. \A p \in DOMAIN mid.windows :
          Good(g[p]) /\ g[p].name = mid.windows[p].name
    BY <1>4, ClientFields, LayoutFields, TouchedGood
  <2> HIDE DEF g
  <2> QED
    BY <1>4, <2>1, OverAllIs DEF Rewindowed
<1> HIDE DEF end
<1> QED
  BY <1>1, <1>3, <1>5, <1>6

\* Jumps and turns of the focus.
LEMMA JumpsStay ==
  ASSUME NEW st \in Clients
  PROVE  /\ ReturnFocus(st) \in Clients
         /\ JumpToActivity(st) \in Clients
         /\ \A n : JumpFocus(st, n) \in Clients
         /\ AdvanceFocus(st) \in Clients
         /\ RetreatFocus(st) \in Clients
         /\ AdvanceNetworkFocus(st) \in Clients
<1>1. /\ DOMAIN st.windows \subseteq Places /\ st.prev \in Places
      /\ st.return \subseteq Places
  BY ClientFields, LayoutFields
<1>2. ASSUME NEW p \in Places PROVE ChangeFocus(st, p) \in Clients
  BY ChangeFocusIs DEF Focused
<1>3. ASSUME NEW S \in SUBSET Places, S # {}
      PROVE  /\ ChangeFocus(st, Earliest(S)) \in Clients
             /\ ChangeFocus(st, Latest(S)) \in Clients
  BY <1>2, <1>3, EarliestIn, LatestIn
<1>4. ReturnFocus(st) \in Clients
  BY <1>1, <1>2 DEF ReturnFocus
<1>5. JumpToActivity(st) \in Clients
  <2> DEFINE high == {p \in DOMAIN st.windows : st.windows[p].mention = Important}
             low == {p \in DOMAIN st.windows : st.windows[p].unread > 0}
  <2>1. high \subseteq Places /\ low \subseteq Places
    BY <1>1
  <2>2. CASE high # {}
    BY <1>3, <2>1, <2>2 DEF JumpToActivity
  <2>3. CASE high = {} /\ low # {}
    BY <1>3, <2>1, <2>3 DEF JumpToActivity
  <2>4. CASE high = {} /\ low = {} /\ st.return # {}
    BY <1>1, <1>3, <2>4 DEF JumpToActivity
  <2>5. CASE high = {} /\ low = {} /\ st.return = {}
    BY <2>5 DEF JumpToActivity
  <2> QED
    BY <2>2, <2>3, <2>4, <2>5
<1>6. ASSUME NEW n PROVE JumpFocus(st, n) \in Clients
  <2> DEFINE named == {p \in DOMAIN st.windows : st.windows[p].name = n}
  <2>1. named \subseteq Places
    BY <1>1
  <2> QED
    BY <1>3, <2>1 DEF JumpFocus
<1>7. Rotation(st) \subseteq Places /\ After(st) \subseteq Places
      /\ Before(st) \subseteq Places /\ Rotation(st) = After(st) \cup Before(st)
  BY <1>1 DEF Rotation, After, Before
<1>8. AdvanceFocus(st) \in Clients
  BY <1>3, <1>7 DEF AdvanceFocus
<1>9. RetreatFocus(st) \in Clients
  BY <1>3, <1>7 DEF RetreatFocus
<1>10. AdvanceNetworkFocus(st) \in Clients
  <2> DEFINE Of(S) == {p \in S : Len(p) = 1}
  <2>1. Of(Rotation(st)) = Of(After(st)) \cup Of(Before(st))
    BY <1>7
  <2>2. Of(After(st)) \subseteq Places /\ Of(Before(st)) \subseteq Places
    BY <1>7
  <2> DEFINE S == IF Of(After(st)) # {} THEN Of(After(st)) ELSE Of(Before(st))
  <2>3. CASE Of(Rotation(st)) = {}
    BY <2>3 DEF AdvanceNetworkFocus
  <2>4. CASE Of(Rotation(st)) # {}
    <3>1. S # {} /\ S \subseteq Places
      BY <2>1, <2>2, <2>4
    <3>2. AdvanceNetworkFocus(st) = ChangeFocus(st, Earliest(S))
      BY <2>4 DEF AdvanceNetworkFocus
    <3> HIDE DEF S
    <3> QED
      BY <1>3, <3>1, <3>2
  <2> QED
    BY <2>3, <2>4
<1> QED
  BY <1>4, <1>5, <1>6, <1>8, <1>9, <1>10

(***************************************************************************)
(* Commands.                                                               *)
(***************************************************************************)

\* What /setwindow and /setname assign to a window.
LEMMA MarkedGood ==
  ASSUME NEW w, Good(w), NEW n \in 0 .. Names, NEW f \in AllFilters
  PROVE  /\ Good([w EXCEPT !.name = n]) /\ [w EXCEPT !.name = n].name = n
         /\ Good([w EXCEPT !.filter = f]) /\ [w EXCEPT !.filter = f].name = w.name
         /\ Good(Show(w)) /\ Show(w).name = w.name
         /\ Good(Hide(w)) /\ Hide(w).name = 0
<1>1. w \in Window /\ Marked(w) /\ 0 \in 0 .. Names
  BY WindowsAssumption DEF Good
<1>2. ASSUME NEW v, v \in Window, v.lines = w.lines, v.unread = w.unread,
             v.mention = w.mention, v.marker = w.marker
      PROVE  Good(v)
  <2>1. Marked(v)
    BY <1>1, <1>2 DEF Marked
  <2> QED
    BY <1>2, <2>1, SameActivity
<1>3. Good([w EXCEPT !.name = n]) /\ [w EXCEPT !.name = n].name = n
  <2> DEFINE v == [w EXCEPT !.name = n]
  <2>1. /\ v \in Window /\ v.lines = w.lines /\ v.unread = w.unread
        /\ v.mention = w.mention /\ v.marker = w.marker /\ v.name = n
    BY <1>1 DEF Window
  <2> HIDE DEF v
  <2>2. Good(v)
    BY <1>2, <2>1
  <2> QED
    BY <2>1, <2>2 DEF v
<1>4. Good([w EXCEPT !.filter = f]) /\ [w EXCEPT !.filter = f].name = w.name
  <2> DEFINE v == [w EXCEPT !.filter = f]
  <2>1. /\ v \in Window /\ v.lines = w.lines /\ v.unread = w.unread
        /\ v.mention = w.mention /\ v.marker = w.marker /\ v.name = w.name
    BY <1>1 DEF Window
  <2> HIDE DEF v
  <2>2. Good(v)
    BY <1>2, <2>1
  <2> QED
    BY <2>1, <2>2 DEF v
<1>5. Good(Show(w)) /\ Show(w).name = w.name
  <2> DEFINE v == Show(w)
  <2>1. /\ v \in Window /\ v.lines = w.lines /\ v.unread = w.unread
        /\ v.mention = w.mention /\ v.marker = w.marker /\ v.name = w.name
    BY <1>1 DEF Window, Show
  <2> HIDE DEF v
  <2>2. Good(v)
    BY <1>2, <2>1
  <2> QED
    BY <2>1, <2>2 DEF v
<1>6. Good(Hide(w)) /\ Hide(w).name = 0
  <2> DEFINE v == Hide(w)
  <2>1. /\ v \in Window /\ v.lines = w.lines /\ v.unread = w.unread
        /\ v.mention = w.mention /\ v.marker = w.marker /\ v.name = 0
    BY <1>1 DEF Window, Hide
  <2> HIDE DEF v
  <2>2. Good(v)
    BY <1>2, <2>1
  <2> QED
    BY <2>1, <2>2 DEF v
<1> QED
  BY <1>3, <1>4, <1>5, <1>6

\* A change of one window that keeps or drops its letter.
LEMMA OverStays ==
  ASSUME NEW st \in Clients, NEW p, NEW f \in AllFilters
  PROVE  /\ Over(st, p, WindowClear) \in Clients
         /\ Over(st, p, Show) \in Clients
         /\ Over(st, p, Hide) \in Clients
         /\ (IF p \in DOMAIN st.windows
             THEN [st EXCEPT !.windows[p] = [@ EXCEPT !.filter = f]] ELSE st) \in Clients
         /\ Over(st, p, WindowClear).focus = st.focus
         /\ Over(st, p, WindowClear).prev = st.prev
<1>1. 0 \in 0 .. Names /\ \A q \in DOMAIN st.windows : Good(st.windows[q])
  BY ClientFields, LayoutFields, WindowsAssumption
<1>2. ASSUME NEW w,
             p \in DOMAIN st.windows => Good(w) /\ w.name \in {0, st.windows[p].name}
      PROVE  LET v == IF p \in DOMAIN st.windows
                      THEN [st EXCEPT !.windows[p] = w] ELSE st
             IN v \in Clients /\ v.focus = st.focus /\ v.prev = st.prev
  BY <1>2, OverIs DEF Rewindowed
<1>3. p \in DOMAIN st.windows =>
        LET w == st.windows[p]
        IN /\ Good(WindowClear(w)) /\ WindowClear(w).name = w.name
           /\ Good(Show(w)) /\ Show(w).name = w.name
           /\ Good(Hide(w)) /\ Hide(w).name = 0
           /\ Good([w EXCEPT !.filter = f]) /\ [w EXCEPT !.filter = f].name = w.name
  BY <1>1, TouchedGood, MarkedGood
<1>4. /\ Over(st, p, WindowClear) \in Clients
      /\ Over(st, p, WindowClear).focus = st.focus
      /\ Over(st, p, WindowClear).prev = st.prev
  <2> DEFINE w == WindowClear(st.windows[p])
  <2>1. p \in DOMAIN st.windows => Good(w) /\ w.name \in {0, st.windows[p].name}
    BY <1>3
  <2>2. Over(st, p, WindowClear) = IF p \in DOMAIN st.windows
                                   THEN [st EXCEPT !.windows[p] = w] ELSE st
    BY Zenon DEF Over
  <2> HIDE DEF w
  <2> QED
    BY <1>2, <2>1, <2>2
<1>5. Over(st, p, Show) \in Clients
  <2> DEFINE w == Show(st.windows[p])
  <2>1. p \in DOMAIN st.windows => Good(w) /\ w.name \in {0, st.windows[p].name}
    BY <1>3
  <2>2. Over(st, p, Show) = IF p \in DOMAIN st.windows
                            THEN [st EXCEPT !.windows[p] = w] ELSE st
    BY Zenon DEF Over
  <2> HIDE DEF w
  <2> QED
    BY <1>2, <2>1, <2>2
<1>6. Over(st, p, Hide) \in Clients
  <2> DEFINE w == Hide(st.windows[p])
  <2>1. p \in DOMAIN st.windows => Good(w) /\ w.name \in {0, st.windows[p].name}
    BY <1>3
  <2>2. Over(st, p, Hide) = IF p \in DOMAIN st.windows
                            THEN [st EXCEPT !.windows[p] = w] ELSE st
    BY Zenon DEF Over
  <2> HIDE DEF w
  <2> QED
    BY <1>2, <2>1, <2>2
<1>7. (IF p \in DOMAIN st.windows
       THEN [st EXCEPT !.windows[p] = [@ EXCEPT !.filter = f]] ELSE st) \in Clients
  <2> DEFINE w == [st.windows[p] EXCEPT !.filter = f]
  <2>1. p \in DOMAIN st.windows => Good(w) /\ w.name \in {0, st.windows[p].name}
    BY <1>3
  <2>2. (IF p \in DOMAIN st.windows
         THEN [st EXCEPT !.windows[p] = [@ EXCEPT !.filter = f]] ELSE st)
          = IF p \in DOMAIN st.windows
            THEN [st EXCEPT !.windows[p] = w] ELSE st
    OBVIOUS
  <2> HIDE DEF w
  <2> QED
    BY <1>2, <2>1, <2>2
<1> QED
  BY <1>4, <1>5, <1>6, <1>7

\* /clear of one window.
LEMMA ClearFocusStays ==
  ASSUME NEW st \in Clients, NEW prev \in Places, NEW p
  PROVE  ClearFocus(st, prev, p) \in Clients
<1> DEFINE cleared == IF IsActive(st, p) THEN Over(st, p, WindowClear)
                      ELSE DropWindow(st, p)
<1>1. cleared \in Clients
  <2>1. "loud" \in AllFilters
    BY DEF AllFilters
  <2> QED
    BY <2>1, OverStays, DropWindowIs DEF Rewindowed
<1> HIDE DEF cleared
<1>2. CASE IsActive(st, p) \/ st.focus # p
  BY <1>1, <1>2 DEF ClearFocus, cleared
<1>3. CASE ~IsActive(st, p) /\ st.focus = p /\ prev \in DOMAIN st.windows
  <2>1. ClearFocus(st, prev, p) = ChangeFocus(cleared, prev)
    BY <1>3 DEF ClearFocus, cleared
  <2> QED
    BY <1>1, <2>1, ChangeFocusIs DEF Focused
<1>4. CASE ~IsActive(st, p) /\ st.focus = p /\ prev \notin DOMAIN st.windows
  <2>1. ClearFocus(st, prev, p) = AdvanceFocus(cleared)
    BY <1>4 DEF ClearFocus, cleared
  <2> QED
    BY <1>1, <2>1, JumpsStay
<1> QED
  BY <1>2, <1>3, <1>4

\* g clears st's windows keys[1], ..., keys[K], one after the other.
Clears(g, st, keys, K) ==
  g = [k \in 0 .. K |-> IF k = 0 THEN st ELSE ClearFocus(g[k - 1], st.prev, keys[k])]

LEMMA ClearsAll ==
  ASSUME NEW st \in Clients, NEW keys, NEW K \in Nat
  PROVE  /\ \E g : Clears(g, st, keys, K)
         /\ \A g : Clears(g, st, keys, K) => g[K] \in Clients
<1> DEFINE F == [k \in Nat |-> [u \in Clients |-> ClearFocus(u, st.prev, keys[k])]]
<1>1. F \in [Nat -> [Clients -> Clients]]
  BY ClientFields, ClearFocusStays
<1>2. PICK g : Walks(g, Clients, F, st)
  <2> HIDE DEF F
  <2> QED
    BY <1>1, AllSteps
<1>3. ASSUME NEW i \in Nat \ {0}
      PROVE  g[i] = ClearFocus(g[i - 1], st.prev, keys[i])
  <2>1. i \in Nat /\ i - 1 \in Nat
    OBVIOUS
  <2>2. g[i - 1] \in Clients /\ g[i] = F[i][g[i - 1]]
    BY <1>2, <2>1 DEF Walks
  <2> QED
    BY <2>1, <2>2
<1> HIDE DEF F
<1> DEFINE h == [i \in 0 .. K |-> g[i]]
<1>4. Clears(h, st, keys, K)
  <2>1. \A i \in 0 .. K : i # 0 => i \in Nat \ {0} /\ i - 1 \in 0 .. K
    OBVIOUS
  <2>2. \A i \in 0 .. K :
          g[i] = IF i = 0 THEN st ELSE ClearFocus(h[i - 1], st.prev, keys[i])
    BY <1>2, <1>3, <2>1 DEF Walks
  <2>3. h = [i \in 0 .. K |->
               IF i = 0 THEN st ELSE ClearFocus(h[i - 1], st.prev, keys[i])]
    BY <2>2
  <2> HIDE DEF h
  <2> QED
    BY <2>3 DEF Clears
<1>5. ASSUME NEW c, Clears(c, st, keys, K)
      PROVE  c[K] \in Clients
  <2> DEFINE P == {i \in Nat : i =< K => c[i] \in Clients}
  <2>1. 0 \in P
    BY <1>5 DEF Clears
  <2>2. ASSUME NEW i \in Nat, i \in P PROVE i + 1 \in P
    <3> SUFFICES ASSUME i + 1 =< K PROVE c[i + 1] \in Clients
      OBVIOUS
    <3>1. c[i] \in Clients
      BY <2>2
    <3>2. i + 1 \in 0 .. K /\ i + 1 # 0 /\ (i + 1) - 1 = i
      OBVIOUS
    <3>3. c[i + 1] = ClearFocus(c[i], st.prev, keys[i + 1])
      BY <1>5, <3>2 DEF Clears
    <3> QED
      BY <3>1, <3>3, ClientFields, ClearFocusStays
  <2>3. Nat \subseteq P
    <3> HIDE DEF P
    <3> QED
      BY <2>1, <2>2, NumberInduction
  <2> QED
    BY <2>3
<1> QED
  BY <1>4, <1>5

\* /clear of a network's windows, one after the other.
LEMMA ClearNetworkStays ==
  ASSUME NEW st \in Clients, NEW n
  PROVE  ClearNetwork(st, n) \in Clients
<1> DEFINE windows == {p \in DOMAIN st.windows : Len(p) > 0 /\ p[1] = n}
           keys == SetToSortSeq(windows, Precedes)
           K == Cardinality(windows)
           cleared == CHOOSE g : Clears(g, st, keys, K)
<1>1. K \in Nat
  <2>1. DOMAIN st.windows \subseteq Places
    BY ClientFields, LayoutFields
  <2>2. IsFiniteSet(windows)
    BY <2>1, PlacesFinite, FS_Subset
  <2> HIDE DEF windows
  <2> QED
    BY <2>2, FS_CardinalityType
<1>2. ClearNetwork(st, n) = cleared[K]
  BY Zenon DEF ClearNetwork, Clears
<1> HIDE DEF K, keys, windows
<1>3. Clears(cleared, st, keys, K)
  <2>1. \E g : Clears(g, st, keys, K)
    BY <1>1, ClearsAll
  <2> QED
    BY <2>1
<1> HIDE DEF cleared
<1>4. cleared[K] \in Clients
  BY <1>1, <1>3, ClearsAll
<1> QED
  BY <1>2, <1>4

\* /setname: the focused window takes the letter from the window that had it.
LEMMA SetWindowNameStays ==
  ASSUME NEW st \in Clients, NEW arg \in 0 .. Names
  PROVE  SetWindowName(st, arg) \in Clients
<1> DEFINE name == IF arg = 0 THEN NextWindowName(st) ELSE arg
           ws == st.windows
           Unset(w) == IF w.name = name THEN [w EXCEPT !.name = 0] ELSE w
           f == [p \in DOMAIN ws |-> Unset(ws[p])]
           mid == [st EXCEPT !.windows = PutAll(ws, Places, f)]
           p == st.focus
           w == [mid.windows[p] EXCEPT !.name = name]
<1>1. name \in 0 .. Names
  BY NextWindowNameIs
<1>2. CASE name = 0 \/ p \notin DOMAIN ws
  BY <1>2 DEF SetWindowName
<1>3. CASE name # 0 /\ p \in DOMAIN ws
  <2>1. SetWindowName(st, arg) = [mid EXCEPT !.windows[p] = w]
    <3>1. PutAll(ws, Places, f) =
            [q \in DOMAIN ws |-> IF q \in Places THEN Unset(ws[q]) ELSE ws[q]]
      BY DEF PutAll
    <3>2. p \in DOMAIN mid.windows
      <4>1. st \in Fields
        BY DEF Clients
      <4>2. mid.windows = PutAll(ws, Places, f)
        BY <4>1 DEF Fields
      <4> QED
        BY <1>3, <4>2 DEF PutAll
    <3>3. mid = OverAll(st, Places, Unset)
      BY <3>1, Zenon DEF OverAll
    <3> HIDE DEF mid
    <3> QED
      BY <1>3, <3>2, <3>3, Zenon DEF SetWindowName, Over
  <2>2. mid \in Clients /\ DOMAIN mid.windows = DOMAIN ws /\ mid.focus = p
        /\ \A q \in DOMAIN ws : mid.windows[q].name # name
    <3>1. ASSUME NEW q \in DOMAIN ws
          PROVE  Good(f[q]) /\ f[q].name \in {0, ws[q].name} /\ f[q].name # name
      <4>1. Good(ws[q]) /\ 0 \in 0 .. Names /\ "loud" \in AllFilters
        BY ClientFields, LayoutFields, WindowsAssumption DEF AllFilters
      <4>2. /\ Good([ws[q] EXCEPT !.name = 0])
            /\ [ws[q] EXCEPT !.name = 0].name = 0
        BY <4>1, MarkedGood
      <4> QED
        BY <1>3, <4>1, <4>2
    <3>2. DOMAIN ws \subseteq Places
      BY ClientFields, LayoutFields
    <3> HIDE DEF f, name
    <3>3. Rewindowed(mid, st, PutAll(ws, Places, f))
      BY <3>1, OverAllIs
    <3>4. \A q \in DOMAIN ws : PutAll(ws, Places, f)[q] = f[q]
      BY <3>2 DEF PutAll
    <3>5. DOMAIN PutAll(ws, Places, f) = DOMAIN ws
      BY DEF PutAll
    <3> HIDE DEF mid
    <3> QED
      BY <3>1, <3>3, <3>4, <3>5 DEF Rewindowed
  <2> DEFINE us == mid.windows
  <2> HIDE DEF mid, f, name
  <2>3. Good(w) /\ w.name = name
    <3>1. Good(us[p]) /\ "loud" \in AllFilters
      BY <1>3, <2>2, ClientFields, LayoutFields DEF AllFilters
    <3> QED
      BY <1>1, <3>1, MarkedGood
  <2> HIDE DEF w
  <2>4. Rewindowed(SetWindow(mid, p, w), mid,
                   [q \in DOMAIN us \cup {p} |-> IF q = p THEN w ELSE us[q]])
    <3>1. p \in Places
      BY ClientFields
    <3> QED
      BY <2>2, <2>3, <3>1, SetWindowIs
  <2>5. SetWindow(mid, p, w) = [mid EXCEPT !.windows[p] = w]
    <3>1. us \in [DOMAIN us -> Window]
      BY <2>2, ClientFields, LayoutFields
    <3>2. [q \in DOMAIN us \cup {p} |-> IF q = p THEN w ELSE us[q]]
            = [us EXCEPT ![p] = w]
      BY <1>3, <2>2, <3>1
    <3> QED
      BY <3>2, Zenon DEF SetWindow
  <2> QED
    BY <2>1, <2>4, <2>5 DEF Rewindowed
<1> QED
  BY <1>2, <1>3

(***************************************************************************)
(* Redraw, and glirc.mark_seen.                                            *)
(***************************************************************************)
Seen(w) == Known(WindowSeen(w))

\* On the screen of a user who looks, windows are seen.
LEMMA RedrawIs ==
  ASSUME NEW st \in Clients, st.looking
  PROVE  Rewindowed(Redraw(st), st,
                    PutAll(st.windows, Shown(st),
                           [p \in DOMAIN st.windows |-> Seen(st.windows[p])]))
<1> DEFINE ws == st.windows
           S == Shown(st)
           f == [p \in DOMAIN ws |-> Seen(ws[p])]
           us == [p \in DOMAIN ws |-> IF p \in S THEN WindowSeen(ws[p]) ELSE ws[p]]
           vs == [p \in DOMAIN us |-> IF p \in S THEN Known(us[p]) ELSE us[p]]
           u == [st EXCEPT !.windows = us]
           v == [st EXCEPT !.windows = vs]
<1>1. st \in Fields /\ \A p \in DOMAIN ws : Good(ws[p])
  BY ClientFields, LayoutFields DEF Clients
<1>2. u = MarkSeen(st)
  BY Zenon DEF MarkSeen, OverAll, Shown
<1>3. u.windows = us
  <2> HIDE DEF us
  <2> QED
    BY <1>1 DEF Fields
<1> HIDE DEF S
<1>4. vs = PutAll(ws, S, f)
  BY DEF PutAll, Seen
<1>5. Redraw(st) = [u EXCEPT !.windows = vs]
  <2>1. Redraw(st) = OverAll(u, S, Known)
    BY <1>2 DEF Redraw, S
  <2> HIDE DEF u, us
  <2> QED
    BY <1>3, <2>1, Zenon DEF OverAll
<1>6. Redraw(st) = v
  <2> HIDE DEF vs, us
  <2> QED
    BY <1>1, <1>5 DEF Fields
<1>7. Rewindowed([st EXCEPT !.windows = PutAll(ws, S, f)], st, PutAll(ws, S, f))
  <2>1. \A p \in DOMAIN ws : Good(f[p]) /\ f[p].name \in {0, ws[p].name}
    BY <1>1, TouchedGood DEF Seen
  <2> HIDE DEF f
  <2> QED
    BY <2>1, OverAllIs
<1> HIDE DEF vs, f
<1> QED
  BY <1>4, <1>6, <1>7 DEF S, f

LEMMA RedrawStays ==
  ASSUME NEW st \in Clients
  PROVE  Redraw(st) \in Clients
BY RedrawIs DEF Rewindowed, Redraw

LEMMA MarkSeenStays ==
  ASSUME NEW st \in Clients, NEW p
  PROVE  Over(Over(st, p, WindowSeen), p, Known) \in Clients
<1> DEFINE ws == st.windows
           w == Seen(ws[p])
           us == [ws EXCEPT ![p] = WindowSeen(ws[p])]
           u == [st EXCEPT !.windows = us]
<1>1. st \in Fields /\ \A q \in DOMAIN ws : Good(ws[q])
  BY ClientFields, LayoutFields DEF Clients
<1>2. CASE p \in DOMAIN ws
  <2>1. u = Over(st, p, WindowSeen)
    BY <1>2, Zenon DEF Over
  <2>2. u.windows = us
    <3> HIDE DEF us
    <3> QED
      BY <1>1 DEF Fields
  <2>3. /\ us[p] = WindowSeen(ws[p]) /\ p \in DOMAIN us
        /\ [us EXCEPT ![p] = w] = [ws EXCEPT ![p] = w]
    BY <1>2
  <2> HIDE DEF us
  <2>4. Over(u, p, Known) = [u EXCEPT !.windows = [us EXCEPT ![p] = w]]
    <3>1. Over(u, p, Known) = [u EXCEPT !.windows[p] = Known(u.windows[p])]
      BY <2>2, <2>3, Zenon DEF Over
    <3> HIDE DEF u
    <3> QED
      BY <2>2, <2>3, <3>1, Zenon DEF Seen
  <2>5. Over(u, p, Known) = [st EXCEPT !.windows = [ws EXCEPT ![p] = w]]
    <3> HIDE DEF w
    <3> QED
      BY <1>1, <2>3, <2>4 DEF Fields
  <2>6. Good(w) /\ w.name = ws[p].name
    BY <1>1, <1>2, TouchedGood DEF Seen
  <2> HIDE DEF w, u
  <2>7. (IF p \in DOMAIN ws THEN [st EXCEPT !.windows[p] = w] ELSE st) \in Clients
    BY <2>6, OverIs DEF Rewindowed
  <2>8. [st EXCEPT !.windows[p] = w] = [st EXCEPT !.windows = [ws EXCEPT ![p] = w]]
    BY Zenon
  <2> QED
    BY <1>2, <2>1, <2>5, <2>7, <2>8
<1>3. CASE p \notin DOMAIN ws
  <2>1. Over(st, p, WindowSeen) = st
    BY <1>3, Zenon DEF Over
  <2>2. Over(st, p, Known) = st
    BY <1>3, Zenon DEF Over
  <2> QED
    BY <2>1, <2>2
<1> QED
  BY <1>2, <1>3

(***************************************************************************)
(* The inductive invariant.                                                *)
(***************************************************************************)
Sound ==
  /\ client \in Clients
  /\ phase \in {"idle", "batch", "crashed"}
  /\ events \in 0 .. MaxEvents

\* The client starts without windows, on a network or on none.
LEMMA StartIsClient ==
  ASSUME NEW S \in SUBSET Each(Networks), NEW p \in Places
  PROVE  Start(S, p) \in Clients
<1> DEFINE ws == [q \in {} |-> EmptyWindow(0)]
           st == Start(S, p)
<1>1. ws \in Layouts
  <2>1. ws \in [{} -> Window] /\ {} \in SUBSET Places
    OBVIOUS
  <2> QED
    BY <2>1, IsLayout
<1>2. << >> \in Places
  BY DEF Places
<1>3. TRUE \in Flags
  BY DEF Flags
<1> HIDE DEF ws
<1>4. st \in Fields /\ st.return = {} /\ st.joined = {}
  <2> DEFINE none == << >>
  <2>1. st = [windows |-> ws, focus |-> p, messages |-> TRUE, prev |-> none,
              extra |-> {}, return |-> {}, looking |-> TRUE, online |-> S, joined |-> {}]
    BY DEF Start, ws
  <2>2. none \in Places
    BY <1>2
  <2> HIDE DEF none, st
  <2> QED
    BY <1>1, <1>3, <2>1, <2>2 DEF Fields
<1> HIDE DEF st
<1>5. st \in Clients
  BY <1>4 DEF Clients, AtMostOne
<1> QED
  BY <1>5 DEF st

\* A key's state after the chain of M-a ended, began or went on.
LEMMA PressesStay ==
  ASSUME NEW st \in Clients
  PROVE  PressOther(st) \in Clients /\ PressJump(st) \in Clients
<1>1. PressOther(st) \in Clients
  <2>1. {} \in SUBSET Places /\ AtMostOne({})
    BY DEF AtMostOne
  <2> QED
    BY <2>1, SetReturn, Zenon DEF PressOther, Returned
<1>2. PressJump(st) \in Clients
  <2> DEFINE u == JumpToActivity(st)
             R == IF u.return = {} THEN {st.focus} ELSE u.return
  <2>1. u \in Clients
    BY JumpsStay
  <2> HIDE DEF u
  <2>2. R \in SUBSET Places /\ AtMostOne(R)
    BY <2>1, ClientFields DEF AtMostOne
  <2> HIDE DEF R
  <2>3. [u EXCEPT !.return = R] \in Clients
    BY <2>1, <2>2, SetReturn, Zenon DEF Returned
  <2> QED
    BY <2>3 DEF PressJump, u, R
<1> QED
  BY <1>1, <1>2

\* An event of the terminal, and one of a batch.
LEMMA Handled ==
  ASSUME Sound, events < MaxEvents, NEW st \in Clients, Handle(st)
  PROVE  Sound'
<1>1. Redraw(st) \in Clients
  BY RedrawStays
<1> QED
  BY <1>1, ScreenAssumption DEF Sound, Handle, Event

LEMMA Commanded ==
  ASSUME Sound, events < MaxEvents, NEW st \in Clients, Command(st)
  PROVE  Sound'
BY Handled, PressesStay DEF Command

LEMMA Happened ==
  ASSUME Sound, events < MaxEvents, NEW st \in Clients, Happen(st)
  PROVE  Sound'
BY ScreenAssumption DEF Sound, Happen, Event

LEMMA ViewsAre ==
  ASSUME NEW p \in Places, NEW b \in BOOLEAN
  PROVE  View(p, b) \in Views
BY DEF Views

\* The user's keys and commands.
LEMMA UserStep ==
  ASSUME Sound, events < MaxEvents, User
  PROVE  Sound'
<1>1. client \in Clients /\ "loud" \in AllFilters
  BY DEF Sound, AllFilters
<1>2. CASE JumpKey
  BY <1>1, <1>2, PressesStay, Handled DEF JumpKey
<1>3. CASE Key
  <2>1. ASSUME NEW st \in Clients, Handle(PressOther(st)) PROVE Sound'
    BY <2>1, PressesStay, Handled
  <2>2. [client EXCEPT !.messages = TRUE] \in Clients
    BY <1>1, SetOthers
  <2> QED
    BY <1>1, <1>3, <2>1, <2>2, JumpsStay, Zenon DEF Key
<1>4. CASE FocusCommand
  <2>1. PICK p \in Places : Command(ChangeFocus(client, p))
    BY <1>4 DEF FocusCommand
  <2> QED
    BY <1>1, <2>1, ChangeFocusIs, Commanded DEF Focused
<1>5. CASE SubfocusCommand
  <2>1. [client EXCEPT !.messages = FALSE] \in Clients
    BY <1>1, SetOthers
  <2> QED
    BY <1>5, <2>1, Commanded, Zenon DEF SubfocusCommand
<1>6. CASE SplitsCommand
  <2>1. PICK P \in {{}} \cup {{p} : p \in Places} :
          \E new \in Splits(P) : Command(SetExtraFocus(client, new))
    BY <1>6 DEF SplitsCommand
  <2>2. PICK new \in Splits(P) : Command(SetExtraFocus(client, new))
    BY <2>1
  <2>3. new \in SUBSET Views
    <3>1. client.extra \subseteq Views /\ Current(client) \in Views
      <4>1. client.focus \in Places /\ client.messages \in BOOLEAN
        BY <1>1, ClientFields
      <4> QED
        BY <1>1, <4>1, ClientFields, ViewsAre DEF Current
    <3>2. {View(p, TRUE) : p \in P} \subseteq Views
      <4>1. P \subseteq Places
        OBVIOUS
      <4> QED
        BY <4>1, ViewsAre
    <3> QED
      BY <3>1, <3>2 DEF Splits
  <2> QED
    BY <1>1, <2>2, <2>3, SetExtraFocusIs, Commanded
<1>7. CASE ClearCommand
  <2>1. PICK p \in Places : Command(ClearFocus(client, client.prev, p))
    BY <1>7 DEF ClearCommand
  <2> QED
    BY <1>1, <2>1, ClientFields, ClearFocusStays, Commanded
<1>8. CASE ClearNetworkCommand
  BY <1>1, <1>8, ClearNetworkStays, Commanded DEF ClearNetworkCommand
<1>9. CASE SetNameCommand
  BY <1>1, <1>9, SetWindowNameStays, Commanded DEF SetNameCommand
<1>10. CASE SetWindowCommand
  <2>1. CASE Command(Over(client, client.focus, Show))
    BY <1>1, <2>1, OverStays, Commanded
  <2>2. CASE Command(Over(client, client.focus, Hide))
    BY <1>1, <2>2, OverStays, Commanded
  <2>3. ASSUME NEW f \in Filters,
               Command(IF client.focus \in DOMAIN client.windows
                       THEN [client EXCEPT !.windows[client.focus] = [@ EXCEPT !.filter = f]]
                       ELSE client)
        PROVE  Sound'
    <3>1. f \in AllFilters
      BY WindowsAssumption
    <3> QED
      BY <1>1, <2>3, <3>1, OverStays, Commanded
  <2> QED
    BY <1>10, <2>1, <2>2, <2>3, Zenon DEF SetWindowCommand, Over
<1>11. CASE SayCommand
  <2>1. PICK imp \in {Normal, Important} :
          Command(RecordWindowLine(client, TRUE, client.focus, imp))
    BY <1>11 DEF SayCommand
  <2>2. imp \in Importance /\ client.focus \in Places
    BY <1>1, ClientFields DEF Importance, Boring, Normal, Important
  <2> QED
    BY <1>1, <2>1, <2>2, RecordWindowLineIs, Commanded
<1>12. CASE UiFocus
  <2>1. PICK b \in BOOLEAN : Handle([client EXCEPT !.looking = b])
    BY <1>12, Zenon DEF UiFocus
  <2>2. [client EXCEPT !.looking = b] \in Clients
    BY <1>1, SetOthers, Zenon
  <2> QED
    BY <2>1, <2>2, Handled, Zenon
<1> QED
  BY <1>2, <1>3, <1>4, <1>5, <1>6, <1>7, <1>8, <1>9, <1>10, <1>11, <1>12 DEF User

\* v is st forwarded to another window of the network it was reading.
Forward(v, st) ==
  /\ Len(st.focus) = 2 /\ Len(v.focus) = 2 /\ v.focus[1] = st.focus[1]
  /\ [v EXCEPT !.focus = st.focus] = st

\* A client that is forwarded differs in its focus alone.
LEMMA ForwardedIs ==
  ASSUME NEW st \in Clients, NEW n \in Each(Networks), NEW src,
         NEW dst \in Each(Targets), NEW u, u = Forwarded(st, n, src, dst)
  PROVE  /\ u \in Clients
         /\ u = st \/ Forward(u, st)
<1> DEFINE p == <<n, dst>>
           v == [st EXCEPT !.focus = p]
<1>1. p \in Places
  BY DEF Places
<1> HIDE DEF p
<1>2. st \in Fields
  BY DEF Clients
<1>3. /\ v \in Fields /\ v.focus = p
      /\ v.return = st.return /\ v.online = st.online /\ v.joined = st.joined
  BY <1>1, <1>2 DEF Fields
<1>4. [v EXCEPT !.focus = st.focus] = st
  BY <1>2 DEF Fields
<1> HIDE DEF v
<1>5. v \in Clients
  BY <1>3, ClientFields DEF Clients
<1>6. Forwarded(st, n, src, dst) = IF st.focus = <<n, src>> THEN v ELSE st
  BY Zenon DEF Forwarded, v, p
<1>7. CASE st.focus = <<n, src>>
  <2>1. v.focus = <<n, dst>>
    BY <1>3 DEF p
  <2>2. Len(st.focus) = 2 /\ Len(v.focus) = 2 /\ v.focus[1] = st.focus[1]
    BY <1>7, <2>1
  <2>3. Forward(v, st)
    BY <1>4, <2>2, Zenon DEF Forward
  <2> QED
    BY <1>5, <1>6, <1>7, <2>3
<1> QED
  BY <1>5, <1>6, <1>7

\* The networks' events, and what their user keeps.
LEMMA NetworkStep ==
  ASSUME Sound, Network
  PROVE  /\ client' \in Clients
         /\ \/ Kept(client, client')
            \/ ForwardLine /\ Moved(client, client')
<1>1. client \in Clients /\ client.online \subseteq Each(Networks)
      /\ client.joined \subseteq Each(Networks) \X Channels
      /\ \A q \in client.joined : q[1] \in client.online
  BY ClientFields DEF Sound
<1>2. \A n \in Each(Networks), t \in Each(Targets) :
        <<n, t>> \in Places /\ <<n>> \in Places
  BY DEF Places
<1>3. ASSUME NEW on \in SUBSET Each(Networks),
             NEW in \in SUBSET (Each(Networks) \X Channels),
             \A q \in in : q[1] \in on, Table(on, in)
      PROVE  client' \in Clients /\ Kept(client, client')
  <2>1. client' = [client EXCEPT !.online = on, !.joined = in]
    BY <1>3 DEF Table
  <2>2. client' \in Clients
    BY <1>1, <1>3, <2>1, SetTable, Zenon
  <2>3. client'.windows = client.windows /\ client'.focus = client.focus
    <3>1. client \in Fields
      BY <1>1 DEF Clients
    <3> QED
      BY <2>1, <3>1 DEF Fields
  <2>4. \A p \in DOMAIN client.windows : Extends(client.windows[p], client.windows[p])
    <3>1. Boring \in Importance
      BY DEF Importance, Boring, Important
    <3> QED
      BY <1>1, <3>1, ClientFields, LayoutFields, ExtendsBoth
  <2>5. Kept(client, client')
    BY <2>3, <2>4, KeptInPlace
  <2> QED
    BY <2>2, <2>5
<1>4. CASE ChatLine
  <2>1. PICK n \in client.online, t \in Each(Targets), imp \in Importance,
             create \in BOOLEAN :
          client' = RecordWindowLine(client, create, <<n, t>>, imp)
    BY <1>4, Zenon DEF ChatLine, Happen, Event
  <2>2. <<n, t>> \in Places
    BY <1>1, <1>2
  <2> QED
    BY <1>1, <2>1, <2>2, RecordWindowLineIs, Zenon
<1>5. CASE NetworkLine
  <2>1. PICK n \in Each(Networks), imp \in Importance :
          client' = RecordWindowLine(client, TRUE, <<n>>, imp)
    BY <1>5, Zenon DEF NetworkLine, Happen, Event
  <2>2. <<n>> \in Places
    BY DEF Places
  <2> QED
    BY <1>1, <2>1, <2>2, RecordWindowLineIs, Zenon
<1>6. CASE UserLine
  <2>1. PICK n \in client.online, u \in Each(Targets) \ Channels, S \in SUBSET Channels :
          client' = RecordUserMessage(client, n, u, S)
    BY <1>6 DEF UserLine, Happen, Event
  <2> QED
    BY <1>1, <2>1, RecordUserMessageIs
<1>7. CASE NickLine
  <2>1. PICK n \in client.online, old \in Each(Targets) \ Channels,
             new \in Each(Targets) \ Channels :
          client' = ApplyWindowRenames(client, n, old, new)
    BY <1>7 DEF NickLine, Happen, Event
  <2> QED
    BY <1>1, <2>1, ApplyWindowRenamesIs
<1>8. CASE ConnectionChange
  <2>1. PICK n \in Each(Networks) :
          \/ Table(client.online \cup {n}, client.joined)
          \/ Table(client.online \ {n}, {p \in client.joined : p[1] # n})
    BY <1>8 DEF ConnectionChange
  <2> DEFINE more == client.online \cup {n}
             less == client.online \ {n}
             rest == {p \in client.joined : p[1] # n}
  <2>2. /\ more \in SUBSET Each(Networks) /\ less \in SUBSET Each(Networks)
        /\ rest \in SUBSET (Each(Networks) \X Channels)
        /\ client.joined \in SUBSET (Each(Networks) \X Channels)
        /\ \A q \in client.joined : q[1] \in more
        /\ \A q \in rest : q[1] \in less
    BY <1>1
  <2>3. Table(more, client.joined) \/ Table(less, rest)
    BY <2>1
  <2> HIDE DEF more, less, rest
  <2> QED
    BY <1>3, <2>2, <2>3
<1>9. CASE ChannelChange
  <2>1. PICK n \in client.online, c \in Channels :
          Table(client.online, IF <<n, c>> \in client.joined
                               THEN client.joined \ {<<n, c>>}
                               ELSE client.joined \cup {<<n, c>>})
    BY <1>9 DEF ChannelChange
  <2> DEFINE in == IF <<n, c>> \in client.joined THEN client.joined \ {<<n, c>>}
                   ELSE client.joined \cup {<<n, c>>}
  <2>2. in \in SUBSET (Each(Networks) \X Channels) /\ \A q \in in : q[1] \in client.online
    BY <1>1
  <2>3. Table(client.online, in)
    BY <2>1
  <2> HIDE DEF in
  <2> QED
    BY <1>1, <1>3, <2>2, <2>3
<1>10. CASE ForwardLine
  <2>1. PICK n \in client.online, src, dst \in Each(Targets), imp \in Importance :
          \E st \in {client, RecordWindowLine(client, TRUE, <<n>>, imp)} :
            client' = Forwarded(st, n, src, dst)
    BY <1>10, Zenon DEF ForwardLine, Happen, Event
  <2>2. n \in Each(Networks) /\ <<n>> \in Places
    BY <1>1, <1>2
  <2>3. PICK st : /\ st \in Clients /\ st.focus = client.focus /\ Kept(client, st)
                  /\ client' = Forwarded(st, n, src, dst)
    <3>1. \A p \in DOMAIN client.windows : Extends(client.windows[p], client.windows[p])
      <4>1. Boring \in Importance
        BY DEF Importance, Boring, Important
      <4> QED
        BY <1>1, <4>1, ClientFields, LayoutFields, ExtendsBoth
    <3>2. Kept(client, client)
      BY <3>1, KeptInPlace
    <3> DEFINE r == RecordWindowLine(client, TRUE, <<n>>, imp)
    <3>3. r \in Clients /\ r.focus = client.focus /\ Kept(client, r)
      BY <1>1, <2>2, RecordWindowLineIs, Zenon
    <3>4. client' = Forwarded(client, n, src, dst) \/ client' = Forwarded(r, n, src, dst)
      BY <2>1
    <3> HIDE DEF r
    <3> QED
      BY <1>1, <3>2, <3>3, <3>4
  <2>4. client' \in Clients /\ (client' = st \/ Forward(client', st))
    BY <2>2, <2>3, ForwardedIs
  <2>5. CASE client' = st
    BY <2>3, <2>4, <2>5
  <2>6. CASE Forward(client', st)
    <3>1. Moved(client, client')
      BY <2>3, <2>6, Zenon DEF Forward, Moved
    <3> QED
      BY <1>10, <2>4, <3>1
  <2> QED
    BY <2>4, <2>5, <2>6
<1> QED
  BY <1>4, <1>5, <1>6, <1>7, <1>8, <1>9, <1>10 DEF Network

\* A place is the one its names name.
LEMMA PlaceOfNames ==
  ASSUME NEW p \in Places
  PROVE  LET names == LuaNames(p)
         IN /\ PlaceNamed(names[1], names[2]) = p
            /\ OptString(names[1]) /\ OptString(names[2])
            /\ Text(names[1]) # NoText \/ Text(names[2]) = NoText
<1>1. \A x \in Each(Networks) \cup Each(Targets) :
        x # NoText /\ x # LuaNil /\ x # LuaTable
  BY NamesAssumption
<1> DEFINE a == NoText
<1>2. a # LuaNil /\ a # LuaTable /\ a = NoText
  BY DEF NoText, LuaNil, LuaTable
<1> HIDE DEF a
<1>3. CASE p = << >>
  <2>1. LuaNames(p) = <<a, a>>
    BY <1>2, <1>3 DEF LuaNames
  <2> QED
    BY <1>2, <1>3, <2>1 DEF PlaceNamed, Text, OptString
<1>4. ASSUME NEW n \in Each(Networks), p = <<n>> PROVE LuaNames(p) = <<n, a>>
  BY <1>2, <1>4 DEF LuaNames
<1>5. CASE \E n \in Each(Networks) : p = <<n>>
  <2>1. PICK n \in Each(Networks) : p = <<n>>
    BY <1>5
  <2>2. LuaNames(p) = <<n, a>>
    BY <1>4, <2>1
  <2> QED
    BY <1>1, <1>2, <2>1, <2>2 DEF PlaceNamed, Text, OptString
<1>6. CASE \E n \in Each(Networks), t \in Each(Targets) : p = <<n, t>>
  <2>1. PICK n \in Each(Networks), t \in Each(Targets) : p = <<n, t>>
    BY <1>6
  <2>2. LuaNames(p) = <<n, t>>
    BY <2>1 DEF LuaNames
  <2> QED
    BY <1>1, <1>2, <2>1, <2>2 DEF PlaceNamed, Text, OptString
<1> QED
  BY <1>3, <1>5, <1>6 DEF Places

\* The scripts' calls.
LEMMA ScriptStep ==
  ASSUME Sound, events < MaxEvents, Script
  PROVE  Sound'
<1>1. client \in Clients /\ client.online \subseteq Each(Networks)
  BY ClientFields DEF Sound
<1>2. ASSUME NEW st \in Clients, NEW r, r \in {Done(st), Raise(client)}, Call(r)
      PROVE  Sound'
  <2>1. r.client \in Clients
    BY <1>1, <1>2 DEF Done, Raise
  <2> QED
    BY <1>2, <2>1, Happened DEF Call
<1>3. "loud" \in AllFilters /\ Important \in Importance /\ Normal \in Importance
  BY DEF AllFilters, Importance, Boring, Normal, Important
<1>4. ASSUME NEW p \in Places,
             \/ Call(LuaMarkSeen(client, LuaNames(p)[1], LuaNames(p)[2]))
             \/ Call(LuaClearWindow(client, LuaNames(p)[1], LuaNames(p)[2]))
             \/ Call(LuaSetFocus(client, LuaNames(p)[1], LuaNames(p)[2]))
      PROVE  Sound'
  <2> DEFINE a == LuaNames(p)[1]
             b == LuaNames(p)[2]
             seen == Over(Over(client, p, WindowSeen), p, Known)
             cleared == Over(client, p, WindowClear)
             moved == ChangeFocus(client, p)
  <2>1. PlaceNamed(a, b) = p
    BY PlaceOfNames
  <2> HIDE DEF a, b
  <2>2. LuaMarkSeen(client, a, b) \in {Done(seen), Raise(client)}
    BY <2>1, Zenon DEF LuaMarkSeen
  <2>3. LuaClearWindow(client, a, b) \in {Done(cleared), Raise(client)}
    BY <2>1, Zenon DEF LuaClearWindow
  <2>4. LuaSetFocus(client, a, b) \in {Done(moved), Raise(client)}
    BY <2>1, Zenon DEF LuaSetFocus
  <2>5. seen \in Clients /\ cleared \in Clients /\ moved \in Clients
    BY <1>1, <1>3, MarkSeenStays, OverStays, ChangeFocusIs DEF Focused
  <2>6. \/ Call(LuaMarkSeen(client, a, b)) \/ Call(LuaClearWindow(client, a, b))
        \/ Call(LuaSetFocus(client, a, b))
    BY <1>4 DEF a, b
  <2> HIDE DEF seen, cleared, moved
  <2> QED
    BY <1>2, <2>2, <2>3, <2>4, <2>5, <2>6
<1>5. CASE Call(LuaPrint(client, NoText))
  <2> DEFINE st == RecordWindowLine(client, TRUE, << >>, Important)
  <2>1. LuaPrint(client, NoText) \in {Done(st), Raise(client)}
    BY Zenon DEF LuaPrint
  <2>2. << >> \in Places
    BY DEF Places
  <2>3. st \in Clients
    BY <1>1, <1>3, <2>2, RecordWindowLineIs, Zenon
  <2> HIDE DEF st
  <2> QED
    BY <1>2, <1>5, <2>1, <2>3
<1>6. ASSUME NEW net \in client.online, NEW tgt \in Each(Targets),
             NEW imp \in {Normal, Important},
             Call(LuaInjectChat(client, net, tgt, imp))
      PROVE  Sound'
  <2> DEFINE st == RecordWindowLine(client, TRUE, <<net, tgt>>, imp)
  <2>1. LuaInjectChat(client, net, tgt, imp) \in {Done(st), Raise(client)}
    BY Zenon DEF LuaInjectChat
  <2>2. <<net, tgt>> \in Places /\ imp \in Importance
    BY <1>1, <1>3 DEF Places
  <2>3. st \in Clients
    BY <1>1, <2>2, RecordWindowLineIs, Zenon
  <2> HIDE DEF st
  <2> QED
    BY <1>2, <1>6, <2>1, <2>3
<1>7. CASE \E p \in Places :
             \/ Call(LuaMarkSeen(client, LuaNames(p)[1], LuaNames(p)[2]))
             \/ Call(LuaClearWindow(client, LuaNames(p)[1], LuaNames(p)[2]))
             \/ Call(LuaSetFocus(client, LuaNames(p)[1], LuaNames(p)[2]))
  BY <1>4, <1>7
<1>8. CASE \E net \in client.online, tgt \in Each(Targets), imp \in {Normal, Important} :
             Call(LuaInjectChat(client, net, tgt, imp))
  BY <1>6, <1>8
<1> QED
  BY <1>5, <1>7, <1>8, Zenon DEF Script

LEMMA SoundFirst == Init => Sound
<1> SUFFICES ASSUME Init PROVE Sound
  OBVIOUS
<1>1. << >> \in Places /\ \A n \in Each(Networks) : <<n>> \in Places
  BY DEF Places
<1>2. client \in Clients
  <2>1. CASE client = Start({}, << >>)
    BY <1>1, <2>1, StartIsClient
  <2>2. ASSUME NEW S \in SUBSET Each(Networks), NEW n \in S, client = Start(S, <<n>>)
        PROVE  client \in Clients
    BY <1>1, <2>2, StartIsClient
  <2> QED
    BY <2>1, <2>2 DEF Init
<1> QED
  BY <1>2, ScreenAssumption DEF Init, Sound

\* What a network's event does to the phase and the count of events.
LEMMA NetworkCounts ==
  ASSUME Sound, events < MaxEvents, Network
  PROVE  phase' = "batch" /\ events' \in 0 .. MaxEvents
<1>1. events \in 0 .. MaxEvents /\ events + 1 \in 0 .. MaxEvents
  BY ScreenAssumption DEF Sound
<1>2. ASSUME NEW st, Happen(st) PROVE phase' = "batch" /\ events' = events + 1
  BY <1>2 DEF Happen, Event
<1>3. ASSUME NEW on, NEW in, Table(on, in) PROVE phase' = "batch" /\ events' = events
  BY <1>3 DEF Table
<1>4. CASE ChatLine \/ NetworkLine \/ UserLine \/ NickLine
  BY <1>1, <1>2, <1>4, Zenon DEF ChatLine, NetworkLine, UserLine, NickLine
<1>5. CASE ConnectionChange \/ ChannelChange
  BY <1>1, <1>3, <1>5, Zenon DEF ConnectionChange, ChannelChange
<1>6. CASE ForwardLine
  BY <1>1, <1>2, <1>6, Zenon DEF ForwardLine
<1> QED
  BY <1>4, <1>5, <1>6 DEF Network

LEMMA SoundNext == Sound /\ [Next]_vars => Sound'
<1> SUFFICES ASSUME Sound, [Next]_vars PROVE Sound'
  OBVIOUS
<1>1. CASE events < MaxEvents /\ User
  BY <1>1, UserStep
<1>2. CASE events < MaxEvents /\ Network
  BY <1>2, NetworkStep, NetworkCounts DEF Sound
<1>3. CASE events < MaxEvents /\ Script
  BY <1>3, ScriptStep
<1>4. CASE InjectElsewhere
  <2>1. << >> \in Places /\ {} \in SUBSET Each(Networks)
    BY DEF Places
  <2>2. Start({}, << >>) \in Clients
    BY <2>1, StartIsClient
  <2> QED
    BY <1>4, <2>2 DEF InjectElsewhere, Sound
<1>5. CASE EndOfBatch
  BY <1>5, RedrawStays DEF EndOfBatch, Sound
<1>6. CASE UNCHANGED vars
  BY <1>6 DEF vars, Sound
<1> QED
  BY <1>1, <1>2, <1>3, <1>4, <1>5, <1>6 DEF Next

LEMMA AlwaysSound == Spec => []Sound
BY SoundFirst, SoundNext, PTL DEF Spec

(***************************************************************************)
(* The theorems.                                                           *)
(***************************************************************************)

LEMMA OneCounts ==
  ASSUME NEW S, AtMostOne(S)
  PROVE  Cardinality(S) =< 1
<1>1. CASE S = {}
  BY <1>1, FS_EmptySet
<1>2. ASSUME NEW p, S = {p} PROVE Cardinality(S) =< 1
  <2>1. Cardinality(S) = 1
    BY <1>2, FS_Singleton
  <2> QED
    BY <2>1
<1> QED
  BY <1>1, <1>2, Zenon DEF AtMostOne

\* The windows, the focus and the splits are always well formed, the marker
\* of a window lies inside it, and no two windows answer to one letter.
THEOREM WindowsAreSound == Spec => []WindowsSound
<1>1. ASSUME NEW w, Good(w) PROVE WindowOK(w)
  <2>1. w \in Window /\ w.unread =< Len(w.lines) /\ Marked(w) /\ Len(w.lines) \in Nat
    BY <1>1, UnknownLines DEF Good
  <2>2. /\ w.lines \in Seq(Line) /\ w.unread \in Nat /\ w.mention \in Importance
        /\ w.name \in 0 .. Names /\ w.filter \in AllFilters
    BY <2>1 DEF Window
  <2>3. w.hidden \in BOOLEAN
    BY <2>1, Zenon DEF Window
  <2>4. Cardinality(w.marker) =< 1 /\ \A m \in w.marker : m \in 0 .. Len(w.lines)
    <3>1. CASE w.marker = {}
      BY <3>1, FS_EmptySet
    <3>2. ASSUME NEW m \in 0 .. Len(w.lines), w.marker = {m}
          PROVE  Cardinality(w.marker) = 1 /\ \A k \in w.marker : k \in 0 .. Len(w.lines)
      BY <3>2, FS_Singleton
    <3> QED
      BY <2>1, <3>1, <3>2 DEF Marked
  <2> QED
    BY <2>1, <2>2, <2>3, <2>4 DEF WindowOK, Line
<1>2. Sound => WindowsSound
  <2> SUFFICES ASSUME Sound PROVE WindowsSound
    OBVIOUS
  <2>0. client \in Clients
    BY DEF Sound
  <2>1. /\ DOMAIN client.windows \subseteq Places
        /\ \A p \in DOMAIN client.windows : WindowOK(client.windows[p])
        /\ \A p, q \in DOMAIN client.windows :
             p # q /\ client.windows[p].name = client.windows[q].name
               => client.windows[p].name = 0
    BY <1>1, <2>0, ClientFields, LayoutFields
  <2>2. /\ {client.focus, client.prev} \cup client.return \subseteq Places
        /\ client.extra \subseteq Views /\ client.online \subseteq Each(Networks)
    BY <2>0, ClientFields
  <2>3. client.messages \in BOOLEAN /\ client.looking \in BOOLEAN
    BY <2>0, ClientFields
  <2>4. client.joined \subseteq {<<n, c>> : n \in client.online, c \in Channels}
    BY <2>0, ClientFields
  <2>5. Cardinality(client.return) =< 1
    BY <2>0, ClientFields, OneCounts
  <2>6. phase \in {"idle", "batch", "crashed"} /\ events \in 0 .. MaxEvents
    BY DEF Sound
  <2> QED
    BY <2>1, <2>2, <2>3, <2>4, <2>5, <2>6 DEF WindowsSound
<1> QED
  BY <1>2, AlwaysSound, PTL

\* A window announces as many lines as its user has not had on the screen,
\* and the highest importance among them.
THEOREM ActivityIsShown == Spec => []ActivityShown
<1>1. Sound => ActivityShown
  <2> SUFFICES ASSUME Sound, NEW p \in DOMAIN client.windows
               PROVE  LET w == client.windows[p]
                      IN /\ w.unread = Cardinality(Unknown(w))
                         /\ w.mention = Max({w.lines[n].imp : n \in Unknown(w)} \cup {Boring})
    BY DEF ActivityShown
  <2>1. Good(client.windows[p])
    BY ClientFields, LayoutFields DEF Sound
  <2> QED
    BY <2>1 DEF Good, Announced, Imps
<1> QED
  BY <1>1, AlwaysSound, PTL

\* A script that saved the focus and gives it back to set_focus leaves the
\* user where he was.
THEOREM FocusIsRestored == Spec => []FocusRestored
<1>1. Sound => FocusRestored
  <2> SUFFICES ASSUME Sound, NEW p \in Places
      PROVE  LET saved == LuaCurrentFocus(client)
                 away == LuaSetFocus(client, LuaNames(p)[1], LuaNames(p)[2])
                 back == LuaSetFocus(away.client, saved[1], saved[2])
             IN ~back.raised /\ back.client.focus = client.focus
    BY DEF FocusRestored
  <2>1. client \in Clients /\ client.focus \in Places
    BY ClientFields DEF Sound
  <2>2. ASSUME NEW st \in Clients, NEW q \in Places
        PROVE  LET r == LuaSetFocus(st, LuaNames(q)[1], LuaNames(q)[2])
               IN ~r.raised /\ r.client \in Clients /\ r.client.focus = q
    <3>1. LuaSetFocus(st, LuaNames(q)[1], LuaNames(q)[2]) = Done(ChangeFocus(st, q))
      BY PlaceOfNames, Zenon DEF LuaSetFocus
    <3> DEFINE u == ChangeFocus(st, q)
    <3>2. u \in Clients /\ u.focus = q
      BY ChangeFocusIs DEF Focused
    <3> HIDE DEF u
    <3>3. ~Done(u).raised /\ Done(u).client = u
      BY DEF Done
    <3> QED
      BY <3>1, <3>2, <3>3 DEF u
  <2> DEFINE away == LuaSetFocus(client, LuaNames(p)[1], LuaNames(p)[2])
  <2>3. away.client \in Clients
    BY <2>1, <2>2
  <2> HIDE DEF away
  <2>4. LuaCurrentFocus(client) = LuaNames(client.focus)
    BY DEF LuaCurrentFocus
  <2> QED
    BY <2>1, <2>2, <2>3, <2>4 DEF away
<1> QED
  BY <1>1, AlwaysSound, PTL

\* What comes from a network loses no line, and leaves the user where he was,
\* but for a channel that forwards him to another.
THEOREM ViewIsKept == Spec => ViewKept
<1>1. Sound /\ [Next]_vars =>
        [phase' = "batch" => \/ Kept(client, client')
                             \/ ForwardLine /\ Moved(client, client')
                             \/ ~Network]_vars
  BY NetworkStep, Zenon
<1> QED
  BY <1>1, AlwaysSound, PTL DEF Spec, ViewKept

(***************************************************************************)
(* The chain of M-a.                                                       *)
(***************************************************************************)
Home(st) == IF st.return = {} THEN {st.focus} ELSE st.return

\* A window with an important line not seen counts it.
LEMMA ImportantCounts ==
  ASSUME NEW w, Good(w), w.mention = Important
  PROVE  w.unread > 0
<1>1. w \in Window /\ w.unread = Cardinality(Unknown(w)) /\ Important = Max(Imps(w))
  BY DEF Good, Announced
<1>2. IsFiniteSet(Unknown(w)) /\ Cardinality(Unknown(w)) \in Nat
  BY <1>1, UnknownLines
<1>3. Unknown(w) # {}
  <2>1. ASSUME Unknown(w) = {} PROVE FALSE
    <3>1. Imps(w) = {Boring}
      BY <2>1 DEF Imps
    <3>2. Max(Imps(w)) = Boring
      BY <3>1, MaxIs DEF Boring
    <3> QED
      BY <1>1, <3>2 DEF Boring, Important
  <2> QED
    BY <2>1
<1>4. Cardinality(Unknown(w)) # 0
  BY <1>2, <1>3, FS_EmptySet
<1> QED
  BY <1>1, <1>2, <1>4

\* M-a goes to a window with activity, or back.
LEMMA JumpGoes ==
  ASSUME NEW st \in Clients
  PROVE  LET u == JumpToActivity(st)
         IN /\ Active(st) # {} => \E p \in Active(st) : Focused(u, st, p)
            /\ Active(st) = {} /\ st.return # {} =>
                 \E p \in st.return : Focused(u, st, p)
            /\ Active(st) = {} /\ st.return = {} => u = st
<1> DEFINE high == {p \in DOMAIN st.windows : st.windows[p].mention = Important}
           low == {p \in DOMAIN st.windows : st.windows[p].unread > 0}
           u == JumpToActivity(st)
<1>1. /\ DOMAIN st.windows \subseteq Places /\ st.return \subseteq Places
      /\ \A p \in DOMAIN st.windows : Good(st.windows[p])
  BY ClientFields, LayoutFields
<1>2. low = Active(st) /\ high \subseteq low
  BY <1>1, ImportantCounts DEF Active
<1>3. ASSUME NEW S \in SUBSET Places, S # {}
      PROVE  \E p \in S : Focused(ChangeFocus(st, Earliest(S)), st, p)
  BY <1>3, EarliestIn, ChangeFocusIs
<1>4. CASE high # {}
  <2>1. u = ChangeFocus(st, Earliest(high))
    BY <1>4 DEF JumpToActivity
  <2>2. high \in SUBSET Places /\ high # {}
    BY <1>1, <1>4
  <2> HIDE DEF high, u, low
  <2>3. \E p \in high : Focused(u, st, p)
    BY <1>3, <2>1, <2>2
  <2> QED
    BY <1>2, <2>2, <2>3 DEF u
<1>5. CASE high = {} /\ low # {}
  <2>1. u = ChangeFocus(st, Earliest(low))
    BY <1>5 DEF JumpToActivity
  <2>2. low \in SUBSET Places /\ low # {}
    BY <1>1, <1>5
  <2> HIDE DEF high, u, low
  <2>3. \E p \in low : Focused(u, st, p)
    BY <1>3, <2>1, <2>2
  <2> QED
    BY <1>2, <2>2, <2>3 DEF u
<1>6. CASE high = {} /\ low = {} /\ st.return # {}
  <2>1. u = ChangeFocus(st, Earliest(st.return))
    BY <1>6 DEF JumpToActivity
  <2>2. st.return \in SUBSET Places
    BY <1>1
  <2> HIDE DEF high, u, low
  <2>3. \E p \in st.return : Focused(u, st, p)
    BY <1>3, <1>6, <2>1, <2>2
  <2> QED
    BY <1>2, <1>6, <2>3 DEF u
<1>7. CASE high = {} /\ low = {} /\ st.return = {}
  <2>1. u = st
    BY <1>7 DEF JumpToActivity
  <2> HIDE DEF high, low
  <2> QED
    BY <1>2, <1>7, <2>1
<1> QED
  BY <1>4, <1>5, <1>6, <1>7

Press(st) == Redraw(PressJump(st))

\* One M-a of a user who looks: a window with activity is shown, and so is
\* home when there is none.
Advances(v, st) ==
  /\ v \in Clients /\ v.looking /\ Home(v) = Home(st)
  /\ Active(v) \subseteq Active(st)
  /\ Active(st) # {} => v.focus \in Active(st) /\ v.focus \notin Active(v)
  /\ Active(st) = {} => {v.focus} = Home(st)

LEMMA PressAdvances ==
  ASSUME NEW st \in Clients, st.looking
  PROVE  Advances(Press(st), st)
<1> DEFINE u == JumpToActivity(st)
           R == IF u.return = {} THEN {st.focus} ELSE u.return
           j == PressJump(st)
           v == Redraw(j)
<1>1. /\ u \in Clients /\ u.return = st.return /\ u.looking = st.looking
      /\ SameUnread(u.windows, st.windows)
      /\ Active(st) # {} => u.focus \in Active(st) /\ u.messages = TRUE
      /\ Active(st) = {} => {u.focus} = Home(st)
  <2>1. CASE Active(st) # {}
    <3>1. PICK p \in Active(st) : Focused(u, st, p)
      BY <2>1, JumpGoes
    <3> HIDE DEF u
    <3> QED
      BY <2>1, <3>1 DEF Focused
  <2>2. CASE Active(st) = {} /\ st.return # {}
    <3>1. PICK p \in st.return : Focused(u, st, p)
      BY <2>2, JumpGoes
    <3>2. st.return = {p}
      BY <3>1, ClientFields DEF AtMostOne
    <3> HIDE DEF u
    <3> QED
      BY <2>2, <3>1, <3>2 DEF Focused, Home
  <2>3. CASE Active(st) = {} /\ st.return = {}
    <3>1. u = st
      BY <2>3, JumpGoes
    <3> HIDE DEF u
    <3> QED
      BY <2>3, <3>1 DEF SameUnread, Home
  <2> QED
    BY <2>1, <2>2, <2>3
<1> HIDE DEF u
<1>2. R = Home(st)
  BY <1>1 DEF Home
<1>3. /\ j \in Clients /\ j.return = Home(st) /\ j.windows = u.windows
      /\ j.focus = u.focus /\ j.messages = u.messages /\ j.looking = st.looking
  <2>1. Home(st) \in SUBSET Places /\ AtMostOne(Home(st))
    BY ClientFields DEF Home, AtMostOne
  <2>2. Returned(j, u, Home(st))
    BY <1>2 DEF PressJump, Returned, u
  <2> HIDE DEF j
  <2>3. u \in Clients
    BY <1>1
  <2>4. j \in Clients /\ SameBut(j, u, Home(st))
    BY <2>1, <2>2, <2>3, SetReturn
  <2> QED
    BY <1>1, <2>4 DEF SameBut
<1> HIDE DEF j
<1>4. Rewindowed(v, j, PutAll(j.windows, Shown(j),
                              [p \in DOMAIN j.windows |-> Seen(j.windows[p])]))
  BY <1>3, RedrawIs
<1> HIDE DEF v
<1>5. v \in Clients /\ v.focus = u.focus /\ v.looking = st.looking /\ v.return = Home(st)
  BY <1>3, <1>4 DEF Rewindowed
<1>6. DOMAIN v.windows = DOMAIN st.windows
  BY <1>1, <1>3, <1>4 DEF Rewindowed, PutAll, SameUnread
<1>7. \A p \in DOMAIN st.windows :
        v.windows[p].unread = IF p \in Shown(j) THEN 0 ELSE st.windows[p].unread
  <2>1. ASSUME NEW p \in DOMAIN j.windows PROVE Seen(j.windows[p]).unread = 0
    BY <1>3, ClientFields, LayoutFields, TouchedUnread DEF Seen
  <2>2. \A p \in DOMAIN j.windows :
          v.windows[p] = IF p \in Shown(j) THEN Seen(j.windows[p]) ELSE j.windows[p]
    BY <1>4 DEF Rewindowed, PutAll
  <2> QED
    BY <1>1, <1>3, <2>1, <2>2 DEF SameUnread
<1>8. Active(v) \subseteq Active(st)
  BY <1>6, <1>7 DEF Active
<1>9. ASSUME Active(st) # {} PROVE v.focus \in Active(st) /\ v.focus \notin Active(v)
  <2>1. v.focus \in Active(st) /\ j.messages = TRUE /\ j.focus = v.focus
    BY <1>1, <1>3, <1>5, <1>9
  <2>2. v.focus \in Shown(j)
    <3>1. Current(j).messages /\ Current(j).place = v.focus
      BY <2>1 DEF Current, View
    <3> QED
      BY <3>1, Zenon DEF Shown, MessagePart
  <2> QED
    BY <1>6, <1>7, <2>1, <2>2 DEF Active
<1>10. Home(v) = Home(st)
  <2>1. Home(st) # {}
    BY DEF Home
  <2> QED
    BY <1>5, <2>1 DEF Home
<1>11. Advances(v, st)
  BY <1>1, <1>5, <1>8, <1>9, <1>10 DEF Advances
<1> QED
  BY <1>11 DEF v, j, Press

\* Presses on st of M-a, one after the other.
Chain(g, st) ==
  g = [n \in Nat |-> IF n = 0 THEN st ELSE Press(g[n - 1])]

LEMMA ChainExists ==
  ASSUME NEW st \in Clients
  PROVE  \E g : Chain(g, st)
<1> DEFINE F == [k \in Nat |-> [u \in Clients |-> Press(u)]]
<1>1. F \in [Nat -> [Clients -> Clients]]
  BY PressesStay, RedrawStays DEF Press
<1>2. PICK g : Walks(g, Clients, F, st)
  <2> HIDE DEF F
  <2> QED
    BY <1>1, AllSteps
<1>3. ASSUME NEW i \in Nat \ {0} PROVE g[i] = Press(g[i - 1])
  <2>1. i \in Nat /\ i - 1 \in Nat
    OBVIOUS
  <2>2. g[i - 1] \in Clients /\ g[i] = F[i][g[i - 1]]
    BY <1>2, <2>1 DEF Walks
  <2> QED
    BY <2>1, <2>2
<1> HIDE DEF F
<1>4. g \in [Nat -> Clients] /\ g[0] = st
  BY <1>2 DEF Walks
<1>5. \A n \in Nat : g[n] = IF n = 0 THEN st ELSE Press(g[n - 1])
  BY <1>3, <1>4
<1>6. g = [n \in Nat |-> IF n = 0 THEN st ELSE Press(g[n - 1])]
  BY <1>4, <1>5
<1> QED
  BY <1>6 DEF Chain

\* Each press leaves fewer windows with activity than the one before, until
\* there is none.
LEMMA ChainAdvances ==
  ASSUME NEW st \in Clients, st.looking, NEW g, Chain(g, st),
         NEW N \in Nat, Cardinality(Active(st)) = N
  PROVE  /\ g[N] \in Clients /\ g[N].looking /\ Home(g[N]) = Home(st)
         /\ Active(g[N]) = {}
<1> DEFINE OK(u, n) == /\ u \in Clients /\ u.looking /\ Home(u) = Home(st)
                       /\ Cardinality(Active(u)) =< N - n
           P == {n \in Nat : n =< N => OK(g[n], n)}
<1>1. ASSUME NEW u \in Clients
      PROVE  IsFiniteSet(Active(u)) /\ Cardinality(Active(u)) \in Nat
  <2>1. Active(u) \subseteq Places
    BY ClientFields, LayoutFields DEF Active
  <2>2. IsFiniteSet(Active(u))
    BY <2>1, PlacesFinite, FS_Subset
  <2> QED
    BY <2>2, FS_CardinalityType
<1>2. 0 \in P
  BY DEF Chain
<1>3. ASSUME NEW n \in Nat, n \in P PROVE n + 1 \in P
  <2> SUFFICES ASSUME n + 1 =< N PROVE OK(g[n + 1], n + 1)
    OBVIOUS
  <2> DEFINE u == g[n]
             v == g[n + 1]
  <2>1. OK(u, n)
    BY <1>3
  <2>2. v = Press(u)
    BY DEF Chain
  <2> HIDE DEF u, v
  <2>3. Advances(v, u)
    BY <2>1, <2>2, PressAdvances
  <2>4. v \in Clients /\ v.looking /\ Home(v) = Home(st)
    BY <2>1, <2>3 DEF Advances
  <2>5. Cardinality(Active(v)) =< N - (n + 1)
    <3>1. CASE Active(u) = {}
      <4>1. Active(v) = {}
        BY <2>3, <3>1 DEF Advances
      <4>2. Cardinality(Active(v)) = 0
        BY <4>1, FS_EmptySet
      <4> QED
        BY <4>2
    <3>2. CASE Active(u) # {}
      <4> DEFINE rest == Active(u) \ {v.focus}
      <4>1. v.focus \in Active(u) /\ Active(v) \subseteq rest
        BY <2>3, <3>2 DEF Advances
      <4>2. IsFiniteSet(rest) /\ Cardinality(rest) = Cardinality(Active(u)) - 1
        BY <1>1, <2>1, <4>1, FS_RemoveElement
      <4> HIDE DEF rest
      <4>3. Cardinality(Active(v)) =< Cardinality(rest)
        BY <4>1, <4>2, FS_Subset
      <4>4. Cardinality(Active(u)) \in Nat /\ Cardinality(Active(v)) \in Nat
            /\ Cardinality(Active(u)) =< N - n
        BY <1>1, <2>1, <2>4
      <4> QED
        BY <4>2, <4>3, <4>4
    <3> QED
      BY <3>1, <3>2
  <2> QED
    BY <2>4, <2>5 DEF v
<1>4. Nat \subseteq P
  <2> HIDE DEF P
  <2> QED
    BY <1>2, <1>3, NumberInduction
<1>5. OK(g[N], N)
  BY <1>4
<1>6. Active(g[N]) = {}
  <2>1. Cardinality(Active(g[N])) = 0
    BY <1>1, <1>5
  <2> QED
    BY <1>1, <1>5, <2>1, FS_EmptySet
<1> QED
  BY <1>5, <1>6

\* As many presses of M-a as windows with activity, and one more, show them
\* all and lead back.
THEOREM JumpsReturn == Spec => []JumpReturns
<1>1. Sound => JumpReturns
  <2> SUFFICES ASSUME Sound, client.looking
      PROVE  LET last == Presses[Cardinality(Active(client)) + 1]
             IN {last.focus} = Home(client) /\ Active(last) = {}
    BY DEF JumpReturns, Home
  <2> DEFINE N == Cardinality(Active(client))
             u == Presses[N]
             v == Presses[N + 1]
  <2>1. client \in Clients
    BY DEF Sound
  <2>2. N \in Nat
    <3>1. Active(client) \subseteq Places
      BY <2>1, ClientFields, LayoutFields DEF Active
    <3>2. IsFiniteSet(Active(client))
      BY <3>1, PlacesFinite, FS_Subset
    <3> QED
      BY <3>2, FS_CardinalityType
  <2>3. Chain(Presses, client)
    <3>1. Presses = CHOOSE g : Chain(g, client)
      BY Zenon DEF Presses, Chain, Press
    <3>2. \E g : Chain(g, client)
      BY <2>1, ChainExists
    <3> QED
      BY <3>1, <3>2
  <2> HIDE DEF N
  <2>4. u \in Clients /\ u.looking /\ Home(u) = Home(client) /\ Active(u) = {}
    BY <2>1, <2>2, <2>3, ChainAdvances DEF N
  <2>5. v = Press(u)
    BY <2>2, <2>3 DEF Chain
  <2> HIDE DEF u, v
  <2>6. Advances(v, u)
    BY <2>4, <2>5, PressAdvances
  <2>7. {v.focus} = Home(client) /\ Active(v) = {}
    BY <2>4, <2>6 DEF Advances
  <2> QED
    BY <2>7 DEF v, N
<1> QED
  BY <1>1, AlwaysSound, PTL
=============================================================================
