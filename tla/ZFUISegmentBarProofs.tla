-------------------------- MODULE ZFUISegmentBarProofs --------------------------
(****************************************************************************)
(* Proofs about ZFUISegmentBar, for any number of buttons of any widths.    *)
(*                                                                          *)
(* That a clicked button is scrolled into view rests on the sum of the      *)
(* widths before a button, a recursive function: SetInduction is induction  *)
(* over the natural numbers with a set in place of a predicate, and         *)
(* TotalFacts follows from it.  OneSelected and FromIsPrevious need BarInv: *)
(* the delegate was last told of the button that lastSelectedBtn refers to, *)
(* also when that button is no longer in the bar.                           *)
(****************************************************************************)
EXTENDS ZFUISegmentBar, WellFoundedInduction, TLAPS

----------------------------------------------------------------------------
(* The sum of the widths.                                                   *)

\* Induction: a set that holds 0, and n + 1 with every n, holds every natural number.
LEMMA SetInduction ==
    ASSUME NEW S, 0 \in S, \A n \in Nat : n \in S => n + 1 \in S
    PROVE  Nat \subseteq S
<1> DEFINE T == Nat \ S
           R == OpToRel(<, Nat)
<1>1. SUFFICES ASSUME T # {}
               PROVE  FALSE
  OBVIOUS
<1>2. IsWellFoundedOn(R, Nat)
  BY NatLessThanWellFounded, Zenon
<1>3. \A a, b \in Nat : a < b => <<a, b>> \in R
  BY Zenon DEF OpToRel
<1>4. T \subseteq Nat
  OBVIOUS
<1> HIDE DEF R
<1>5. PICK x \in T : \A y \in T : <<y, x>> \notin R
  <2> HIDE DEF T
  <2> QED
    BY <1>1, <1>2, <1>4, WFMin
<1>6. x \in Nat /\ x # 0 /\ x - 1 \in Nat /\ x - 1 < x
  OBVIOUS
<1>7. x - 1 \in S
  BY <1>3, <1>5, <1>6
<1> QED
  BY <1>6, <1>7

\* The recursion that defines TotalWidth has a solution.
LEMMA TotalExists ==
    ASSUME NEW b \in Seq(Nat)
    PROVE  \E f : f = [n \in 0..Len(b) |-> IF n = 0 THEN 0 ELSE f[n - 1] + b[n]]
<1> DEFINE Sums(f, k) == f[0] = 0 /\ \A n \in 1..k : f[n] = f[n - 1] + b[n]
           Has(k) == k <= Len(b) => \E f \in [0..k -> Nat] : Sums(f, k)
           S == {k \in Nat : Has(k)}
<1>1. Len(b) \in Nat /\ \A n \in 1..Len(b) : b[n] \in Nat
  OBVIOUS
<1>2. Has(0)
  <2>1. [n \in 0..0 |-> 0] \in [0..0 -> Nat] /\ Sums([n \in 0..0 |-> 0], 0)
    OBVIOUS
  <2> QED
    BY <2>1
<1>3. ASSUME NEW k \in Nat, Has(k)
      PROVE  Has(k + 1)
  <2> SUFFICES ASSUME k + 1 <= Len(b)
               PROVE  \E f \in [0..(k + 1) -> Nat] : Sums(f, k + 1)
    OBVIOUS
  <2>0. k <= Len(b)
    BY <1>1
  <2>1. PICK f \in [0..k -> Nat] : Sums(f, k)
    BY <1>3, <2>0, Zenon
  <2> DEFINE g == [n \in 0..(k + 1) |-> IF n = k + 1 THEN f[k] + b[k + 1] ELSE f[n]]
  <2>2. g \in [0..(k + 1) -> Nat]
    BY <1>1
  <2>3. g[0] = 0
    BY <2>1
  <2>4. ASSUME NEW n \in 1..(k + 1)
        PROVE  g[n] = g[n - 1] + b[n]
    <3>1. CASE n = k + 1
      BY <3>1
    <3>2. CASE n # k + 1
      BY <2>1, <3>2
    <3> QED
      BY <3>1, <3>2
  <2> QED
    BY <2>2, <2>3, <2>4
<1>4. Has(Len(b))
  <2> HIDE DEF Has
  <2>1. 0 \in S /\ \A n \in Nat : n \in S => n + 1 \in S
    BY <1>2, <1>3
  <2>2. Nat \subseteq S
    <3> HIDE DEF S
    <3> QED
      BY <2>1, SetInduction
  <2> QED
    BY <1>1, <2>2
<1>5. PICK f \in [0..Len(b) -> Nat] : Sums(f, Len(b))
  BY <1>1, <1>4
<1>6. f = [n \in 0..Len(b) |-> IF n = 0 THEN 0 ELSE f[n - 1] + b[n]]
  BY <1>1, <1>5
<1> QED
  BY <1>6

\* TotalWidth satisfies its recursion.
LEMMA TotalUnfolds ==
    ASSUME NEW b \in Seq(Nat)
    PROVE  TotalWidth(b) = [n \in 0..Len(b) |-> IF n = 0 THEN 0
                                                ELSE TotalWidth(b)[n - 1] + b[n]]
BY TotalExists, Zenon DEF TotalWidth

\* The sums are natural numbers, start at 0, grow by each width, and never shrink.
LEMMA TotalFacts ==
    ASSUME NEW b \in Seq(Nat)
    PROVE  /\ \A k \in 0..Len(b) : TotalWidth(b)[k] \in Nat
           /\ \A k \in 0..(Len(b) - 1) :
                  TotalWidth(b)[k + 1] = TotalWidth(b)[k] + b[k + 1]
           /\ \A i, j \in 0..Len(b) : i <= j => TotalWidth(b)[i] <= TotalWidth(b)[j]
<1> DEFINE t == TotalWidth(b)
<1>1. Len(b) \in Nat /\ \A n \in 1..Len(b) : b[n] \in Nat
  OBVIOUS
<1>2. t = [n \in 0..Len(b) |-> IF n = 0 THEN 0 ELSE t[n - 1] + b[n]]
  BY TotalUnfolds
<1> HIDE DEF t
<1>3. t[0] = 0
  BY <1>1, <1>2
<1>4. ASSUME NEW k \in 0..(Len(b) - 1)
      PROVE  t[k + 1] = t[k] + b[k + 1]
  <2>1. k + 1 \in 0..Len(b) /\ k + 1 # 0 /\ (k + 1) - 1 = k
    BY <1>1
  <2> QED
    BY <1>2, <2>1
<1>5. \A k \in 0..Len(b) : t[k] \in Nat
  <2> DEFINE S == {k \in Nat : k <= Len(b) => t[k] \in Nat}
  <2>1. 0 \in S
    BY <1>3
  <2>2. ASSUME NEW k \in Nat, k \in S
        PROVE  k + 1 \in S
    BY <1>1, <1>4, <2>2
  <2>3. Nat \subseteq S
    <3> HIDE DEF S
    <3> QED
      BY <2>1, <2>2, SetInduction
  <2> QED
    BY <1>1, <2>3
<1>6. ASSUME NEW i \in 0..Len(b), NEW j \in 0..Len(b), i <= j
      PROVE  t[i] <= t[j]
  <2> DEFINE S == {d \in Nat : i + d <= Len(b) => t[i] <= t[i + d]}
  <2>1. 0 \in S
    BY <1>5
  <2>2. ASSUME NEW d \in Nat, d \in S
        PROVE  d + 1 \in S
    <3> SUFFICES ASSUME i + (d + 1) <= Len(b)
                 PROVE  t[i] <= t[i + (d + 1)]
      OBVIOUS
    <3>1. i + d \in 0..(Len(b) - 1) /\ (i + d) + 1 = i + (d + 1)
      BY <1>1
    <3>2. t[i + (d + 1)] = t[i + d] + b[i + (d + 1)]
      BY <1>4, <3>1
    <3>3. t[i] <= t[i + d]
      BY <1>1, <2>2, <3>1
    <3>4. b[i + (d + 1)] \in Nat /\ t[i + d] \in Nat /\ t[i] \in Nat
      BY <1>1, <1>5, <3>1
    <3> QED
      BY <3>2, <3>3, <3>4
  <2>3. Nat \subseteq S
    <3> HIDE DEF S
    <3> QED
      BY <2>1, <2>2, SetInduction
  <2>4. j - i \in Nat /\ i + (j - i) = j
    BY <1>1, <1>6
  <2>5. j - i \in S
    <3> HIDE DEF S
    <3> QED
      BY <2>3, <2>4
  <2> QED
    BY <1>1, <2>4, <2>5
<1> QED
  BY <1>4, <1>5, <1>6 DEF t

----------------------------------------------------------------------------
(* The layout.                                                              *)

\* What the constants say of the width of a button.
LEMMA WidthFacts ==
    ASSUME NEW b \in Seq(Width)
    PROVE  /\ b \in Seq(Nat) /\ Len(b) \in Nat
           /\ \A n \in 1..Len(b) : b[n] \in Nat /\ b[n] <= BarWidth
<1>1. Len(b) \in Nat /\ b \in [1..Len(b) -> Width]
  OBVIOUS
<1>2. Width \subseteq Nat /\ \A w \in Width : w <= BarWidth
  BY SegmentAssumption
<1>3. b \in [1..Len(b) -> Nat]
  BY <1>1, <1>2
<1>4. b \in Seq(Nat)
  BY <1>1, <1>3
<1> QED
  BY <1>1, <1>2, <1>4

\* The margin between buttons is a natural number.
LEMMA MarginNat ==
    ASSUME NEW b \in Seq(Width)
    PROVE  margin(b) \in Nat
<1>1. BarWidth - TotalWidth(b)[Len(b)] \in Int /\ Len(b) + 1 \in Nat \ {0}
  BY WidthFacts, TotalFacts, SegmentAssumption
<1>2. (BarWidth - TotalWidth(b)[Len(b)]) \div (Len(b) + 1) \in Int
  <2> DEFINE a == BarWidth - TotalWidth(b)[Len(b)]
             d == Len(b) + 1
  <2>1. a \in Int /\ d \in Nat \ {0}
    BY <1>1
  <2> HIDE DEF a, d
  <2>2. a \div d \in Int
    BY <2>1
  <2> QED
    BY <2>2 DEF a, d
<1> DEFINE m == (BarWidth - TotalWidth(b)[Len(b)]) \div (Len(b) + 1)
<1> HIDE DEF m
<1>3. m \in Int
  BY <1>2 DEF m
<1>4. margin(b) = IF m < MinMargin THEN MinMargin ELSE m
  BY DEF margin, m
<1> QED
  BY <1>3, <1>4 DEF MinMargin

\* A product with a natural number is monotone.
LEMMA ProductFacts ==
    ASSUME NEW i \in Nat, NEW j \in Nat, NEW m \in Nat, i <= j
    PROVE  i * m \in Nat /\ i * m <= j * m
<1>1. i * m \in Nat /\ (j - i) * m \in Nat
  <2>1. j - i \in Nat
    OBVIOUS
  <2> QED
    BY <2>1
<1>2. j * m = i * m + (j - i) * m
  OBVIOUS
<1> QED
  BY <1>1, <1>2

\* Moving two ends by p and by at least p keeps a width between them.
LEMMA OffsetFacts ==
    ASSUME NEW a \in Nat, NEW z \in Nat, NEW w \in Nat, NEW p \in Nat, NEW q \in Nat,
           a + w <= z, p <= q
    PROVE  a + p \in Nat /\ z + q \in Nat /\ a + p + w <= z + q
OBVIOUS

\* A button starts at or right of 0 and ends at or left of the end of the content.
LEMMA ButtonInContent ==
    ASSUME NEW b \in Seq(Width), NEW i \in 0..(Len(b) - 1)
    PROVE  /\ btnX(b, i) \in Nat /\ contentWidth(b) \in Nat
           /\ btnX(b, i) + b[i + 1] <= contentWidth(b)
<1> DEFINE t == TotalWidth(b)
           n == Len(b)
           m == margin(b)
<1>1. /\ i \in Nat /\ n \in Nat /\ i + 1 <= n /\ i <= n
      /\ i + 1 \in 0..n /\ n \in 0..n /\ i \in 0..n /\ i + 1 \in 1..n
  BY WidthFacts
<1>2. t[i] \in Nat /\ t[n] \in Nat /\ t[i + 1] = t[i] + b[i + 1] /\ t[i + 1] <= t[n]
  BY <1>1, WidthFacts, TotalFacts
<1>3. m \in Nat
  BY MarginNat
<1>4. i * m \in Nat /\ n * m \in Nat /\ i * m <= n * m
  BY <1>1, <1>3, ProductFacts
<1>5. b[i + 1] \in Nat
  BY <1>1, WidthFacts
<1>6. btnX(b, i) = t[i] + i * m /\ contentWidth(b) = t[n] + n * m
  BY DEF btnX, contentWidth
<1> DEFINE p == i * m
           q == n * m
<1>7. p \in Nat /\ q \in Nat /\ p <= q /\ btnX(b, i) = t[i] + p /\ contentWidth(b) = t[n] + q
  BY <1>4, <1>6
<1> DEFINE w == b[i + 1]
<1>8. w \in Nat /\ t[n] \in Nat /\ t[i] \in Nat /\ t[i] + w <= t[n]
  BY <1>2, <1>5
<1> HIDE DEF t, n, m, p, q, w
<1>9. /\ t[i] + p \in Nat /\ t[n] + q \in Nat /\ t[i] + p + w <= t[n] + q
  BY <1>7, <1>8, OffsetFacts
<1>10. btnX(b, i) \in Nat /\ contentWidth(b) \in Nat /\ btnX(b, i) + w <= contentWidth(b)
  BY <1>7, <1>9
<1> QED
  BY <1>10 DEF w

\* Half of a natural number.
LEMMA HalfFacts ==
    ASSUME NEW w \in Nat
    PROVE  w \div 2 \in Nat /\ 2 * (w \div 2) <= w /\ w <= 2 * (w \div 2) + 1
OBVIOUS

\* ScrollX is a place of the scroll view from which the whole button shows.
LEMMA ScrollShows ==
    ASSUME itemBtns \in Seq(Width), NEW i \in Index
    PROVE  /\ ScrollX(i) \in Int
           /\ ScrollX(i) <= btnX(itemBtns, i)
           /\ btnX(itemBtns, i) + itemBtns[i + 1] <= ScrollX(i) + BarWidth
<1> DEFINE x == btnX(itemBtns, i)
           w == itemBtns[i + 1]
           c == contentWidth(itemBtns)
<1>1. x \in Nat /\ c \in Nat /\ x + w <= c
  BY ButtonInContent DEF Index
<1>2. w \in Nat /\ w <= BarWidth /\ BarWidth \in Nat
  BY WidthFacts, SegmentAssumption DEF Index
<1>3. /\ w \div 2 \in Nat /\ 2 * (w \div 2) <= w /\ w <= 2 * (w \div 2) + 1
      /\ BarWidth \div 2 \in Nat /\ 2 * (BarWidth \div 2) <= BarWidth
      /\ BarWidth <= 2 * (BarWidth \div 2) + 1
  BY <1>2, HalfFacts
<1>4. centerX(itemBtns, i) = x + w \div 2
  BY DEF centerX
<1> DEFINE h == w \div 2
           B == BarWidth \div 2
           e == centerX(itemBtns, i) - BarWidth \div 2
<1>5. ScrollX(i) = LET left == IF e < 0 THEN 0 ELSE e
                   IN  IF left > c - BarWidth THEN c - BarWidth ELSE left
  BY DEF ScrollX
<1>6. h \in Nat /\ 2 * h <= w /\ w <= 2 * h + 1
      /\ B \in Nat /\ 2 * B <= BarWidth /\ BarWidth <= 2 * B + 1
  BY <1>3
<1> HIDE DEF x, w, c
<1>8. e = (x + h) - B
  BY <1>4
<1> HIDE DEF h, B, e
<1>7. /\ ScrollX(i) \in Int /\ ScrollX(i) <= x /\ x + w <= ScrollX(i) + BarWidth
  BY <1>1, <1>2, <1>5, <1>6, <1>8
<1> QED
  BY <1>7 DEF x, w

----------------------------------------------------------------------------
(* The bar.                                                                 *)

\* The delegate was last told of the button that lastSelectedBtn refers to.
ToldOfLast == told # nil => lastSelectedBtn # nil /\ lastSelectedBtn.tag = told.to

BarInv == TypeOK /\ OneSelected /\ ToldOfLast

\* An empty bar satisfies BarInv.
LEMMA BarInitInv == Init => BarInv
<1> SUFFICES ASSUME Init
             PROVE  BarInv
  OBVIOUS
<1>1. <<>> \in Seq(Width) /\ Len(<<>>) = 0
  OBVIOUS
<1>2. TypeOK
  <2>1. itemBtns \in Seq(Width) /\ Len(itemBtns) <= MaxItems /\ 0 \in 0..(MaxItems - 1)
    BY <1>1, SegmentAssumption DEF Init
  <2>2. contentOffset \in Int
    BY DEF Init
  <2> QED
    BY <2>1, <2>2, Zenon DEF Init, TypeOK
<1> QED
  BY <1>2 DEF Init, BarInv, OneSelected, ToldOfLast

\* The layout types the indicator and the exception.
LEMMA LayoutTypes ==
    ASSUME BarInv, NEW b, layoutSubviews(b)
    PROVE  raised' \in BOOLEAN /\ indicator' \in 0..(MaxItems - 1) \cup {nil}
<1>1. raised' \in BOOLEAN
  BY DEF layoutSubviews
<1>2. indicator' \in {indicator, selectedIndex}
  BY DEF layoutSubviews
<1> QED
  BY <1>1, <1>2 DEF BarInv, TypeOK

\* New items show no button as selected, and leave the last button behind.
LEMMA SetItemsInv ==
    ASSUME BarInv, NEW b \in Seq(Width), Len(b) <= MaxItems, setItems(b)
    PROVE  BarInv'
<1> DEFINE Btn == [tag: 0..(MaxItems - 1), shown: BOOLEAN]
<1>1. /\ itemBtns' = b /\ selectedBtns' = {} /\ selectedIndex' = selectedIndex
      /\ contentOffset' = contentOffset /\ told' = told
      /\ lastSelectedBtn' = IF lastSelectedBtn = nil THEN nil
                            ELSE [lastSelectedBtn EXCEPT !.shown = FALSE]
  BY DEF setItems
<1>2. raised' \in BOOLEAN /\ indicator' \in 0..(MaxItems - 1) \cup {nil}
  BY LayoutTypes DEF setItems
<1>3. CASE lastSelectedBtn = nil
  <2>1. lastSelectedBtn' = nil
    BY <1>1, <1>3
  <2>2. TypeOK'
    BY <1>1, <1>2, <2>1 DEF BarInv, TypeOK
  <2> QED
    BY <1>1, <1>3, <2>1, <2>2 DEF BarInv, OneSelected, ToldOfLast
<1>4. CASE lastSelectedBtn # nil
  <2>1. lastSelectedBtn \in Btn
    BY <1>4 DEF BarInv, TypeOK
  <2>2. /\ lastSelectedBtn' \in Btn /\ lastSelectedBtn'.shown = FALSE
        /\ lastSelectedBtn'.tag = lastSelectedBtn.tag
    BY <1>1, <1>4, <2>1
  <2>3. lastSelectedBtn' # nil
    BY <2>2, SegmentAssumption
  <2>4. TypeOK'
    BY <1>1, <1>2, <2>2 DEF BarInv, TypeOK
  <2> QED
    BY <1>1, <2>2, <2>3, <2>4 DEF BarInv, OneSelected, ToldOfLast
<1> QED
  BY <1>3, <1>4

\* A configuration or a layout touches neither the selection nor what was told.
LEMMA RelayoutInv ==
    ASSUME BarInv, NEW b \in Seq(Width), Len(b) = Len(itemBtns), itemBtns' = b,
           layoutSubviews(b),
           UNCHANGED <<selectedBtns, lastSelectedBtn, selectedIndex, contentOffset, told>>
    PROVE  BarInv'
<1>1. raised' \in BOOLEAN /\ indicator' \in 0..(MaxItems - 1) \cup {nil}
  BY LayoutTypes
<1>2. TypeOK'
  BY <1>1 DEF BarInv, TypeOK, Index
<1> QED
  BY <1>2 DEF BarInv, OneSelected, ToldOfLast

\* A click deselects the button that is selected, selects its own and tells of it.
LEMMA ClickInv ==
    ASSUME BarInv, NEW i \in Index, btnClick(i), selectedIndex' \in {selectedIndex, i}
    PROVE  BarInv'
<1> DEFINE Btn == [tag: 0..(MaxItems - 1), shown: BOOLEAN]
           Tag == 0..(MaxItems - 1)
<1>1. /\ told' = [to |-> i, from |-> fromIndex] /\ itemBtns' = itemBtns
      /\ selectedBtns' = Deselected \cup {i} /\ raised' = raised
      /\ lastSelectedBtn' = [tag |-> i, shown |-> TRUE]
      /\ indicator' = i /\ contentOffset' = ScrollX(i)
  BY DEF btnClick
<1>2. i \in Tag /\ 0 \in Tag
  BY SegmentAssumption DEF BarInv, TypeOK, Index
<1>3. fromIndex \in Tag
  BY <1>2 DEF BarInv, TypeOK, fromIndex
<1>4. Deselected = {}
  BY DEF BarInv, OneSelected, Deselected
<1>5. ScrollX(i) \in Int
  BY ScrollShows DEF BarInv, TypeOK
<1>6. lastSelectedBtn' \in Btn /\ lastSelectedBtn' # nil
  <2>1. [tag |-> i, shown |-> TRUE] \in Btn
    BY <1>2
  <2>2. nil \notin Btn
    BY SegmentAssumption
  <2> HIDE DEF Btn
  <2> QED
    BY <1>1, <2>1, <2>2
<1>7. told' \in [to: Tag, from: Tag] /\ told'.to = i
  BY <1>1, <1>2, <1>3
<1>8. TypeOK'
  BY <1>1, <1>2, <1>4, <1>5, <1>6, <1>7 DEF BarInv, TypeOK, Index
<1> QED
  BY <1>1, <1>4, <1>6, <1>7, <1>8 DEF BarInv, OneSelected, ToldOfLast

\* BarInv is inductive.
LEMMA BarNextInv ==
    ASSUME BarInv, [Next]_vars
    PROVE  BarInv'
<1>1. CASE UNCHANGED vars
  BY <1>1 DEF BarInv, TypeOK, Index, OneSelected, ToldOfLast, vars
<1>2. ASSUME NEW n \in 1..MaxItems, NEW b \in [1..n -> Width],
             setItems(b) \/ updateSegmentConfig(b)
      PROVE  BarInv'
  <2>1. b \in Seq(Width) /\ Len(b) <= MaxItems
    BY SegmentAssumption
  <2> QED
    BY <1>2, <2>1, SetItemsInv, RelayoutInv DEF updateSegmentConfig
<1>3. CASE Layout
  BY <1>3, RelayoutInv DEF Layout, BarInv, TypeOK
<1>4. ASSUME NEW i \in 0..(MaxItems - 1), Tap(i) \/ setSelectedIndex(i)
      PROVE  BarInv'
  BY <1>4, ClickInv DEF Tap, setSelectedIndex
<1> QED
  BY <1>1, <1>2, <1>3, <1>4 DEF Next

----------------------------------------------------------------------------
(* The specification.                                                       *)

\* BarInv holds in every state.
THEOREM BarInvariance == Spec => []BarInv
<1>1. BarInv /\ [Next]_vars => BarInv'
  BY BarNextInv
<1> QED
  BY <1>1, BarInitInv, PTL DEF Spec

\* The buttons, the indices and what the delegate was told keep their types.
THEOREM BarTypes == Spec => []TypeOK
BY BarInvariance, PTL DEF BarInv

\* At most one button shows as selected, for any number of buttons and any mix of
\* taps, selectedIndex, new items and layouts.
THEOREM BarOneSelected == Spec => []OneSelected
BY BarInvariance, PTL DEF BarInv

\* A click leaves the whole clicked button in view: for any bar width, any number of
\* buttons and any widths that fit the bar.
THEOREM BarClickedIsVisible == Spec => ClickedIsVisible
<1>1. ASSUME BarInv, NEW i \in Index, Tap(i) \/ setSelectedIndex(i)
      PROVE  InView(i)'
  <2>1. itemBtns' = itemBtns /\ contentOffset' = ScrollX(i)
    BY <1>1 DEF Tap, setSelectedIndex, btnClick
  <2>2. itemBtns \in Seq(Width)
    BY <1>1 DEF BarInv, TypeOK
  <2>3. /\ ScrollX(i) <= btnX(itemBtns, i)
        /\ btnX(itemBtns, i) + itemBtns[i + 1] <= ScrollX(i) + BarWidth
    BY <2>2, ScrollShows
  <2>4. btnX(itemBtns, i)' = btnX(itemBtns, i)
    BY <2>1 DEF btnX, margin, TotalWidth
  <2> QED
    BY <2>1, <2>3, <2>4 DEF InView
<1>2. BarInv => [\A i \in Index : (Tap(i) \/ setSelectedIndex(i)) => InView(i)']_vars
  BY <1>1
<1> QED
  BY <1>2, BarInvariance, PTL DEF ClickedIsVisible

\* The fromIndex that the delegate is told is the toIndex it was told before, also
\* when the items were replaced or laid out again in between.
THEOREM BarFromIsPrevious == Spec => FromIsPrevious
<1>1. ASSUME BarInv, [Next]_vars, told' # told, told # nil
      PROVE  told'.from = told.to
  <2>1. PICK i \in 0..(MaxItems - 1) : btnClick(i)
    BY <1>1 DEF Next, setItems, updateSegmentConfig, Layout, Tap, setSelectedIndex, vars
  <2>2. told'.from = fromIndex
    BY <2>1 DEF btnClick
  <2> QED
    BY <1>1, <2>2 DEF BarInv, ToldOfLast, fromIndex
<1>2. BarInv /\ [Next]_vars => [told' # told /\ told # nil => told'.from = told.to]_vars
  BY <1>1
<1> QED
  BY <1>2, BarInvariance, PTL DEF Spec, FromIsPrevious
================================================================================
