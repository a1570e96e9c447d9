----------------------------- MODULE ZFUISegmentBar -----------------------------
(****************************************************************************)
(* ZFUISegmentBar: a row of buttons in a scroll view, one of which is       *)
(* selected by a tap or through selectedIndex, with an indicator under it.  *)
(*                                                                          *)
(* Everything runs on the main thread.  UIKit is outside the repository:    *)
(* it sizes a button to its title (a width from Width) and lays the bar out *)
(* whenever it likes.  Indices count from 0, as in the code.                *)
(****************************************************************************)
EXTENDS Integers, Sequences

CONSTANTS
    Width,      \* the widths that sizeToFit gives to buttons
    BarWidth,   \* the width of the bar and of its scroll view
    MaxItems,   \* bound: the number of items of a bar
    nil

ASSUME SegmentAssumption ==
    /\ Width \subseteq Nat \ {0} /\ BarWidth \in Nat
    /\ \A w \in Width : w <= BarWidth
    /\ MaxItems \in Nat \ {0}
    /\ nil \notin [tag: 0..(MaxItems - 1), shown: BOOLEAN]

VARIABLES
    itemBtns,        \* the widths of the buttons
    selectedBtns,    \* the indices of the buttons that show as selected
    lastSelectedBtn, \* the tag of the button clicked last, and whether it is one of
                     \* itemBtns; nil before the first click
    selectedIndex,   \* the property
    indicator,       \* the index of the button the indicator is under, or nil
    contentOffset,   \* where the scroll view was last told to scroll
    told,            \* toIndex and fromIndex of the delegate's last call, or nil
    raised           \* the array was read out of its bounds

vars == <<itemBtns, selectedBtns, lastSelectedBtn, selectedIndex, indicator,
          contentOffset, told, raised>>

Index == 0..(Len(itemBtns) - 1)

----------------------------------------------------------------------------
(* Layout.                                                                  *)

MinMargin == 30

\* The sum of the first n widths.
TotalWidth(btns) ==
    LET total[n \in 0..Len(btns)] == IF n = 0 THEN 0 ELSE total[n - 1] + btns[n]
    IN  total

margin(btns) ==
    LET m == (BarWidth - TotalWidth(btns)[Len(btns)]) \div (Len(btns) + 1)
    IN  IF m < MinMargin THEN MinMargin ELSE m

\* The left edge of the button with an index; for the number of buttons, the width
\* of the content.
btnX(btns, i) == TotalWidth(btns)[i] + i * margin(btns)

contentWidth(btns) == btnX(btns, Len(btns))

centerX(btns, i) == btnX(btns, i) + btns[i + 1] \div 2

\* The indicator goes under itemBtns[selectedIndex], unless there are no buttons.
layoutSubviews(btns) ==
    /\ raised' = (btns # <<>> /\ selectedIndex >= Len(btns))
    /\ indicator' = IF btns = <<>> \/ selectedIndex >= Len(btns)
                    THEN indicator ELSE selectedIndex

----------------------------------------------------------------------------
(* Operations.                                                              *)

\* Mutant of setItems: the old buttons stay in the content view.
setItemsKeepsOld(btns) ==
    /\ itemBtns' = btns
    /\ layoutSubviews(btns)
    /\ UNCHANGED <<selectedBtns, lastSelectedBtn, selectedIndex, contentOffset, told>>

\* New buttons replace the old ones; neither selectedIndex nor the reference to the
\* button clicked last is reset.  The bar is laid out at once.
setItems(btns) ==
    /\ itemBtns' = btns
    /\ selectedBtns' = {}
    /\ lastSelectedBtn' = IF lastSelectedBtn = nil THEN nil
                          ELSE [lastSelectedBtn EXCEPT !.shown = FALSE]
    /\ layoutSubviews(btns)
    /\ UNCHANGED <<selectedIndex, contentOffset, told>>

\* A new configuration: its font gives the buttons other widths, and then its
\* itemDatas are set, which with none is only a layout (with some it is setItems).
updateSegmentConfig(btns) ==
    /\ Len(btns) = Len(itemBtns)
    /\ itemBtns' = btns
    /\ layoutSubviews(btns)
    /\ UNCHANGED <<selectedBtns, lastSelectedBtn, selectedIndex, contentOffset, told>>

\* setItems: with nil or no items is only a layout; and UIKit may lay the bar out
\* at any time.
Layout ==
    /\ layoutSubviews(itemBtns)
    /\ UNCHANGED <<itemBtns, selectedBtns, lastSelectedBtn, selectedIndex,
                   contentOffset, told>>

\* Mutant of ScrollX: scrolls to the end unless the button is at the start.
ScrollXToEnd(i) ==
    IF centerX(itemBtns, i) < BarWidth \div 2 THEN 0
    ELSE contentWidth(itemBtns) - BarWidth

\* Centre the button, but not left of the first one nor right of the last one.
ScrollX(i) ==
    LET centred == centerX(itemBtns, i) - BarWidth \div 2
        left    == IF centred < 0 THEN 0 ELSE centred
        last    == contentWidth(itemBtns) - BarWidth
    IN  IF left > last THEN last ELSE left

\* Mutant of Deselected: the button selected before stays selected.
DeselectedForgotten == selectedBtns

Deselected ==
    IF lastSelectedBtn # nil /\ lastSelectedBtn.shown
    THEN selectedBtns \ {lastSelectedBtn.tag} ELSE selectedBtns

\* Mutant of fromIndex: the property, which a tap does not set.
fromIndexProperty == selectedIndex

\* The tag of nil is 0.
fromIndex == IF lastSelectedBtn = nil THEN 0 ELSE lastSelectedBtn.tag

\* The delegate hears of the click before anything changes.
btnClick(i) ==
    /\ told' = [to |-> i, from |-> fromIndex]
    /\ selectedBtns' = Deselected \cup {i}
    /\ lastSelectedBtn' = [tag |-> i, shown |-> TRUE]
    /\ indicator' = i
    /\ contentOffset' = ScrollX(i)
    /\ UNCHANGED <<itemBtns, raised>>

Tap(i) == i \in Index /\ btnClick(i) /\ UNCHANGED selectedIndex

setSelectedIndex(i) == i \in Index /\ selectedIndex' = i /\ btnClick(i)

----------------------------------------------------------------------------

Init ==
    /\ itemBtns = <<>> /\ selectedBtns = {} /\ lastSelectedBtn = nil
    /\ selectedIndex = 0 /\ indicator = nil /\ contentOffset = 0
    /\ told = nil /\ raised = FALSE

\* An exception ends the program.
Next ==
    /\ ~raised
    /\ \/ \E n \in 1..MaxItems : \E btns \in [1..n -> Width] :
            setItems(btns) \/ updateSegmentConfig(btns)
       \/ Layout
       \/ \E i \in 0..(MaxItems - 1) : Tap(i) \/ setSelectedIndex(i)

Spec == Init /\ [][Next]_vars

----------------------------------------------------------------------------
(* Properties.                                                              *)

\* The buttons, the indices and what the delegate was told have their types.
TypeOK ==
    /\ itemBtns \in Seq(Width) /\ Len(itemBtns) <= MaxItems
    /\ selectedBtns \subseteq Index
    /\ lastSelectedBtn \in [tag: 0..(MaxItems - 1), shown: BOOLEAN] \cup {nil}
    /\ selectedIndex \in 0..(MaxItems - 1)
    /\ indicator \in 0..(MaxItems - 1) \cup {nil}
    /\ contentOffset \in Int
    /\ told \in [to: 0..(MaxItems - 1), from: 0..(MaxItems - 1)] \cup {nil}
    /\ raised \in BOOLEAN

\* At most one button shows as selected, through any mix of taps, selectedIndex and
\* new items: btnClick: deselects exactly the button it selected before, although
\* that button may have been replaced since.
OneSelected ==
    selectedBtns = IF lastSelectedBtn # nil /\ lastSelectedBtn.shown
                   THEN {lastSelectedBtn.tag} ELSE {}

InView(i) ==
    /\ contentOffset <= btnX(itemBtns, i)
    /\ btnX(itemBtns, i) + itemBtns[i + 1] <= contentOffset + BarWidth

\* btnClick: scrolls the clicked button into view, whole, whatever the number and
\* the widths of the buttons.
ClickedIsVisible ==
    [][\A i \in Index : (Tap(i) \/ setSelectedIndex(i)) => InView(i)']_vars

\* The delegate's fromIndex is the index it was told of before, "the index clicked
\* last", also when the items changed in between.
FromIsPrevious == [][told' # told /\ told # nil => told'.from = told.to]_vars

=============================================================================
