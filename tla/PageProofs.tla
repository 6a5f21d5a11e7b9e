----------------------------- MODULE PageProofs ------------------------------
(***************************************************************************)
(* What the scripts of a page do with links and with the bar, for any set  *)
(* of links, any layout and any loss of scripts.                           *)
(***************************************************************************)
EXTENDS Page, TLAPS

\* The browser's clipping gives a position in the document, and the same one
\* for a position that is in it.
LEMMA Clipped ==
  ASSUME NEW y \in Int
  PROVE  Clip(y) \in 0 .. MaxScroll
BY LayoutAssumption DEF Clip

LEMMA Scripts == Len(Order) = 7
BY DEF Order

LEMMA Heights ==
  ASSUME NEW l \in InPage
  PROVE  Top[l] \in Int /\ TopNow(l) \in Int /\ Landing(l) \in 0 .. MaxScroll
BY LayoutAssumption, Clipped DEF TopNow, Landing

\* What a step that moves the window by Place does.
LEMMA Placed ==
  ASSUME TypeOK, NEW y \in 0 .. MaxScroll, Place(y)
  PROVE  pos' \in 0 .. MaxScroll /\ pending' \in BOOLEAN /\ (~pending' => pos' = pos)
BY DEF TypeOK, Place

LEMMA InitIInv == Init => IInv
<1> SUFFICES ASSUME Init PROVE IInv
  OBVIOUS
<1>1. TypeOK
  <2>1. parser \in 1 .. Len(Order) + 1 /\ pos \in 0 .. MaxScroll
    BY LayoutAssumption, Scripts DEF Init
  <2>2. came \subseteq {Order[i] : i \in 1 .. Len(Order)}
    BY DEF Init
  <2>3. QED
    BY <2>1, <2>2 DEF Init, TypeOK
<1>2. \A l \in InPage : followed # l
  BY LinkAssumption DEF Init
<1>3. QED
  BY <1>1, <1>2 DEF Init, IInv

-----------------------------------------------------------------------------
(* The invariant is kept by every action. *)

LEMMA ScriptKeeps == IInv /\ Script => IInv'
<1> SUFFICES ASSUME IInv, Script PROVE IInv'
  OBVIOUS
<1> USE DEF IInv, TypeOK, Script, scroll
<1>1. stage = "parsing" /\ cover = "shown"
  BY Scripts
<1>2. TypeOK'
  <2>1. Order[parser] \in {Order[i] : i \in 1 .. Len(Order)}
    BY Scripts
  <2>2. QED
    BY <2>1, Scripts
<1>3. /\ ~Keyboard => followed' = NoLink
      /\ Ran("custom") => Ran("custom")'
  BY <1>1 DEF Ran, Needs
<1>4. ~Keyboard => \A l \in InPage : followed' # l
  BY <1>3, LinkAssumption
<1>5. QED
  BY <1>1, <1>2, <1>3, <1>4

LEMMA LoadingKeeps == IInv /\ (Ready \/ ImagesEnd \/ LoadEvent \/ Faded) => IInv'
<1> SUFFICES ASSUME IInv, Ready \/ ImagesEnd \/ LoadEvent \/ Faded PROVE IInv'
  OBVIOUS
<1> USE DEF IInv, TypeOK, Aimed, Whole, Ran, Needs, scroll, loading
<1>1. CASE Ready
  BY <1>1 DEF Ready
<1>2. CASE ImagesEnd
  BY <1>2 DEF ImagesEnd
<1>3. CASE LoadEvent
  BY <1>3 DEF LoadEvent, LoadDue
<1>4. CASE Faded
  BY <1>4 DEF Faded
<1>5. QED
  BY <1>1, <1>2, <1>3, <1>4

LEMMA ScrollKeeps == IInv /\ (Frame \/ LastFrame \/ Wheel \/ ScrollEvent) => IInv'
<1> SUFFICES ASSUME IInv, Frame \/ LastFrame \/ Wheel \/ ScrollEvent PROVE IInv'
  OBVIOUS
<1>t. TypeOK /\ (Whole' <=> Whole)
  BY DEF IInv, Frame, LastFrame, Wheel, ScrollEvent, loading, Whole, Ran, Needs
<1> USE DEF IInv, loading, Ran, Needs
<1>1. CASE Frame
  <2> PICK y \in Stops : Place(y)
    BY <1>1 DEF Frame
  <2>1. TypeOK'
    BY <1>1, <1>t, Placed, LayoutAssumption DEF Frame, TypeOK
  <2>2. \A l \in InPage : Aimed(l) => Aimed(l)'
    BY <1>1 DEF Frame, Aimed
  <2>3. QED
    BY <1>1, <1>t, <2>1, <2>2 DEF Frame
<1>2. CASE LastFrame
  <2>1. anim \in Int
    BY <1>2, <1>t DEF LastFrame, TypeOK
  <2>2. TypeOK'
    BY <1>2, <1>t, <2>1, Clipped, Placed DEF LastFrame, TypeOK
  <2>3. \A l \in InPage : Aimed(l) => Aimed(l)'
    BY <1>2, <2>1 DEF LastFrame, Aimed, Landing, Place
  <2>4. QED
    BY <1>2, <1>t, <2>2, <2>3 DEF LastFrame
<1>3. CASE Wheel
  <2> PICK y \in Stops : Place(y)
    BY <1>3 DEF Wheel
  <2>1. TypeOK'
    BY <1>3, <1>t, Placed, LayoutAssumption DEF Wheel, TypeOK
  <2>2. \A l \in InPage : followed' = l => followed = l /\ (Aimed(l) => Aimed(l)')
    BY <1>3, LinkAssumption DEF Wheel, Aimed
  <2>3. QED
    BY <1>3, <1>t, <2>1, <2>2 DEF Wheel
<1>4. CASE ScrollEvent
  <2>1. TypeOK'
    BY <1>4 DEF ScrollEvent, TypeOK, BarFor
  <2>2. QED
    BY <1>4, <1>t, <2>1 DEF ScrollEvent, Aimed
<1>5. QED
  BY <1>1, <1>2, <1>3, <1>4

LEMMA MenuKeeps == IInv /\ (Button \/ TransitionEnd) => IInv'
<1> SUFFICES ASSUME IInv, Button \/ TransitionEnd PROVE IInv'
  OBVIOUS
<1> USE DEF IInv, TypeOK, Aimed, Whole, Ran, Needs, scroll, loading
<1>1. CASE Button
  BY <1>1 DEF Button, Toggle, Hide
<1>2. CASE TransitionEnd
  BY <1>2 DEF TransitionEnd
<1>3. QED
  BY <1>1, <1>2

\* A link followed without the keyboard finds every script at its place: the
\* preloader has gone, so the window is loaded, and nothing threw.
LEMMA OursThen ==
  ASSUME IInv, ~Keyboard, Whole, NEW l \in InPage, Reachable(l)
  PROVE  OursRuns(l) /\ TopNow(l) = Top[l]
BY DEF IInv, Whole, Reachable, OursRuns, OursBound, PopupsThrow, Aborted, TopNow

LEMMA ClickKeeps == ASSUME NEW l \in Link PROVE IInv /\ Click(l) => IInv'
<1> SUFFICES ASSUME IInv, Click(l) PROVE IInv'
  OBVIOUS
<1>t. TypeOK /\ UNCHANGED <<loading, cover, bar>>
  BY DEF IInv, Click
<1>1. /\ pos' \in 0 .. MaxScroll
      /\ pending' \in BOOLEAN /\ here' \in BOOLEAN
  <2>1. CASE Prevented(l)
    BY <2>1, <1>t DEF Click, TypeOK
  <2>2. CASE ~Prevented(l) /\ l \in InPage
    <3>1. Clip(TopNow(l)) \in 0 .. MaxScroll
      BY <2>2, Heights, Clipped
    <3>2. Place(Clip(TopNow(l))) /\ UNCHANGED here
      BY <2>2, LinkAssumption DEF Click, Follow
    <3>3. QED
      BY <1>t, <3>1, <3>2, Placed DEF TypeOK
  <2>3. CASE ~Prevented(l) /\ l \notin InPage
    BY <2>3, <1>t DEF Click, Follow, TypeOK
  <2>4. QED
    BY <2>1, <2>2, <2>3
<1>2. anim' \in Int \cup {NoScroll}
  <2>1. l \in InPage => TopNow(l) \in Int
    BY Heights
  <2>2. LocalRuns(l) => l \in InPage
    BY DEF LocalRuns
  <2>3. QED
    BY <1>t, <2>1, <2>2 DEF Click, AnimAfter, ScrollTo, TypeOK
<1>3. menu' \in {"closed", "opening", "open", "closing"}
  BY <1>t DEF Click, Hide, TypeOK
<1>4. TypeOK'
  BY <1>t, <1>1, <1>2, <1>3 DEF TypeOK, loading, Click
<1>5. followed' = l /\ (cover = "gone" \/ Keyboard)
  BY DEF Click, Reachable
<1>6. ~Keyboard /\ Whole /\ l \in InPage => anim' = Top[l] - 49
  BY OursThen DEF Click, AnimAfter
<1>7. ~Keyboard /\ Whole' => \A m \in InPage : followed' = m => Aimed(m)'
  BY <1>t, <1>5, <1>6 DEF Aimed, Whole, Ran, Needs, loading
<1>8. QED
  BY <1>t, <1>4, <1>5, <1>7 DEF IInv, loading, Ran, Needs

-----------------------------------------------------------------------------
(* Theorems *)

\* The invariant: links are followed when the page is complete, and the scroll
\* that follows is on its way to where the link leads (custom.js:1-40).
THEOREM PageSound == Spec => []IInv
<1>1. Init => IInv
  BY InitIInv
<1>2. IInv /\ [Next]_vars => IInv'
  <2> SUFFICES ASSUME IInv, [Next]_vars PROVE IInv'
    OBVIOUS
  <2>1. CASE UNCHANGED vars
    BY <2>1 DEF vars, loading, scroll, IInv, TypeOK, Aimed, Whole, Ran, Needs
  <2>2. CASE Next
    BY <2>2, ScriptKeeps, LoadingKeeps, ScrollKeeps, MenuKeeps, ClickKeeps DEF Next
  <2>3. QED
    BY <2>1, <2>2
<1>3. QED
  BY <1>1, <1>2, PTL DEF Spec

\* Links to other pages always lead there, because custom.js:29-31 throws
\* before it comes to preventDefault on line 32.
THEOREM LinksLeave == Spec => []PageLinksLeave
<1>1. Init => PageLinksLeave
  BY LinkAssumption DEF Init, PageLinksLeave
<1>2. PageLinksLeave /\ [Next]_vars => PageLinksLeave'
  <2> SUFFICES ASSUME PageLinksLeave, [Next]_vars PROVE PageLinksLeave'
    OBVIOUS
  <2>1. ASSUME NEW l \in Link, Click(l) PROVE PageLinksLeave'
    <3>1. CASE l \in PageLink
      BY <2>1, <3>1, LinkAssumption
      DEF Click, Prevented, LocalRuns, Follow, PageLinksLeave
    <3>2. CASE l \notin PageLink
      BY <2>1, <3>2 DEF Click, PageLinksLeave
    <3>3. QED
      BY <3>1, <3>2
  <2>2. CASE Wheel
    BY <2>2, LinkAssumption DEF Wheel, PageLinksLeave
  <2>3. CASE UNCHANGED <<followed, here>>
    BY <2>3 DEF PageLinksLeave
  <2>4. QED
    BY <2>1, <2>2, <2>3
    DEF Next, vars, Script, Ready, ImagesEnd, LoadEvent, Faded, Frame,
        LastFrame, ScrollEvent, Button, TransitionEnd
<1>3. QED
  BY <1>1, <1>2, PTL DEF Spec

\* A scroll that has ended shows the element of the link followed last, below
\* the bar, for every layout (custom.js:27-32), on a page used without the
\* keyboard.
THEOREM Lands ==
  ASSUME ~Keyboard
  PROVE  Spec => []LandsOnTarget
<1>1. IInv => LandsOnTarget
  BY Heights, LayoutAssumption DEF IInv, LandsOnTarget, Aimed
<1>2. QED
  BY <1>1, PageSound, PTL

\* The bar agrees with the window when no scroll event is owed
\* (custom.js:16-22).
THEOREM BarExact == Spec => []BarFollows
<1>1. Init => BarFollows
  BY DEF Init, BarFollows
<1>2. IInv /\ BarFollows /\ [Next]_vars => BarFollows'
  <2> SUFFICES ASSUME IInv, BarFollows, [Next]_vars PROVE BarFollows'
    OBVIOUS
  <2>1. ASSUME NEW y, Place(y), UNCHANGED bar PROVE BarFollows'
    BY <2>1 DEF Place, BarFollows
  <2>2. ASSUME UNCHANGED <<pos, pending, bar>> PROVE BarFollows'
    BY <2>2 DEF BarFollows
  <2>3. CASE ScrollEvent
    BY <2>3 DEF ScrollEvent, BarFor, BarFollows, IInv, TypeOK
  <2>4. ASSUME NEW l \in Link, Click(l) PROVE BarFollows'
    BY <2>1, <2>2, <2>4 DEF Click, Follow
  <2>5. CASE Frame \/ LastFrame \/ Wheel
    BY <2>1, <2>5 DEF Frame, LastFrame, Wheel
  <2>6. CASE UNCHANGED vars
    BY <2>2, <2>6 DEF vars, scroll
  <2>7. CASE Script \/ Ready \/ ImagesEnd \/ LoadEvent \/ Faded \/ Button \/ TransitionEnd
    BY <2>2, <2>7
    DEF Script, Ready, ImagesEnd, LoadEvent, Faded, Button, TransitionEnd, scroll
  <2>8. QED
    BY <2>3, <2>4, <2>5, <2>6, <2>7 DEF Next
<1>3. QED
  BY <1>1, <1>2, PageSound, PTL DEF Spec
=============================================================================
