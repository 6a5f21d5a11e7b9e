-------------------------------- MODULE Page --------------------------------
(***************************************************************************)
(* The scripts of a page of the site, in a browser: src/resources/js.      *)
(*                                                                         *)
(* Every page (index.html:31-82) is covered by a preloader and ends with   *)
(* seven scripts.  The browser runs them in order; any of them may be lost *)
(* on the way.  They leave behind handlers: of the window's load and       *)
(* scroll events, of clicks on links, and of the document being ready.     *)
(* jQuery runs the handlers of one event in the order they were given, and *)
(* an exception in one of them keeps the later ones from running.          *)
(*                                                                         *)
(* The bar of every page links to other pages.  That a link may name an    *)
(* element of its own page is what the scripts are written for; none does  *)
(* today, and the model has both kinds, and links that name nothing.       *)
(*                                                                         *)
(* What the model leaves out: the appearance of boxes (wow.min.js), whose  *)
(* loss only ends custom.js on its last statement; the popups, because no  *)
(* page has an .image-popup (their setting up is here, because it can      *)
(* throw); horizontal scrolling.                                           *)
(***************************************************************************)
EXTENDS Integers, Sequences

CONSTANTS
  Link,         \* the links of the navigation bar and of #home
  PageLink,     \* those that name another page: "/", "/login", ...
  InPage,       \* those that name an element of this page
  Menu,         \* those in .navbar-collapse
  Smooth,       \* those of class smoothScroll
  Top,          \* where the element a link names is in the finished layout
  EarlyTop,     \* where it is while images are missing
  MaxScroll,    \* how far the window scrolls
  Stops,        \* positions the user, or a frame of a scroll, stops at
  Narrow,       \* the menu is collapsed behind its button
  Keyboard,     \* links are followed with the keyboard too
  SniffRight,   \* what localScroll takes for the scrolling element is it
  NoLink, NoScroll

ASSUME LinkAssumption ==
  /\ PageLink \subseteq Link /\ InPage \subseteq Link
  /\ PageLink \cap InPage = {}
  /\ Menu \subseteq Link /\ Smooth \subseteq Link
  /\ NoLink \notin Link
ASSUME LayoutAssumption ==
  /\ MaxScroll \in Nat
  /\ Stops \subseteq 0 .. MaxScroll
  /\ Top \in [InPage -> Nat] /\ EarlyTop \in [InPage -> Nat]
  /\ NoScroll \notin Int
ASSUME SettingAssumption ==
  Narrow \in BOOLEAN /\ Keyboard \in BOOLEAN /\ SniffRight \in BOOLEAN

VARIABLES
  parser,    \* the script the parser has come to
  came,      \* the scripts that came
  stage,     \* the document is being parsed, ready, or loaded
  images,    \* every image has come or failed
  cover,     \* the preloader: shown, fading, gone
  menu,      \* the collapsed menu: closed, opening, open, closing
  pos,       \* how far the window is scrolled
  anim,      \* where the running scroll ends, or NoScroll
  pending,   \* the browser owes a scroll event
  bar,       \* the look of the bar: untouched, clear, solid
  followed,  \* the link followed last, unless the user scrolled since
  here       \* the page has not been left

loading == <<parser, came, stage, images>>
scroll  == <<pos, anim, pending>>
vars    == <<loading, cover, menu, scroll, bar, followed, here>>

-----------------------------------------------------------------------------
(* The scripts *)

\* The scripts as the pages list them.
Order == <<"jquery", "bootstrap", "smoothscroll", "magnific", "options",
           "wow", "custom">>

\* Mutant: custom.js sets up the boxes on its first line in place of its last.
Bug_NeedsWow(s) ==
  CASE s = "custom" -> {"jquery", "wow"}
    [] s \in {"jquery", "wow"} -> {}
    [] OTHER -> {"jquery"}

\* A script that finds no jQuery throws before it has done anything.
Needs(s) == IF s \in {"jquery", "wow"} THEN {} ELSE {"jquery"}

\* A script has left its handlers, methods and callbacks behind.
Ran(s) == s \in came /\ Needs(s) \subseteq came

Script ==
  /\ parser <= Len(Order)
  /\ parser' = parser + 1
  /\ \/ UNCHANGED came                                \* the script is lost
     \/ came' = came \cup {Order[parser]}
  /\ UNCHANGED <<stage, images, cover, menu, scroll, bar, followed, here>>

\* The callbacks of "ready" run in the order of the scripts.  That of
\* magnific-popup-options calls a method the plugin adds to jQuery, on a page
\* without popups too.
PopupsThrow == Ran("options") /\ ~Ran("magnific")

LocalBound == stage # "parsing" /\ Ran("smoothscroll")
OursBound  == stage # "parsing" /\ Ran("custom") /\ ~PopupsThrow

Ready ==
  /\ stage = "parsing" /\ parser > Len(Order)
  /\ stage' = "ready"
  /\ UNCHANGED <<parser, came, images, cover, menu, scroll, bar, followed, here>>

ImagesEnd ==
  /\ ~images
  /\ images' = TRUE
  /\ UNCHANGED <<parser, came, stage, cover, menu, scroll, bar, followed, here>>

\* Mutant: the preloader goes when the document is ready.
Bug_LoadDueReady == stage = "ready"

\* The window is loaded when the document is ready and nothing is missing.
LoadDue == stage = "ready" /\ images

\* custom.js gives this handler as it runs, not in a callback.
LoadEvent ==
  /\ LoadDue
  /\ stage' = "loaded"
  /\ cover' = IF Ran("custom") THEN "fading" ELSE cover
  /\ UNCHANGED <<parser, came, images, menu, scroll, bar, followed, here>>

\* fadeOut ends by taking the element out of the page.
Faded ==
  /\ cover = "fading"
  /\ cover' = "gone"
  /\ UNCHANGED <<loading, menu, scroll, bar, followed, here>>

-----------------------------------------------------------------------------
(* Scrolling and the bar *)

\* The browser keeps the window inside the document.
Clip(y) == IF y < 0 THEN 0 ELSE IF y > MaxScroll THEN MaxScroll ELSE y

Place(y) == pos' = y /\ pending' = (pending \/ y # pos)

\* Frames of a scroll overrule the user, and the last one ends where the
\* scroll was meant to end.
Frame ==
  /\ anim # NoScroll
  /\ \E y \in Stops : Place(y)
  /\ UNCHANGED <<loading, cover, menu, anim, bar, followed, here>>

LastFrame ==
  /\ anim # NoScroll
  /\ Place(Clip(anim))
  /\ anim' = NoScroll
  /\ UNCHANGED <<loading, cover, menu, bar, followed, here>>

\* The user, or the browser when it restores the position of a page.  The
\* preloader does not keep the window from being scrolled.
Wheel ==
  /\ here
  /\ \E y \in Stops \ {pos} : Place(y)
  /\ followed' = IF anim = NoScroll THEN NoLink ELSE followed
  /\ UNCHANGED <<loading, cover, menu, anim, bar, here>>

\* Mutant: the class is only ever added.
Bug_BarOnlyAdds(y) == IF y > 50 THEN "solid" ELSE bar

\* The bar is fixed: its offset in the document is the window's position.
BarFor(y) == IF y > 50 THEN "solid" ELSE "clear"

ScrollEvent ==
  /\ pending
  /\ pending' = FALSE
  /\ bar' = IF Ran("custom") THEN BarFor(pos) ELSE bar
  /\ UNCHANGED <<loading, cover, menu, pos, anim, followed, here>>

-----------------------------------------------------------------------------
(* The menu *)

\* Bootstrap's collapse: nothing is begun while a transition runs.
Hide(m)   == IF m = "open" THEN "closing" ELSE m
Toggle(m) == IF m = "closed" THEN "opening" ELSE Hide(m)

Button ==
  /\ here /\ Narrow /\ Ran("bootstrap")
  /\ cover = "gone" \/ Keyboard
  /\ menu' = Toggle(menu)
  /\ UNCHANGED <<loading, cover, scroll, bar, followed, here>>

TransitionEnd ==
  /\ \/ menu = "opening" /\ menu' = "open"
     \/ menu = "closing" /\ menu' = "closed"
  /\ UNCHANGED <<loading, cover, scroll, bar, followed, here>>

-----------------------------------------------------------------------------
(* Following a link *)

\* The preloader lies over the whole page, and a closed menu over its links.
Reachable(l) ==
  /\ here
  /\ cover = "gone" \/ Keyboard
  /\ l \in Menu /\ Narrow => menu # "closed"

TopNow(l) == IF images THEN Top[l] ELSE EarlyTop[l]

\* The first handler of a menu link closes the menu; it is in place as soon
\* as custom.js has run, and throws when there is no collapse to call.
MenuHandler(l) == l \in Menu /\ Ran("custom")
Aborted(l)     == MenuHandler(l) /\ ~Ran("bootstrap")

\* The second is localScroll's, on links of its class with a target here.
LocalRuns(l) == LocalBound /\ l \in Smooth \cap InPage /\ ~Aborted(l)

\* The third stops what runs, looks the target up, and throws when it finds
\* none, or when the link's href is no selector, before it has kept the
\* browser from following the link.
OursRuns(l)  == OursBound /\ ~Aborted(l)

\* Mutant: the default is prevented before the target is looked up.
Bug_PreventedFirst(l) == LocalRuns(l) \/ OursRuns(l)

Prevented(l) == LocalRuns(l) \/ (OursRuns(l) /\ l \in InPage)

\* scrollTo animates the element it takes for the scrolling one; where that is
\* another, nothing of the window moves.
ScrollTo(l) == IF SniffRight THEN TopNow(l) ELSE anim

AnimAfter(l) ==
  IF OursRuns(l)
    THEN IF l \in InPage THEN TopNow(l) - 49 ELSE NoScroll
    ELSE IF LocalRuns(l) THEN ScrollTo(l) ELSE anim

\* What the browser does with a link no handler keeps it from following.
Follow(l) ==
  \/ l \in PageLink /\ here' = FALSE /\ UNCHANGED <<pos, pending>>
  \/ l \in InPage /\ Place(Clip(TopNow(l))) /\ UNCHANGED here
  \/ l \notin PageLink \cup InPage /\ UNCHANGED <<pos, pending, here>>

Click(l) ==
  /\ Reachable(l)
  /\ menu' = IF MenuHandler(l) /\ ~Aborted(l) THEN Hide(menu) ELSE menu
  /\ anim' = AnimAfter(l)
  /\ IF Prevented(l) THEN UNCHANGED <<pos, pending, here>> ELSE Follow(l)
  /\ followed' = l
  /\ UNCHANGED <<loading, cover, bar>>

-----------------------------------------------------------------------------
Init ==
  /\ parser = 1 /\ came = {} /\ stage = "parsing" /\ images = FALSE
  /\ cover = "shown" /\ menu = "closed"
  /\ pos = 0 /\ anim = NoScroll /\ pending = FALSE
  /\ bar = "untouched" /\ followed = NoLink /\ here = TRUE

\* A page that is left takes no step.
Next ==
  /\ here
  /\ \/ Script \/ Ready \/ ImagesEnd \/ LoadEvent \/ Faded
     \/ Frame \/ LastFrame \/ Wheel \/ ScrollEvent
     \/ Button \/ TransitionEnd
     \/ \E l \in Link : Click(l)

\* Every request ends, with an answer or an error; the browser dispatches
\* events and timers.  The user owes nothing.
Fairness ==
  /\ WF_vars(here /\ Script)    /\ WF_vars(here /\ Ready)
  /\ WF_vars(here /\ ImagesEnd) /\ WF_vars(here /\ LoadEvent)
  /\ WF_vars(here /\ Faded)     /\ WF_vars(here /\ LastFrame)
  /\ WF_vars(here /\ ScrollEvent)

Spec == Init /\ [][Next]_vars /\ Fairness
-----------------------------------------------------------------------------
(* Properties *)

TypeOK ==
  /\ parser \in 1 .. Len(Order) + 1
  /\ came \subseteq {Order[i] : i \in 1 .. Len(Order)}
  /\ stage \in {"parsing", "ready", "loaded"} /\ images \in BOOLEAN
  /\ cover \in {"shown", "fading", "gone"}
  /\ menu \in {"closed", "opening", "open", "closing"}
  /\ pos \in 0 .. MaxScroll /\ anim \in Int \cup {NoScroll}
  /\ pending \in BOOLEAN /\ bar \in {"untouched", "clear", "solid"}
  /\ followed \in Link \cup {NoLink} /\ here \in BOOLEAN

\* Where a link that names an element of the page leads: the element, below
\* the bar that is fixed over the top of the window.
Landing(l) == Clip(Top[l] - 49)

\* The scripts without which a link does not lead to its Landing, although
\* nothing in custom.js's handler of the click (lines 26-34) uses them.
Whole == Ran("bootstrap") /\ Ran("magnific")

\* A scroll is on its way to the landing of the link followed last, or has
\* come there and nothing has moved the window since.
Aimed(l) == \/ anim = Top[l] - 49
            \/ anim = NoScroll /\ pos = Landing(l)

\* The preloader is what ties the links to the rest: without the keyboard no
\* link is followed before every script has run and every image has its
\* place.  The invariant the proofs of PageProofs go by.
IInv ==
  /\ TypeOK
  /\ stage # "parsing" => parser > Len(Order)
  /\ stage = "loaded" => images
  /\ cover # "shown" => stage = "loaded" /\ Ran("custom")
  /\ bar # "untouched" => Ran("custom")
  /\ followed # NoLink => cover = "gone" \/ Keyboard
  /\ ~Keyboard /\ Whole => \A l \in InPage : followed = l => Aimed(l)

\* A link to another page is never kept from leading there: custom.js:26-34
\* throws on its href before it prevents the default, whatever scripts were
\* lost and whenever the link is followed.
PageLinksLeave == followed \in PageLink => ~here

\* Once the scroll after a click has ended, the window shows the element of
\* the link that was followed last, below the bar (custom.js:27-32), also
\* when another link was followed, or the user scrolled, on the way, and when
\* smoothscroll.js answers the same click.
LandsOnTarget ==
  Whole => \A l \in InPage :
             followed = l /\ anim = NoScroll => pos = Landing(l)

\* When every scroll event has been handled the bar is solid exactly if the
\* window is scrolled past 50 (custom.js:16-22).
BarFollows ==
  bar # "untouched" /\ ~pending => (bar = "solid" <=> pos > 50)

\* The preloader goes away when jQuery and custom.js came, whatever other
\* script, or image, was lost (custom.js:6-8).
Uncovers == <>[]({"jquery", "custom"} \subseteq came => cover = "gone" \/ ~here)

(* What does not hold; the README's list of disagreements says why. *)

\* A link followed in the collapsed menu closes the menu (custom.js:12-14).
MenuYields ==
  [][\A l \in Menu : followed' = l /\ followed # l /\ Whole
       => menu' \in {"closed", "closing"}]_vars

\* A link whose default was prevented moves the window in some way.
NeverDead ==
  \A l \in InPage : followed = l /\ anim = NoScroll
                     => pos \in {Landing(l), Clip(Top[l])}

\* The bar is right also before the first event its handler saw.
BarRight ==
  Ran("custom") /\ ~pending => (bar = "solid" <=> pos > 50)
=============================================================================
