CONSTANTS
  brand = brand
  login = login
  skills = skills
  work = work
  nowhere = nowhere
  Link <- Links
  PageLink = {brand, login}
  InPage = {skills, work}
  Menu = {login, skills, nowhere}
  Smooth = {login, skills, nowhere}
  Top <- Tops
  EarlyTop <- Early
  MaxScroll = 70
  Stops <- Resting
  Narrow = TRUE
  Keyboard = FALSE
  SniffRight = FALSE
  NoLink = NoLink
  NoScroll = NoScroll
SPECIFICATION Spec
\* One property at a time: TLC stops at the first that is violated.
INVARIANT NeverDead
\* INVARIANT BarRight
\* PROPERTY MenuYields
CHECK_DEADLOCK FALSE
