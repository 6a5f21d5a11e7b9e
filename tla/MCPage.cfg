CONSTANTS
  brand = brand
  login = login
  skills = skills
  work = work
  nowhere = nowhere
  Link <- Links
  PageLink = {brand, login}
  InPage = {skills, work}
  Menu = {login, skills, nowhere}
  Smooth = {login, skills, nowhere}
  Top <- Tops
  EarlyTop <- Early
  MaxScroll = 70
  Stops <- Resting
  Narrow = TRUE
  Keyboard = FALSE
  SniffRight = FALSE
  NoLink = NoLink
  NoScroll = NoScroll
SPECIFICATION Spec
INVARIANTS
  PageLinksLeave
  LandsOnTarget
  BarFollows
PROPERTIES
  Uncovers
CHECK_DEADLOCK FALSE
