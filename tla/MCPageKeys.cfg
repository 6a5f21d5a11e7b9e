CONSTANTS
  brand = brand
  login = login
  skills = skills
  work = work
  nowhere = nowhere
  Link <- Links
  PageLink = {brand, login}
  InPage = {skills, work}
  Menu = {login, skills, nowhere}
  Smooth = {login, skills, nowhere}
  Top <- Tops
  EarlyTop <- Early
  MaxScroll = 70
  Stops <- Resting
  Narrow = TRUE
  Keyboard = TRUE
  SniffRight = FALSE
  NoLink = NoLink
  NoScroll = NoScroll
SPECIFICATION Spec
INVARIANTS
  LandsOnTarget
CHECK_DEADLOCK FALSE
