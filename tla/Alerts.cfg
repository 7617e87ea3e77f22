SPECIFICATION FairSpec
CONSTANTS
  r1 = r1
  h1 = h1
  h2 = h2
  north = north
  south = south
  west = west
  club = club
  ana = ana
  luz = luz
  mia = mia
  NULL = NULL
  Reports = {r1}
  Handlers = {h1, h2}
  Customers = {north, south, west, club}
  Governments <- MCGovernments
  Active = {north, south}
  Equipped = {north, south, club}
  Districts = {"norte", "sur", "oeste"}
  DistrictOf <- MCDistrictOf
  Locations = {"plaza", "puerto"}
  AlertTypes <- MCTypes
  Lists <- MCLists
  Tracking = {"kidnapping"}
  Quiet = {"arrived-well"}
  Users = {ana, luz, mia}
  CustomerOf <- MCCustomerOf
  Enabled = {ana, luz, mia}
  Numbered = {luz}
  Contacts <- MCContacts
  Staff <- MCStaff
  Grants <- MCGrants
  Moves <- MCMoves
  States = {"Emitida", "Vecinal", "Atendida", "Cerrada"}
  Bodies <- MCBodies
  Asks <- MCAsks
INVARIANT RoutedByPlace
INVARIANT AuthorRefusedOnlyAway
INVARIANT AlertMirrorAgrees
PROPERTY ChangedByItsMonitors
PROPERTY AlertEventuallyTold
