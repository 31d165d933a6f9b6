CONSTANTS
  d1 = d1
  d2 = d2
  kitchen = kitchen
  bell = bell
  pose = pose
  sKitchen = sKitchen
  default1 = default1
  default2 = default2
  a1 = a1
  a2 = a2
  r1 = r1
  r2 = r2
  Devices = {d1, d2}
  Addrs = {a1, a2}
  NoName = NoName
  Names = {NoName, kitchen, bell, pose}
  NoSlug = NoSlug
  Slugs = {sKitchen, default1, default2}
  SlugFormat <- MCSlugFormat
  DefaultSlug <- MCDefaultSlug
  NoDevice = NoDevice
  Reports = {r1, r2}
  SourceOf <- MCSourceOf
  NoReport = NoReport
  MaxLives <- MCMaxLives

SPECIFICATION Spec

INVARIANTS
  NamedDeviceIsFound
  SlugsDiffer
  StateOfThisLife

\* The program may die.
CHECK_DEADLOCK FALSE
