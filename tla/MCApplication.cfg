SPECIFICATION Spec
CONSTANTS
  g1 = g1  g2 = g2  s1 = s1  s2 = s2  a1 = a1  a2 = a2  t1 = t1  t2 = t2
  c1 = c1  c2 = c2  o1 = o1  o2 = o2  p1 = p1  p2 = p2  f1 = f1  f2 = f2
  None = None
  Days = {0, 1}
  WeekDays = {1}
  DayEnd = 3
  ClickLength = 2
  PresetSlot <- MCPreset
  Stored <- MCStored
  MaxSlots = 2
  Devices = {f1, f2}
  Payloads <- MCPayloads
  MaxSaves = 3
  Goods = {g1, g2}
  SellerOf <- MCSellerOf
  Addresses = {a1, a2}
  MaxQuantity = 1
  MaxAsked = 2
  MaxOrders = 2
  MaxFetches = 2
  Tabs = {t1, t2}
  Calls = {c1, c2}
  AccessLife = 1
  RefreshLife = 2
  MaxClock = 3
  MaxCalls = 2
  MaxAbandoned = 1
  Orders = {o1, o2}
  MaxMoves = 4
  Parcels = {o1, o2}
  MaxSteps = 4
  Products = {p1, p2}
  Skus = {"sku"}
  Forms = {f1, f2}
  MaxFiles = 3
  Offers = {p1, p2}
  Organizations = {"north", "south"}
  MaxPosts = 5
  Sites = {0, 9}
  Lookups = {t1, t2}
  MaxAnswers = 2
VIEW View
SYMMETRY Symmetry
CHECK_DEADLOCK FALSE
INVARIANTS
  CalendarStaysApart
  StoredApart
  CartOrderedOnce
  PlacedWhereAddressed
  SessionKept
  NoCallStranded
  
  DeliveriesSettle
  ImagesExist
  SkusUnique
  CatalogueSettles
  SourcesHonest
