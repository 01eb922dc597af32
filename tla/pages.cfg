SPECIFICATION Spec
CONSTANTS
  Tours <- MCTours
  Loadings <- MCLoadings
  UserOf <- MCUserOf
  HostOf <- MCHostOf
  GoodUsers = {"ann", "eve"}
  GoodHosts = {"ann-pc", "eve-pc"}
  Taken = {"eve-pc"}
  Preseeds <- MCPreseeds
  VariantsOf <- MCVariantsOf
  DefaultOf <- MCDefaultOf
  Foreign = {"ru", "la"}
  TwoScripts <- MCTwoScripts
  Languages = {"en", "de"}
  English = "en"
  AccessPoints = {"home", "cafe"}
  Secured = {"home"}
  MaxSignals = 2
  Machines <- MCMachines
  ZoneOf <- MCZoneOf
  CountryOf <- MCCountryOf
  PlaceOf <- MCPlaceOf
  FirstZones = {"Europe/London", "Europe/Paris"}
  MaxLookups = 2
  Layouts <- MCLayouts
INVARIANTS
  NextOnlyWhenReady
  NextSaysWhatItDoes
  NamesFollow
  VariantsFit
  LiveIsSaved
  RightCompletions
  LabelsTell
  CountryOfLanguage
  PagesInOrder
