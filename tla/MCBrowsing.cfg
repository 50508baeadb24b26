SPECIFICATION Spec
CONSTANTS
  CollectionIds = {"cars", "ships"}
  FeatureIds = {"van", "bus"}
  Titles = {"title"}
  PropertyNames = {"speed"}
  Instants = {1, 2, 3}
  NoTime = NoTime
  RowGroup = 2
  Segments <- MCSegments
  WordsIn <- MCWordsIn
  WordsAtStart <- MCWordsAtStart
  Ids <- MCIds
  Searches <- MCSearches
  Recorded <- MCRecorded
  MaxTime = 3
INVARIANTS RoutedAsDocumented WritesReachWhatTheyName CompleteWithoutNext NothingOutsideTheInterval ExportHoldsTheList
