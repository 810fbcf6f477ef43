\* Counterexample: two builds of one index, with a deletion in between.
CONSTANTS
  Collections <- OneCollection
  Fields <- OneField
  Ids = {1, 2}
  Vals = {v1}
  Builders = {b1, b2}
  BatchSize = 1
  Absent = Absent
  NoDoc = NoDoc
  NoTTL = NoTTL
  NoCount = NoCount
  NoBucket = NoBucket
  MaxRetainedEvents = 1
SPECIFICATION BuildsSpec
INVARIANT CompletedIndexIsExact
