SPECIFICATION FairSpec
CONSTANTS
  Scale = 2
  Word = 8
  Second = 4
  NaN = NaN
  First8 <- Texts
  Keys <- SomeKeys
  Scalars <- SomeScalars
  MaxLength <- Lengths
  MaxDrops = 1
INVARIANTS
  TypeOK
PROPERTIES
  PublishesWhatItemSays
  AuthSuccessIsFirst
  SubscribesAnew
