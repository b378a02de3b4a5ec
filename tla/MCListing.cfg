CONSTANTS
  chair = chair
  desk = desk
  lamp = lamp
  Half = 32
  Words <- MCWords
  Products <- MCProducts
  NameBegins <- MCNameBegins
  DescriptionBegins <- MCDescriptionBegins
  Name <- MCName
  Category <- MCCategory
  Price <- MCPrice
  URLs <- MCURLs
  Unlucky <- MCUnlucky
  Failures <- MCAll

SPECIFICATION FairSpec

INVARIANT WalkInv
INVARIANT StatementsSound
INVARIANT PagesCover
INVARIANT PagesInOrder
INVARIANT CountersAgree
INVARIANT ListedMatch
INVARIANT Served
INVARIANT OpensWhatIsListed
PROPERTY WalkEnds
