SPECIFICATION ASpec
CONSTANTS
    Filters <- MCFilters
    AttrLists <- MCAttrLists
    TokenTexts <- MCTokenTexts
    TextLists <- MCTextLists
    Patterns <- MCPatterns
    Strings <- MCStrings
    Record <- MCRecord
    Twice <- MCTwice
    Tag <- MCTag
    Ints <- MCInts
    Str <- MCStr
    Texts <- MCTexts
INVARIANTS
    FiltersSelect
    
    TextsComeBack
    MessagesComeThrough
    AttributesComeBack
PROPERTIES
    IndexKeepsItsRecords
CHECK_DEADLOCK FALSE
