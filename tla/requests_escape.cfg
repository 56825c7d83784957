SPECIFICATION RSpec
CONSTANTS
    Entry <- MCEntry
    SrvRqst <- MCIllEscaped
    SrvTypeRqst <- MCSrvTypeRqst
    AttrRqst <- MCAttrRqst
    UseScopes <- MCUseScopes
    KnownDAs <- MCKnownDAs
    IndexedAttributes <- MCIndexed
    InitialUrlcount = 2
    InitialTypelistlen = 6
    MaxEntries = 3
    MaxUrlcount = 4
    MaxTypelistlen = 64
    RecursionDepth = 3
    EmptyTree <- MCEmptyTree
    add_to_index <- MCadd_to_index
    index_tree_delete <- MCindex_tree_delete
    find_and_call <- MCfind_and_call
    find_leading_and_call <- MCfind_leading_and_call
    createPredicateParseTree <- MCcreatePredicateParseTree
    SLPDPredicateTestTree <- MCSLPDPredicateTestTree
PROPERTIES
    RetriesMakeRoom
