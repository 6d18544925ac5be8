\* Every tree of up to 7 keys, one of them offered by two entries, and trees of up to
\* 10 keys filled in ascending or descending order.
SPECIFICATION MCSpec
CONSTANTS
  Null = Null
  Size = 10
  Wide = 7
  Nodes <- MCNodes
  Key <- MCKey
INVARIANTS SearchTree RedBlack ReadsExact
PROPERTIES ImplementsMap
