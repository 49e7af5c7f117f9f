\* Requests without end; answers of two and six characters, in pieces.
SPECIFICATION FairSpec
CONSTANTS
  Chars <- MCChars
  Replies <- MCReplies
  FF = "FF"
  ReadBuffSize = 3
INVARIANTS
  TypeOK
  SuccessIsTheWholeAnswer
  NoDescriptorLeft
PROPERTIES
  RequestEnds
