\* Two databases of any shape, the second optional.
SPECIFICATION Spec
CONSTANTS
  BookmarksFiles <- MCBookmarksFiles
  HistoryFiles <- MCHistoryFiles
  NoFile = NoFile
INVARIANTS
  HistoryAccounted
  EveryBookmarkOnce
  HonestReader
CHECK_DEADLOCK FALSE
