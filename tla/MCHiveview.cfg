SPECIFICATION Spec
CONSTANTS
  Listing <- MCListing
  Menu <- MCMenu
  Queries = {"r", "rp"}
  Extends <- MCExtends
  Bookmarks <- MCBookmarks
  Tests = {1, 2}
  Orders <- MCOrders
  Finds = {{1, 2}, {2}}
  PageLength = 1
  MaxTrail = 2
CHECK_DEADLOCK FALSE
INVARIANT StatedFiltersAgree ColumnFiltersHold NoMatchHidden HashNamesSelected
PROPERTIES ClearShowsAll ClickKeepsDetails LinkedTestOpened ReloadKeepsView
