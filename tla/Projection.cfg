\* One listing, three requests at a time, its statistics and one image, each written once.
CONSTANTS
  Listings = {l1}
  Writers = {w1, w2, w3}
  Titles = {t1, t2}
  MaxStock = 1
  MaxVersion = 2
  ChildRows = {stats, image}
  MaxWrites = 1
  Names = {n1, n2}
  NoListing = none
SYMMETRY WriterSymmetry
SPECIFICATION Spec
CHECK_DEADLOCK FALSE
INVARIANT TypeOK
INVARIANT NothingElseShown
INVARIANT OnSaleIsShown
PROPERTY StockAsRead
