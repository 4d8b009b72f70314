CONSTANTS
  Item = {1, 2, 3, 4, 5}
  MaxSends = 5
  NoItem = none
  MaxCount = 3
  Threshold = 2
  Applications <- Urgent
SPECIFICATION RSpec
PROPERTIES RemovesWhatItServed
