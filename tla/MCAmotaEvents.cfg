CONSTANTS
  Listener = {l1, l2}
  NoStream = NoStream
  MaxPosts = 3
  MaxListens = 3
SPECIFICATION FairSpec
INVARIANTS TypeOK InOrder HearsAll
PROPERTY AllArrive
\* The channel rests when nothing is posted.
CHECK_DEADLOCK FALSE
