CONSTANTS
  Keys = {k1, k2, k3}
  Nodes = {a1, a2, a3}
  Null = Null
  FreedRead = {"kept", "lost"}
SPECIFICATION FairSpec
INVARIANTS ListTypeOK WellFormed PrevBeforeTodel FetchComplete
PROPERTIES LoopsEnd ImplementsSequence
CHECK_DEADLOCK FALSE
