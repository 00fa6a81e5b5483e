SPECIFICATION MCSpec
CONSTANTS
  h1 = h1
  h2 = h2
  h3 = h3
  h4 = h4
  n1 = n1
  n2 = n2
  n3 = n3
  n4 = n4
  N1 = N1
  g1 = g1
  g2 = g2
  g3 = g3
  g4 = g4
  looker = looker
  flusher = flusher
  Tasks = {t1, t2, t3}
  Hosts = {h1, h2, h3, h4}
  Names = {n1, N1, n2, n3, n4}
  Lower <- LowerNames
  None = None
  Word = 16
  Prefix <- Slash29
  Cap = 2
SYMMETRY Symmetry
INVARIANTS MutualInverse 
PROPERTIES MemorySound
CHECK_DEADLOCK FALSE
