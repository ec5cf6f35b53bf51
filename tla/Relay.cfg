SPECIFICATION Spec
CONSTANTS
  Conns = {c1, c2, c3}
  Names = {a, b}
  WordMod = 8
  Timestamps = {0, 3, 5}
  MaxTags = 4
  MaxWork = 6
  NoPubsub = NoPubsub
  NoTag = NoTag
CONSTRAINT Bounded
SYMMETRY Symmetries
INVARIANTS TypeOK NamesAreHeld PlayableVideo TimesKeepDistance
