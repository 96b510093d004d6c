\* Two previews and two confirmations, in any order and with any fate.
SPECIFICATION FairSpec
CONSTANTS
  c1 = c1
  t1 = t1
  r1 = r1
  Blank = Blank
  NoValue = NoValue
  Channels <- MCChannels
  Texts <- MCTexts
  Roots <- MCRoots
  MaxCalls = 4
INVARIANTS TypeOK ConfirmsMatchPlan BusyIsOneCall NoticesAreTrue
PROPERTIES ConfirmsAreOneShot BusyEnds
