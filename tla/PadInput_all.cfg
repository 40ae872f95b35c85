SPECIFICATION Spec
CONSTANTS
  t1 = t1
  t2 = t2
  K = K
  ZL = ZL
  ZR = ZR
  Threads = {t1, t2}
  Buttons = {ZL, ZR}
  Keys = {K}
  Casts <- MCCasts
  MaxHidden = 1
INVARIANTS
  FlipsArePresses
  KeysFollow
PROPERTY ActsAsSampler
