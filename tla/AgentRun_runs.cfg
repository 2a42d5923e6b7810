SPECIFICATION Spec
CONSTANTS
  a1 = a1
  a2 = a2
  k1 = k1
  k2 = k2
  k3 = k3
  s1 = s1
  s2 = s2
  r1 = r1
  r2 = r2
  Runs = {r1, r2}
  Alerts <- MCAlerts
  Stores <- MCStores
  Skus <- MCSkus
  StoreOf <- MCStoreOf
  SkuOf <- MCSkuOf
  Phrase = Phrase
  Top = 1
  None = None
  Configs <- MCConfigs
  Wishes <- MCWishes
INVARIANTS
  TypeOK
  StreamTruthful
  OutsideAccounted
  SummaryGrounded
