SPECIFICATION FairSpec
CONSTANTS
  a1 = a1
  a2 = a2
  t1 = t1
  t2 = t2
  t3 = t3
  Account = {a1, a2}
  Tx = {t1, t2, t3}
  From <- MCFrom
  To <- MCTo
  Bundles <- MCBundles
  Sent = {t3}
  Balances = {0, 2}
  MaxAttempts = 3
  StoreKinds = {"memory", "database"}
  Revisions = 64
  MaxWrites = 3
  MaxBlocks = 1
  MaxStoreFailures = 1
INVARIANTS
  AllOrNothing
  RunsAtMostOnce
  AnnouncedInOrder
PROPERTIES
  CommitIsAtomic
  EveryBundleAnswered
