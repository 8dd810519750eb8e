\* Calls and wakeups are quick enough for a voting cycle to fit in an epoch.
SPECIFICATION FairSpec
CONSTANTS
  Period = 16
  MaxDelay = 1
  MaxLate = 1
  MinEpoch = 3
  MaxEpoch = 4
  UploadEpochs = {5}
  SettleEpochs = {3, 4, 5}
  Requested = {4}
INVARIANTS
  TypeOK
  VotingInSync
  VotesNotEarly
PROPERTIES
  GenesisContinuity
  AtMostOneVotePerEpoch
  BootstrapLeadsToVote
