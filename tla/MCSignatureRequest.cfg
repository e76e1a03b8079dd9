\* Does marshall() make the signatures it is asked for?
SPECIFICATION MCSpec
CONSTANTS
  Running = {"signature"}
  None = None
  Spoilt = Spoilt
  Signatures <- MCSignatures
  Presented <- MCPresented
  PeerSets <- MCPeerSets
  Engines <- MCEngines
  Asked <- MCAsked
  Remotes <- MCRemotes
  MaxEngines = 2
  Null = Null
  Text = {"t1", "t2"}
  SignatureAlg = {"a1"}
  DefaultAlg = "sha1"
  SigningKey = {"k1", "k2"}
  SignKeyInfo = {"i1", "i2"}
  Signers <- MCSigners
  SignCalls = {}
  Slots = {1, 2}
  DataAlg <- MCDataAlg
  Parties <- MCParties
  WrapAlg <- MCWrapAlg
  DecryptWith <- MCDecryptWith
  MaxKeys = 2
  MaxEncryptedKeys = 2
  EncryptCalls = {}
  Caller = {c1, c2}
  Issued <- MCIssued
  Unusable = Unusable
  Absent = Absent
  Delay = 1
  SecondsLeft = 0
  PercentLeft = 50
  LastTime = 5
  MaxPublished = 1
  MaxCrashes = 1
INVARIANT SignedOnRequest
CHECK_DEADLOCK FALSE
