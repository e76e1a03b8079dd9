\* A key and a certificate that are rolled over, or written in another form.
SPECIFICATION FairSpec
CONSTANTS
  Thread = {t1, t2}
  Gen = {1, 2}
  Form = {"PEM", "DER"}
  Spoilt = Spoilt
  Gone = Gone
  None = None
  Orders <- MCOrders
  First <- MCFirst
  Later <- MCLater
  MaxEdits = 2
INVARIANTS
  MatchedCredential
PROPERTIES
  CredentialStable
  EventuallyCurrent
CHECK_DEADLOCK FALSE
