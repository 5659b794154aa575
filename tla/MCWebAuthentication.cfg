SPECIFICATION Spec
CONSTANTS
  Nonces <- CNonces
  DigestOf <- CDigestOf
  Expiry = 1
  MaxTime = 2
INVARIANTS
  
  SessionLasts
  
CHECK_DEADLOCK FALSE
