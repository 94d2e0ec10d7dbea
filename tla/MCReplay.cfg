SPECIFICATION Spec
CONSTANTS
  a = a
  b = b
  n1 = n1
  m1 = m1
  m2 = m2
  m3 = m3
  m4 = m4
  s1 = s1
  s2 = s2
  Msgs <- MCMsgs
  Senders <- MCSenders
  Nonces <- MCNonces
  From <- MCFrom
  Nonce <- MCNonce
  Ts <- MCTs
  Wellformed <- MCWellformed
  Slots <- MCSlots
  Skew = 1
  Window = 2
  MaxBack = 1
  MaxTime = 6
INVARIANTS
  AtMostOnce
  RefusedWasSeen
