SPECIFICATION Spec
CONSTANTS
  alice = alice
  bob = bob
  w1 = w1
  w2 = w2
  w3 = w3
  w4 = w4
  Accounts <- MCAccounts
  Wallets <- MCWallets
  AllLower <- MCAllLower
  Mainnet = FALSE
  None = None
INVARIANT TypeOK
INVARIANT NoThirdSender
INVARIANT WalletsOneToOne
INVARIANT AcceptedWithoutCapitals
PROPERTY SenderStable
