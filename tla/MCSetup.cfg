SPECIFICATION Spec
CONSTANTS
  Actors = {a1, a2}
  Dirs = {d1}
  Contacts = {c1}
  Wallets = {w1}
  Terminal = TRUE
  None = None
SYMMETRY Symmetry
INVARIANTS TypeOK PageServes
PROPERTY Pm2OnlyRegistered
