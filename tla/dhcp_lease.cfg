\* Two addresses that two clients compete for, all messages, two power failures.
SPECIFICATION Spec
CONSTANTS
  Clients = {c1, c2}
  NoClient = NoClient
  Size = 2
  LeaseTime = 2
  OfferTime = 1
  DeclineTime = 1
  UptimeMod = 4
  WordMod = 16
  MaxJournal = 2
  MaxCrashes = 2
  CrashIn = {"boot", "serve"}
  Messages = {"DISCOVER", "REQUEST", "DECLINE", "RELEASE"}
SYMMETRY Symmetry
INVARIANTS
  TypeOK
  LeasesSurvive
  OneClientPerAddress
  ReservedOffersHeld
PROPERTIES QuarantineKept
