SPECIFICATION BottinReadSpec
CONSTANTS
  Messages <- MCMessages
  Passwords <- MCPasswords
  DamageBytes <- MCDamageBytes
  BaseDN <- MCBaseDN
  ACLDef <- MCACLDef
  Passwd <- MCPasswd
  Stored <- MCStored
INVARIANTS
  RoundTrip
  SizeIsWritten
  CutIsRefused
  AcceptedIsStable
  AnswersSearch
