SPECIFICATION Spec
CONSTANTS
  Procs = {p1}
  Ids = {k1, k2}
  Dotted = {}
  Keys = {a}
  Slots = {s1}
  Plaintexts = {text, EmptyText}
  EmptyText = EmptyText
  NoKey = NoKey
  NoBlob = NoBlob
  NotLoaded = NotLoaded
  MaxEntries = 2
INVARIANTS
  WhatIsEncryptedDecrypts
