----------------------- MODULE OperationalCrypto_proofs -----------------------
(***************************************************************************)
(* Rotation loses no data: proofs, for any number of processes, keys, ids  *)
(* and blobs, of the invariants of OperationalCrypto.                      *)
(*                                                                         *)
(* The four properties that TLC checks are inductive together.  That every *)
(* blob can be read, now and after a restart, is kept by a write because   *)
(* the key written under is known everywhere (CurrentKeysAreKnown), by a   *)
(* restart because the entries and the cached rings give one id one key    *)
(* (OneKeyPerId), and by dropping an entry because nothing is left under   *)
(* any other key than the first.                                           *)
(***************************************************************************)
EXTENDS OperationalCrypto, TLAPS

Inv ==
  /\ TypeOK
  /\ OneKeyPerId
  /\ CurrentKeysAreKnown
  /\ RunningProcessesCanRead
  /\ RestartedProcessesCanRead

-----------------------------------------------------------------------------

(* keyringFromEnv of entries with different ids: each id gets the key of   *)
(* its own entry, and no other id has one.                                 *)
LEMMA RingOfEntries ==
  ASSUME NEW e \in Seq(Entries), \A m, n \in DOMAIN e : e[m].id = e[n].id => m = n
  PROVE  /\ \A n \in DOMAIN e : KeyringFromEnv(e).keys[e[n].id] = e[n].key
         /\ \A i \in Ids : KeyringFromEnv(e).keys[i] # NoKey => Has(e, i)
  <1>1. ASSUME NEW n \in DOMAIN e
        PROVE  KeyringFromEnv(e).keys[e[n].id] = e[n].key
    <2>1. e[n] \in Entries /\ DOMAIN e \subseteq Nat
      OBVIOUS
    <2>2. e[n].id \in Ids /\ Has(e, e[n].id)
      BY <2>1 DEF Entries, Has
    <2>3. LastOf(e, e[n].id) = n
      BY <2>1 DEF LastOf
    <2>4. QED
      BY <2>2, <2>3 DEF KeyringFromEnv
  <1>2. ASSUME NEW i \in Ids, KeyringFromEnv(e).keys[i] # NoKey
        PROVE  Has(e, i)
    BY <1>2 DEF KeyringFromEnv
  <1>3. QED
    BY <1>1, <1>2

(* A ring read from such entries is well-typed; its current key is that of *)
(* the first entry.                                                        *)
LEMMA RingType ==
  ASSUME NEW e \in Seq(Entries), \A m, n \in DOMAIN e : e[m].id = e[n].id => m = n, e # <<>>
  PROVE  /\ KeyringFromEnv(e) \in Keyrings
         /\ KeyringFromEnv(e).current = e[1].id
  <1>1. e[1].id \in Ids
    <2>1. e[1] \in Entries
      OBVIOUS
    <2>2. QED
      BY <2>1 DEF Entries
  <1>2. ASSUME NEW i \in Ids
        PROVE  KeyringFromEnv(e).keys[i] \in Keys \cup {NoKey}
    <2>1. CASE KeyringFromEnv(e).keys[i] # NoKey
      <3>1. PICK n \in DOMAIN e : e[n].id = i
        BY <2>1, RingOfEntries, Zenon DEF Has
      <3>2. e[n] \in Entries
        OBVIOUS
      <3>3. e[n].key \in Keys
        BY <3>2 DEF Entries
      <3>4. QED
        BY <3>1, <3>3, RingOfEntries, Zenon
    <2>2. QED
      BY <2>1
  <1>3. /\ KeyringFromEnv(e).current = e[1].id
        /\ KeyringFromEnv(e) = [current |-> KeyringFromEnv(e).current,
                                keys    |-> [i \in Ids |-> KeyringFromEnv(e).keys[i]]]
    BY DEF KeyringFromEnv
  <1>4. QED
    BY <1>1, <1>2, <1>3 DEF Keyrings

(* The edits of the operator keep entries entries. *)
LEMMA EditsType ==
  ASSUME NEW e \in Seq(Entries), NEW n \in 1 .. Len(e), n > 1
  PROVE  LET moved == [j \in 1 .. Len(e) |-> IF j = 1 THEN e[n]
                                             ELSE IF j <= n THEN e[j - 1] ELSE e[j]]
             without == [j \in 1 .. Len(e) - 1 |-> IF j < n THEN e[j] ELSE e[j + 1]]
         IN /\ moved \in Seq(Entries) /\ Len(moved) = Len(e)
            /\ without \in Seq(Entries) /\ Len(without) = Len(e) - 1
  <1> DEFINE moved == [j \in 1 .. Len(e) |-> IF j = 1 THEN e[n]
                                             ELSE IF j <= n THEN e[j - 1] ELSE e[j]]
             without == [j \in 1 .. Len(e) - 1 |-> IF j < n THEN e[j] ELSE e[j + 1]]
  <1>1. moved \in [1 .. Len(e) -> Entries] /\ without \in [1 .. Len(e) - 1 -> Entries]
    OBVIOUS
  <1> HIDE DEF moved, without
  <1>2. moved \in Seq(Entries) /\ Len(moved) = Len(e)
    BY <1>1
  <1>3. Len(e) - 1 \in Nat
    OBVIOUS
  <1>4. without \in Seq(Entries) /\ Len(without) = Len(e) - 1
    BY <1>1, <1>3
  <1>5. QED
    BY <1>2, <1>4 DEF moved, without

-----------------------------------------------------------------------------

(* What a process encrypts is known to every running process and to those  *)
(* that will be started: its key is found under its id.                    *)
LEMMA WrittenIsReadable ==
  ASSUME Inv, NEW p \in Procs, Loaded(p), NEW t \in Plaintexts
  PROVE  LET b == Encrypt(cipher[p], t)
         IN /\ b \in Blobs
            /\ ~Malformed(b) => /\ \A q \in Procs : Loaded(q) => Decrypts(cipher[q], b)
                               /\ Decrypts(KeyringFromEnv(env), b)
  <1> DEFINE i == cipher[p].current
             b == Encrypt(cipher[p], t)
  <1>1. /\ cipher[p] \in Keyrings /\ i \in Ids
        /\ cipher[p].keys[i] \in Keys /\ cipher[p].keys[i] # NoKey
    BY CryptoAssumption DEF Inv, TypeOK, Loaded, Keyrings, CurrentKeysAreKnown, Knows, CryptoAssumption
  <1>2. b.keyId = i /\ b.key = cipher[p].keys[i] /\ b \in Blobs
    BY <1>1 DEF Encrypt, Blobs
  <1>3. ASSUME NEW q \in Procs, Loaded(q)
        PROVE  cipher[q].keys[i] = cipher[p].keys[i] /\ cipher[q].keys[i] # NoKey
    <2>1. Knows(q, i) /\ Knows(p, i)
      BY <1>3 DEF Inv, CurrentKeysAreKnown
    <2>2. QED
      BY <1>1, <1>3, <2>1 DEF Inv, OneKeyPerId, Knows
  <1>4. KeyringFromEnv(env).keys[i] = cipher[p].keys[i]
    <2>1. PICK n \in DOMAIN env : env[n].id = i
      BY DEF Inv, CurrentKeysAreKnown, Has
    <2>2. env[n].key = cipher[p].keys[i]
      BY <2>1, <1>1 DEF Inv, OneKeyPerId, Knows
    <2>3. KeyringFromEnv(env).keys[env[n].id] = env[n].key
      BY RingOfEntries DEF Inv, TypeOK, OneKeyPerId
    <2>4. QED
      BY <2>1, <2>2, <2>3
  <1> HIDE DEF i, b
  <1>5. QED
    BY <1>1, <1>2, <1>3, <1>4 DEF Decrypts, b

(* The ring a process reads now agrees with the entries and with every     *)
(* ring that was read before.                                              *)
LEMMA RingReadNow ==
  ASSUME Inv, env # <<>>
  PROVE  LET now == KeyringFromEnv(env)
         IN /\ now \in Keyrings /\ now.current = env[1].id
            /\ \A n \in DOMAIN env : now.keys[env[n].id] = env[n].key /\ env[n].key # NoKey
            /\ \A p \in Procs : Loaded(p) =>
                 \A i \in Ids : now.keys[i] # NoKey /\ Knows(p, i) => cipher[p].keys[i] = now.keys[i]
  <1> DEFINE now == KeyringFromEnv(env)
  <1>1. env \in Seq(Entries) /\ \A m, n \in DOMAIN env : env[m].id = env[n].id => m = n
    BY DEF Inv, TypeOK, OneKeyPerId
  <1>2. now \in Keyrings /\ now.current = env[1].id
    BY <1>1, RingType
  <1>3. ASSUME NEW n \in DOMAIN env
        PROVE  now.keys[env[n].id] = env[n].key /\ env[n].key # NoKey
    <2>1. env[n] \in Entries
      BY <1>1
    <2>2. QED
      BY <1>1, <2>1, RingOfEntries, CryptoAssumption DEF Entries, CryptoAssumption
  <1>4. ASSUME NEW p \in Procs, Loaded(p), NEW i \in Ids, now.keys[i] # NoKey, Knows(p, i)
        PROVE  cipher[p].keys[i] = now.keys[i]
    <2>1. PICK n \in DOMAIN env : env[n].id = i
      BY <1>1, <1>4, RingOfEntries DEF Has
    <2>2. QED
      BY <1>3, <1>4, <2>1 DEF Inv, OneKeyPerId
  <1>5. QED
    BY <1>2, <1>3, <1>4

LEMMA LoadKeepsInv ==
  ASSUME Inv, NEW p \in Procs, Load(p)
  PROVE  Inv'
  <1> DEFINE now == KeyringFromEnv(env)
  <1>1. /\ env # <<>> /\ ~Loaded(p)
        /\ cipher' = [cipher EXCEPT ![p] = now] /\ UNCHANGED <<env, store>>
    BY DEF Load
  <1>2. /\ now \in Keyrings /\ now.current = env[1].id
        /\ \A n \in DOMAIN env : now.keys[env[n].id] = env[n].key /\ env[n].key # NoKey
        /\ \A q \in Procs : Loaded(q) =>
             \A i \in Ids : now.keys[i] # NoKey /\ Knows(q, i) => cipher[q].keys[i] = now.keys[i]
    BY <1>1, RingReadNow
  <1>3. env \in Seq(Entries) /\ 1 \in DOMAIN env
    BY <1>1 DEF Inv, TypeOK
  <1>4. KeyringFromEnv(env)' = now
    BY <1>1 DEF KeyringFromEnv, Has, LastOf
  <1> HIDE DEF now
  <1>5. /\ cipher'[p] = now /\ Loaded(p)'
        /\ \A q \in Procs : q # p => cipher'[q] = cipher[q] /\ Loaded(q)' = Loaded(q)
    BY <1>1, <1>2, CryptoAssumption DEF Inv, TypeOK, Loaded, CryptoAssumption
  <1>6. TypeOK'
    BY <1>1, <1>2 DEF Inv, TypeOK
  <1>7. OneKeyPerId'
    BY <1>1, <1>2, <1>5 DEF Inv, OneKeyPerId, Knows
  <1>8. CurrentKeysAreKnown'
    <2>1. ASSUME NEW q \in Procs, Loaded(q)
          PROVE  Knows(q, env[1].id) /\ now.keys[cipher[q].current] # NoKey
      BY <1>2, <2>1 DEF Inv, CurrentKeysAreKnown, Has
    <2>2. now.keys[now.current] # NoKey /\ Has(env, now.current)
      BY <1>2, <1>3 DEF Has
    <2>3. QED
      BY <1>1, <1>2, <1>5, <2>1, <2>2 DEF Inv, CurrentKeysAreKnown, Knows, Has
  <1>9. RunningProcessesCanRead' /\ RestartedProcessesCanRead'
    BY <1>1, <1>4, <1>5
    DEF Inv, RunningProcessesCanRead, RestartedProcessesCanRead, Decrypts, Malformed, now
  <1>10. QED
    BY <1>6, <1>7, <1>8, <1>9 DEF Inv

LEMMA RestartKeepsInv ==
  ASSUME Inv, NEW p \in Procs, Restart(p)
  PROVE  Inv'
  <1>1. cipher' = [cipher EXCEPT ![p] = NotLoaded] /\ UNCHANGED <<env, store>>
    BY DEF Restart
  <1>2. /\ ~Loaded(p)'
        /\ \A q \in Procs : q # p => cipher'[q] = cipher[q] /\ Loaded(q)' = Loaded(q)
    BY <1>1 DEF Inv, TypeOK, Loaded
  <1>3. KeyringFromEnv(env)' = KeyringFromEnv(env)
    BY <1>1 DEF KeyringFromEnv, Has, LastOf
  <1>4. TypeOK'
    BY <1>1 DEF Inv, TypeOK
  <1>5. OneKeyPerId' /\ CurrentKeysAreKnown'
    BY <1>1, <1>2 DEF Inv, OneKeyPerId, CurrentKeysAreKnown, Knows, Has
  <1>6. RunningProcessesCanRead' /\ RestartedProcessesCanRead'
    BY <1>1, <1>2, <1>3
    DEF Inv, RunningProcessesCanRead, RestartedProcessesCanRead, Decrypts, Malformed
  <1>7. QED
    BY <1>4, <1>5, <1>6 DEF Inv

(* A blob is written, or written again under the current key.              *)
LEMMA StoreKeepsInv ==
  ASSUME Inv, NEW p \in Procs, NEW s \in Slots, NEW t \in Plaintexts, Loaded(p),
         store' = [store EXCEPT ![s] = Encrypt(cipher[p], t)], UNCHANGED <<env, cipher>>
  PROVE  Inv'
  <1> DEFINE b == Encrypt(cipher[p], t)
  <1>1. /\ b \in Blobs
        /\ ~Malformed(b) => /\ \A q \in Procs : Loaded(q) => Decrypts(cipher[q], b)
                           /\ Decrypts(KeyringFromEnv(env), b)
    BY WrittenIsReadable
  <1>2. store' = [store EXCEPT ![s] = b] /\ b # NoBlob
    BY <1>1, CryptoAssumption DEF CryptoAssumption
  <1> HIDE DEF b
  <1>3. /\ store'[s] = b
        /\ \A r \in Slots : r # s => store'[r] = store[r]
    BY <1>2 DEF Inv, TypeOK
  <1>4. KeyringFromEnv(env)' = KeyringFromEnv(env)
    BY DEF KeyringFromEnv, Has, LastOf
  <1>5. TypeOK'
    BY <1>1, <1>2 DEF Inv, TypeOK
  <1>6. OneKeyPerId' /\ CurrentKeysAreKnown'
    BY DEF Inv, OneKeyPerId, CurrentKeysAreKnown, Knows, Has, Loaded
  <1>7. RunningProcessesCanRead'
    BY <1>1, <1>3 DEF Inv, RunningProcessesCanRead, Decrypts, Malformed, Loaded
  <1>8. RestartedProcessesCanRead'
    BY <1>1, <1>3, <1>4 DEF Inv, RestartedProcessesCanRead, Decrypts, Malformed
  <1>9. QED
    BY <1>5, <1>6, <1>7, <1>8 DEF Inv

LEMMA EnterKeyKeepsInv ==
  ASSUME Inv, NEW i \in Ids, NEW k \in Keys, EnterKey(i, k)
  PROVE  Inv'
  <1> DEFINE entry == [id |-> i, key |-> k]
  <1>1. /\ env \in Seq(Entries) /\ entry \in Entries /\ Len(env) < MaxEntries
        /\ env' = Append(env, entry) /\ UNCHANGED <<cipher, store>>
    BY DEF EnterKey, Inv, TypeOK, Entries
  <1>2. /\ \A n \in DOMAIN env : env[n].id # i
        /\ \A p \in Procs : Loaded(p) => ~Knows(p, i)
        /\ \A s \in Slots : store[s] # NoBlob => store[s].keyId # i
    BY DEF EnterKey, Has, Knows
  <1>3. /\ env' \in Seq(Entries) /\ Len(env') = Len(env) + 1
        /\ DOMAIN env' = DOMAIN env \cup {Len(env) + 1} /\ DOMAIN env \subseteq DOMAIN env'
        /\ \A n \in DOMAIN env : env'[n] = env[n]
        /\ env'[Len(env) + 1].id = i /\ env'[Len(env) + 1].key = k
    BY <1>1
  <1> HIDE DEF entry
  <1>4. TypeOK'
    BY <1>1, <1>3, CryptoAssumption DEF Inv, TypeOK, CryptoAssumption
  <1>5. OneKeyPerId'
    BY <1>1, <1>2, <1>3 DEF Inv, OneKeyPerId, Knows, Loaded
  <1>6. CurrentKeysAreKnown'
    <2>1. ASSUME NEW p \in Procs, Loaded(p)
          PROVE  1 \in DOMAIN env /\ Has(env', cipher[p].current)
      <3>1. PICK n \in DOMAIN env : env[n].id = cipher[p].current
        BY <2>1 DEF Inv, CurrentKeysAreKnown, Has
      <3>2. QED
        BY <1>1, <1>3, <3>1 DEF Has
    <2>2. QED
      BY <1>1, <1>3, <2>1 DEF Inv, CurrentKeysAreKnown, Knows, Loaded
  <1>7. RunningProcessesCanRead'
    BY <1>1 DEF Inv, RunningProcessesCanRead, Decrypts, Malformed, Loaded
  <1>8. RestartedProcessesCanRead'
    <2>1. ASSUME NEW s \in Slots, store[s] # NoBlob, ~Malformed(store[s])
          PROVE  Decrypts(KeyringFromEnv(env'), store[s])
      <3>1. store[s].keyId \in Ids
        BY <2>1 DEF Inv, TypeOK, Blobs
      <3>2. Decrypts(KeyringFromEnv(env), store[s])
        BY <2>1 DEF Inv, RestartedProcessesCanRead
      <3>3. PICK n \in DOMAIN env : env[n].id = store[s].keyId
        BY <1>1, <3>1, <3>2, RingOfEntries DEF Inv, OneKeyPerId, Decrypts, Has
      <3>4. KeyringFromEnv(env).keys[env[n].id] = env[n].key
        BY <1>1, RingOfEntries DEF Inv, OneKeyPerId
      <3>5. KeyringFromEnv(env').keys[env'[n].id] = env'[n].key
        BY <1>3, <1>5, RingOfEntries DEF OneKeyPerId
      <3>6. QED
        BY <1>3, <3>2, <3>3, <3>4, <3>5 DEF Decrypts
    <2>2. QED
      BY <1>1, <2>1 DEF RestartedProcessesCanRead, Decrypts, Malformed
  <1>9. QED
    BY <1>4, <1>5, <1>6, <1>7, <1>8 DEF Inv

(* Entries in another order, or fewer of them, make a ring with the same   *)
(* key for every id that is left.                                          *)
LEMMA SameEntrySameKey ==
  ASSUME Inv, OneKeyPerId', env' \in Seq(Entries),
         NEW n \in DOMAIN env, NEW m \in DOMAIN env', env'[m] = env[n]
  PROVE  KeyringFromEnv(env').keys[env[n].id] = KeyringFromEnv(env).keys[env[n].id]
  <1>1. KeyringFromEnv(env).keys[env[n].id] = env[n].key
    BY RingOfEntries DEF Inv, TypeOK, OneKeyPerId
  <1>2. KeyringFromEnv(env').keys[env'[m].id] = env'[m].key
    BY RingOfEntries DEF OneKeyPerId
  <1>3. QED
    BY <1>1, <1>2

LEMMA MakeCurrentKeepsInv ==
  ASSUME Inv, NEW n \in 1 .. Len(env), MakeCurrent(n)
  PROVE  Inv'
  <1> DEFINE from(j) == IF j = 1 THEN n ELSE IF j <= n THEN j - 1 ELSE j
             to(j) == IF j = n THEN 1 ELSE IF j < n THEN j + 1 ELSE j
  <1>1. /\ env \in Seq(Entries) /\ n > 1 /\ UNCHANGED <<cipher, store>>
        /\ env' = [j \in 1 .. Len(env) |-> IF j = 1 THEN env[n]
                                           ELSE IF j <= n THEN env[j - 1] ELSE env[j]]
        /\ \A p \in Procs : Loaded(p) => cipher[p].keys[env[n].id] = env[n].key
    BY DEF MakeCurrent, Inv, TypeOK
  <1>2. env' \in Seq(Entries) /\ Len(env') = Len(env)
    BY <1>1, EditsType
  <1>3. /\ DOMAIN env' = DOMAIN env /\ DOMAIN env = 1 .. Len(env) /\ Len(env) \in Nat
        /\ \A j \in DOMAIN env : from(j) \in DOMAIN env /\ to(j) \in DOMAIN env
        /\ \A j \in DOMAIN env : env'[j] = env[from(j)]
        /\ \A j \in DOMAIN env : from(to(j)) = j /\ to(from(j)) = j
    BY <1>1, <1>2
  <1>4. env'[1] = env[n] /\ env[n].key # NoKey
    <2>1. env'[1] = env[n] /\ env[n] \in Entries
      BY <1>1, <1>2
    <2>2. QED
      BY <2>1, CryptoAssumption DEF CryptoAssumption, Entries
  <1> HIDE DEF from, to
  <1>5. \A j \in DOMAIN env : env'[to(j)] = env[j]
    BY <1>3
  <1>6. TypeOK'
    BY <1>1, <1>2 DEF Inv, TypeOK
  <1>7. OneKeyPerId'
    <2>1. \A i, j \in DOMAIN env' : env'[i].id = env'[j].id => i = j
      <3> SUFFICES ASSUME NEW i \in DOMAIN env, NEW j \in DOMAIN env, env'[i].id = env'[j].id
                   PROVE  i = j
        BY <1>3
      <3>1. /\ from(i) \in DOMAIN env /\ from(j) \in DOMAIN env
            /\ env[from(i)].id = env[from(j)].id
        BY <1>3
      <3>2. from(i) = from(j)
        BY <3>1 DEF Inv, OneKeyPerId
      <3>3. to(from(i)) = i /\ to(from(j)) = j
        BY <1>3
      <3>4. QED
        BY <3>2, <3>3
    <2>2. ASSUME NEW p \in Procs, NEW j \in DOMAIN env', Loaded(p), Knows(p, env'[j].id)
          PROVE  cipher[p].keys[env'[j].id] = env'[j].key
      <3>1. from(j) \in DOMAIN env /\ env'[j] = env[from(j)]
        BY <1>3
      <3>2. QED
        BY <2>2, <3>1 DEF Inv, OneKeyPerId
    <2>3. QED
      BY <1>1, <2>1, <2>2 DEF Inv, OneKeyPerId, Knows, Loaded
  <1>8. CurrentKeysAreKnown'
    <2>1. ASSUME NEW p \in Procs, Loaded(p)
          PROVE  Has(env', cipher[p].current) /\ Knows(p, env'[1].id)
      <3>1. PICK j \in DOMAIN env : env[j].id = cipher[p].current
        BY <2>1 DEF Inv, CurrentKeysAreKnown, Has
      <3>2. Has(env', cipher[p].current)
        BY <1>3, <1>5, <3>1 DEF Has
      <3>3. QED
        BY <1>1, <1>4, <2>1, <3>2 DEF Knows
    <2>2. QED
      BY <1>1, <2>1 DEF Inv, CurrentKeysAreKnown, Knows, Loaded, Has
  <1>9. RunningProcessesCanRead'
    BY <1>1 DEF Inv, RunningProcessesCanRead, Decrypts, Malformed, Loaded
  <1>10. RestartedProcessesCanRead'
    <2>1. ASSUME NEW s \in Slots, store[s] # NoBlob, ~Malformed(store[s])
          PROVE  Decrypts(KeyringFromEnv(env'), store[s])
      <3>1. Decrypts(KeyringFromEnv(env), store[s]) /\ store[s].keyId \in Ids
        BY <2>1 DEF Inv, TypeOK, Blobs, RestartedProcessesCanRead
      <3>2. PICK j \in DOMAIN env : env[j].id = store[s].keyId
        BY <1>1, <3>1, RingOfEntries DEF Inv, OneKeyPerId, Decrypts, Has
      <3>3. KeyringFromEnv(env').keys[env[j].id] = KeyringFromEnv(env).keys[env[j].id]
        BY <1>2, <1>3, <1>5, <1>7, SameEntrySameKey
      <3>4. QED
        BY <3>1, <3>2, <3>3 DEF Decrypts
    <2>2. QED
      BY <1>1, <2>1 DEF RestartedProcessesCanRead, Decrypts, Malformed
  <1>11. QED
    BY <1>6, <1>7, <1>8, <1>9, <1>10 DEF Inv

LEMMA DropKeyKeepsInv ==
  ASSUME Inv, NEW n \in 1 .. Len(env), DropKey(n)
  PROVE  Inv'
  <1> DEFINE from(j) == IF j < n THEN j ELSE j + 1
  <1>1. /\ env \in Seq(Entries) /\ n > 1 /\ UNCHANGED <<cipher, store>>
        /\ env' = [j \in 1 .. Len(env) - 1 |-> IF j < n THEN env[j] ELSE env[j + 1]]
        /\ \A p \in Procs : Loaded(p) => cipher[p].current = env[1].id
        /\ \A s \in Slots : store[s] # NoBlob => store[s].keyId = env[1].id
    BY DEF DropKey, Inv, TypeOK, NeedsReencrypt, KeyringFromEnv
  <1>2. env' \in Seq(Entries) /\ Len(env') = Len(env) - 1
    BY <1>1, EditsType
  <1>3. /\ DOMAIN env' = 1 .. Len(env) - 1 /\ DOMAIN env = 1 .. Len(env) /\ Len(env) \in Nat
        /\ \A j \in DOMAIN env' : from(j) \in DOMAIN env /\ env'[j] = env[from(j)]
        /\ \A i, j \in DOMAIN env' : from(i) = from(j) => i = j
    BY <1>1, <1>2
  <1>4. 1 \in DOMAIN env /\ 1 \in DOMAIN env' /\ env'[1] = env[1]
    BY <1>1, <1>3
  <1> HIDE DEF from
  <1>5. TypeOK'
    BY <1>1, <1>2, <1>3, <1>4, CryptoAssumption DEF Inv, TypeOK, CryptoAssumption
  <1>6. OneKeyPerId'
    <2>1. \A i, j \in DOMAIN env' : env'[i].id = env'[j].id => i = j
      BY <1>3 DEF Inv, OneKeyPerId
    <2>2. QED
      BY <1>1, <1>3, <2>1 DEF Inv, OneKeyPerId, Knows, Loaded
  <1>7. CurrentKeysAreKnown'
    BY <1>1, <1>4 DEF Inv, CurrentKeysAreKnown, Knows, Loaded, Has
  <1>8. RunningProcessesCanRead'
    BY <1>1 DEF Inv, RunningProcessesCanRead, Decrypts, Malformed, Loaded
  <1>9. RestartedProcessesCanRead'
    <2>1. KeyringFromEnv(env').keys[env[1].id] = KeyringFromEnv(env).keys[env[1].id]
      BY <1>2, <1>4, <1>6, SameEntrySameKey
    <2>2. ASSUME NEW s \in Slots, store[s] # NoBlob, ~Malformed(store[s])
          PROVE  Decrypts(KeyringFromEnv(env'), store[s])
      BY <1>1, <2>1, <2>2 DEF Inv, RestartedProcessesCanRead, Decrypts
    <2>3. QED
      BY <1>1, <2>2 DEF RestartedProcessesCanRead, Decrypts, Malformed
  <1>10. QED
    BY <1>5, <1>6, <1>7, <1>8, <1>9 DEF Inv

-----------------------------------------------------------------------------

LEMMA InvStep == Inv /\ [Next]_vars => Inv'
  <1> SUFFICES ASSUME Inv, [Next]_vars
               PROVE  Inv'
    OBVIOUS
  <1>1. ASSUME NEW p \in Procs, Load(p) \/ Restart(p)
        PROVE  Inv'
    BY <1>1, LoadKeepsInv, RestartKeepsInv
  <1>2. ASSUME NEW p \in Procs, NEW s \in Slots, NEW t \in Plaintexts, Write(p, s, t)
        PROVE  Inv'
    BY <1>2, StoreKeepsInv DEF Write
  <1>3. ASSUME NEW p \in Procs, NEW s \in Slots, Reencrypt(p, s)
        PROVE  Inv'
    <2>1. store[s].text \in Plaintexts
      BY <1>3 DEF Reencrypt, Inv, TypeOK, Blobs
    <2>2. QED
      BY <1>3, <2>1, StoreKeepsInv DEF Reencrypt
  <1>4. ASSUME NEW i \in Ids, NEW k \in Keys, EnterKey(i, k)
        PROVE  Inv'
    BY <1>4, EnterKeyKeepsInv
  <1>5. ASSUME NEW n \in 1 .. Len(env), MakeCurrent(n) \/ DropKey(n)
        PROVE  Inv'
    BY <1>5, MakeCurrentKeepsInv, DropKeyKeepsInv
  <1>6. CASE UNCHANGED vars
    <2>1. KeyringFromEnv(env)' = KeyringFromEnv(env)
      BY <1>6 DEF vars, KeyringFromEnv, Has, LastOf
    <2>2. TypeOK' /\ OneKeyPerId' /\ CurrentKeysAreKnown' /\ RunningProcessesCanRead'
      BY <1>6 DEF vars, Inv, TypeOK, OneKeyPerId, CurrentKeysAreKnown, RunningProcessesCanRead,
                  Loaded, Knows, Has, Decrypts, Malformed
    <2>3. RestartedProcessesCanRead'
      BY <1>6, <2>1 DEF vars, Inv, RestartedProcessesCanRead, Decrypts, Malformed
    <2>4. QED
      BY <2>2, <2>3 DEF Inv
  <1>7. QED
    BY <1>1, <1>2, <1>3, <1>4, <1>5, <1>6 DEF Next

LEMMA Invariance == Spec => []Inv
  <1>1. Init => Inv
    BY CryptoAssumption
    DEF Init, Inv, TypeOK, OneKeyPerId, CurrentKeysAreKnown, RunningProcessesCanRead,
        RestartedProcessesCanRead, Loaded, CryptoAssumption
  <1>2. QED
    BY <1>1, InvStep, PTL DEF Spec

(* The entries, the cached rings and the blobs keep their types.           *)
THEOREM Typing == Spec => []TypeOK
  BY Invariance, PTL DEF Inv

(* In any interleaving of writes, restarts and rotation, every running     *)
(* process can decrypt every well-formed blob ...                          *)
THEOREM RunningCanRead == Spec => []RunningProcessesCanRead
  BY Invariance, PTL DEF Inv

(* ... and so can a process that starts now: no rotation loses data.       *)
THEOREM RestartedCanRead == Spec => []RestartedProcessesCanRead
  BY Invariance, PTL DEF Inv

(* A key id names one key in all the places that know it.                  *)
THEOREM IdsAreUnambiguous == Spec => []OneKeyPerId
  BY Invariance, PTL DEF Inv

(* What any process encrypts next, every other one can decrypt.            *)
THEOREM CurrentAreKnown == Spec => []CurrentKeysAreKnown
  BY Invariance, PTL DEF Inv

=============================================================================
