------------------------- MODULE OperationalCrypto --------------------------
(***************************************************************************)
(* node/operational-crypto.ts: encryption at rest under a key ring read    *)
(* from OPERATIONAL_KEYS, and the rotation of those keys.                  *)
(*                                                                         *)
(* Each process caches the cipher it first built, so processes started at  *)
(* different times work with different rings on one store of blobs.  The   *)
(* operator edits the variable and restarts processes.  The procedure      *)
(* modelled is the one the key ring allows for: a new key is entered last, *)
(* to decrypt only; it becomes the first once every running process knows  *)
(* it; an old key is dropped when no blob needs re-encryption and no       *)
(* running process still encrypts under it.                                *)
(***************************************************************************)
EXTENDS Integers, Sequences

CONSTANTS
  Procs,       \* the processes that hold a cipher
  Ids,         \* key ids
  Dotted,      \* the ids with a `.' in them
  Keys,        \* 32-byte keys
  Slots,       \* where the callers keep blobs
  Plaintexts,  \* what they encrypt
  EmptyText,   \* the plaintext '', whose ciphertext is empty
  NoKey, NoBlob, NotLoaded,
  MaxEntries   \* bound on the entries of OPERATIONAL_KEYS

Entries == [id : Ids, key : Keys]
Keyrings == [current : Ids, keys : [Ids -> Keys \cup {NoKey}]]
Blobs == [keyId : Ids, key : Keys, text : Plaintexts]

ASSUME CryptoAssumption ==
  /\ Dotted \subseteq Ids
  /\ NoKey \notin Keys /\ NoBlob \notin Blobs /\ NotLoaded \notin Keyrings
  /\ MaxEntries \in Nat \ {0}

VARIABLES
  env,     \* the entries of OPERATIONAL_KEYS, none when it is not set
  cipher,  \* cipher[p]: the ring of the cipher that process p has cached
  store    \* store[s]: the blob in slot s

vars == <<env, cipher, store>>

Loaded(p) == cipher[p] # NotLoaded

-----------------------------------------------------------------------------
(* keyringFromEnv: the first entry is the current one; of two entries with *)
(* one id the last one's key is kept.                                      *)

Has(e, i) == \E n \in DOMAIN e : e[n].id = i
LastOf(e, i) ==
  CHOOSE n \in DOMAIN e : e[n].id = i /\ \A m \in DOMAIN e : e[m].id = i => m <= n

KeyringFromEnv_LastIsCurrent(e) ==
  [current |-> e[Len(e)].id,
   keys |-> [i \in Ids |-> IF Has(e, i) THEN e[LastOf(e, i)].key ELSE NoKey]]

KeyringFromEnv_SameKey(e) ==
  [current |-> e[1].id, keys |-> [i \in Ids |-> IF Has(e, i) THEN e[1].key ELSE NoKey]]

KeyringFromEnv(e) ==
  [current |-> e[1].id,
   keys |-> [i \in Ids |-> IF Has(e, i) THEN e[LastOf(e, i)].key ELSE NoKey]]

(* A blob is version.keyId.iv.ct.tag.  The key is what its tag verifies    *)
(* under; parse refuses an empty part and any other number of parts.       *)
Encrypt(ring, t) ==
  [keyId |-> ring.current, key |-> ring.keys[ring.current], text |-> t]

Malformed(b) == b.text = EmptyText \/ b.keyId \in Dotted

Decrypts(ring, b) ==
  /\ ~Malformed(b)
  /\ ring.keys[b.keyId] # NoKey
  /\ ring.keys[b.keyId] = b.key

NeedsReencrypt_SeesNothing(ring, b) == FALSE
NeedsReencrypt(ring, b) == b.keyId # ring.current

TypeOK ==
  /\ env \in Seq(Entries)
  /\ Len(env) \in 0 .. MaxEntries
  /\ cipher \in [Procs -> Keyrings \cup {NotLoaded}]
  /\ store \in [Slots -> Blobs \cup {NoBlob}]

-----------------------------------------------------------------------------

Init ==
  /\ env = <<>>
  /\ cipher = [p \in Procs |-> NotLoaded]
  /\ store = [s \in Slots |-> NoBlob]

(* operationalCipher: the ring is read once; later calls get the cached    *)
(* cipher whatever has become of the variable.  While it is not set the    *)
(* call throws and caches nothing.                                         *)
Load(p) ==
  /\ ~Loaded(p) /\ env # <<>>
  /\ cipher' = [cipher EXCEPT ![p] = KeyringFromEnv(env)]
  /\ UNCHANGED <<env, store>>

(* A process crashes or is restarted; the next call reads the ring anew.   *)
Restart(p) ==
  /\ Loaded(p)
  /\ cipher' = [cipher EXCEPT ![p] = NotLoaded]
  /\ UNCHANGED <<env, store>>

Write(p, s, t) ==
  /\ Loaded(p)
  /\ store' = [store EXCEPT ![s] = Encrypt(cipher[p], t)]
  /\ UNCHANGED <<env, cipher>>

(* "re-encrypt it on the next write": what decrypts is written again.      *)
Reencrypt(p, s) ==
  /\ Loaded(p)
  /\ store[s] # NoBlob
  /\ Decrypts(cipher[p], store[s])
  /\ NeedsReencrypt(cipher[p], store[s])
  /\ store' = [store EXCEPT ![s] = Encrypt(cipher[p], store[s].text)]
  /\ UNCHANGED <<env, cipher>>

(* The operator enters a new key, last, under an id nothing refers to.     *)
EnterKey(i, k) ==
  /\ Len(env) < MaxEntries
  /\ ~Has(env, i)
  /\ \A p \in Procs : Loaded(p) => cipher[p].keys[i] = NoKey
  /\ \A s \in Slots : store[s] # NoBlob => store[s].keyId # i
  /\ env' = Append(env, [id |-> i, key |-> k])
  /\ UNCHANGED <<cipher, store>>

(* The operator makes entry n the first, every running process having been *)
(* restarted since it was entered.                                         *)
MakeCurrent(n) ==
  /\ n > 1
  /\ \A p \in Procs : Loaded(p) => cipher[p].keys[env[n].id] = env[n].key
  /\ env' = [j \in 1 .. Len(env) |-> IF j = 1 THEN env[n]
                                     ELSE IF j <= n THEN env[j - 1] ELSE env[j]]
  /\ UNCHANGED <<cipher, store>>

(* The operator drops entry n, every blob being under the first key and    *)
(* every running process encrypting under it.                              *)
DropKey(n) ==
  /\ n > 1
  /\ \A p \in Procs : Loaded(p) => cipher[p].current = env[1].id
  /\ \A s \in Slots : store[s] # NoBlob =>
       ~Malformed(store[s]) /\ ~NeedsReencrypt(KeyringFromEnv(env), store[s])
  /\ env' = [j \in 1 .. Len(env) - 1 |-> IF j < n THEN env[j] ELSE env[j + 1]]
  /\ UNCHANGED <<cipher, store>>

Next ==
  \/ \E p \in Procs : Load(p) \/ Restart(p)
  \/ \E p \in Procs, s \in Slots, t \in Plaintexts : Write(p, s, t)
  \/ \E p \in Procs, s \in Slots : Reencrypt(p, s)
  \/ \E i \in Ids, k \in Keys : EnterKey(i, k)
  \/ \E n \in 1 .. Len(env) : MakeCurrent(n) \/ DropKey(n)

Spec == Init /\ [][Next]_vars

-----------------------------------------------------------------------------

(* Whatever the interleaving of writes, restarts and rotation, no running  *)
(* process meets a well-formed blob it cannot decrypt: its cached ring has *)
(* the key of every blob, those other processes wrote since included.      *)
RunningProcessesCanRead ==
  \A p \in Procs, s \in Slots :
    Loaded(p) /\ store[s] # NoBlob /\ ~Malformed(store[s]) => Decrypts(cipher[p], store[s])

(* No edit of OPERATIONAL_KEYS loses data: a process that restarts and     *)
(* builds its ring from the variable can decrypt every well-formed blob.   *)
RestartedProcessesCanRead ==
  \A s \in Slots :
    store[s] # NoBlob /\ ~Malformed(store[s]) => Decrypts(KeyringFromEnv(env), store[s])

(* A key id names one key wherever it is known: no two entries of          *)
(* OPERATIONAL_KEYS share it, and rings read at different times agree on   *)
(* it with each other and with the entries.                                *)
Knows(p, i) == cipher[p].keys[i] # NoKey

OneKeyPerId ==
  /\ \A m, n \in DOMAIN env : env[m].id = env[n].id => m = n
  /\ \A p \in Procs : \A n \in DOMAIN env :
       Loaded(p) /\ Knows(p, env[n].id) => cipher[p].keys[env[n].id] = env[n].key
  /\ \A p, q \in Procs : \A i \in Ids :
       Loaded(p) /\ Loaded(q) /\ Knows(p, i) /\ Knows(q, i) =>
         cipher[p].keys[i] = cipher[q].keys[i]

(* Whatever is encrypted next can be decrypted everywhere: the key that a  *)
(* running process encrypts under, and the one that a restarted process    *)
(* would, are known to every running process, and the former are entries.  *)
CurrentKeysAreKnown ==
  \A p \in Procs : Loaded(p) =>
    /\ Has(env, cipher[p].current)
    /\ Knows(p, env[1].id)
    /\ \A q \in Procs : Loaded(q) => Knows(q, cipher[p].current)

(* The comments of OperationalCipher: encrypt returns a self-describing    *)
(* blob and decrypt throws on tampering, an unknown id or a malformed one; *)
(* what encrypt has written is none of these.                              *)
WhatIsEncryptedDecrypts ==
  \A p \in Procs, s \in Slots :
    Loaded(p) /\ store[s] # NoBlob => Decrypts(cipher[p], store[s])

=============================================================================
