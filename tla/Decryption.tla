------------------------------ MODULE Decryption ------------------------------
(***************************************************************************)
(* How the messages of an encrypted chat become readable                   *)
(* (src/src/core/ingestion/decryption/ and the extractor's use of it): the *)
(* keys of the client's own device, those of the backup at the homeserver, *)
(* which every extraction merges with a file of keys, and an export.       *)
(* Extractions run in several processes and share the file.                *)
(*                                                                         *)
(* A key of a Megolm session reads its messages from some index on, so a   *)
(* keyring maps a session to the first index it reads; Never stands for    *)
(* no key.  The homeserver replaces a key only by an earlier one.          *)
(***************************************************************************)
EXTENDS Naturals

CONSTANTS Decryptors,       \* extractions that may run
          MegolmSessions,   \* the Megolm sessions of the chat
          Never,            \* no key: an index past every message
          Encrypted,        \* its encrypted messages: session and index
          Exported,         \* the keyring of element-keys.txt
          Garbled,          \* sessions of the backup that the recovery key does not open
          DecryptorsOverlap,\* may two extractions run at the same time?
          MaxDecryptions,   \* extractions begun
          MaxDeaths,        \* extractions that die
          Torn              \* a file that was being written when its writer ended

Keyring == [MegolmSessions -> 0..Never]
NoKeys == [s \in MegolmSessions |-> Never]

ASSUME DecryptionAssumption ==
  /\ {Never, MaxDecryptions, MaxDeaths} \subseteq Nat /\ DecryptorsOverlap \in BOOLEAN
  /\ Encrypted \subseteq MegolmSessions \X (0..(Never - 1))
  /\ Exported \in Keyring /\ Garbled \subseteq MegolmSessions
  /\ Never > 0 /\ Torn \notin Keyring

VARIABLES keyBackup,   \* the keyring of the backup
          device,      \* the keyring of the client's olm machine
          keyFile,     \* the keys of earlier backups, or Torn
          decryptor,   \* decryptor[d]: how far an extraction is
          everRead,    \* the messages some extraction has read with the backup's keys
          decryptions, \* extractions begun
          deaths       \* extractions that have died

decryptionVars == <<keyBackup, device, keyFile, decryptor, everRead, decryptions, deaths>>

NoDecryptor == [at |-> "idle", olm |-> NoKeys, keys |-> NoKeys, export |-> NoKeys,
                synced |-> FALSE, plain |-> {}]

DecryptionTypeOK ==
  /\ {keyBackup, device} \subseteq Keyring /\ (keyFile # Torn => keyFile \in Keyring)
  /\ decryptor \in [Decryptors ->
       [at : {"idle", "fetch", "merge", "open", "write", "decrypt", "done"}, olm : Keyring,
        keys : Keyring, export : Keyring, synced : BOOLEAN, plain : SUBSET Encrypted]]
  /\ everRead \subseteq Encrypted
  /\ decryptions \in 0..MaxDecryptions /\ deaths \in 0..MaxDeaths

DecryptionInit ==
  /\ keyBackup = NoKeys /\ device = NoKeys /\ keyFile = NoKeys
  /\ decryptor = [d \in Decryptors |-> NoDecryptor]
  /\ everRead = {} /\ decryptions = 0 /\ deaths = 0

AtRest(d) == decryptor[d].at \in {"idle", "done"}

-----------------------------------------------------------------------------
(* What the Matrix clients of the user do. *)

\* A client backs up a session, from an earlier index than before if at all.
Upload(s) ==
  /\ \E i \in 0..(keyBackup[s] - 1) : keyBackup' = [keyBackup EXCEPT ![s] = i]
  /\ UNCHANGED <<device, keyFile, decryptor, everRead, decryptions, deaths>>

\* A message brings the session's key to the device of the extractor.
ShareKey(s) ==
  /\ device[s] = Never
  /\ device' = [device EXCEPT ![s] = Never - 1]
  /\ UNCHANGED <<keyBackup, keyFile, decryptor, everRead, decryptions, deaths>>

\* The next login is a new device: it has none of the old one's keys.
NewDevice ==
  /\ device # NoKeys
  /\ device' = NoKeys
  /\ UNCHANGED <<keyBackup, keyFile, decryptor, everRead, decryptions, deaths>>

-----------------------------------------------------------------------------
(* _get_decryption_manager and initialize: no strategy that fails to begin stops the    *)
(* others.                                                                             *)

\* What the export holds: nothing if it is not there, or does not open.
ExportedKeys == {Exported, NoKeys}

\* The client may come without an olm machine: that strategy is left out.
BeginDecryption(d) ==
  /\ AtRest(d) /\ decryptions < MaxDecryptions
  /\ DecryptorsOverlap \/ \A e \in Decryptors : AtRest(e)
  /\ decryptions' = decryptions + 1
  /\ \E olm \in {device, NoKeys}, export \in ExportedKeys :
       decryptor' = [decryptor EXCEPT
         ![d] = [NoDecryptor EXCEPT !.at = "fetch", !.olm = olm, !.export = export]]
  /\ UNCHANGED <<keyBackup, device, keyFile, everRead, deaths>>

\* The strategy goes without keys, not even those of the file, and counts as ready.
WithoutBackup(d) ==
  decryptor' = [decryptor EXCEPT ![d].at = "decrypt", ![d].keys = NoKeys]

\* No backup, a refused token, an HTTP error.
FailFetch(d) ==
  /\ decryptor[d].at = "fetch"
  /\ WithoutBackup(d)
  /\ UNCHANGED <<keyBackup, device, keyFile, everRead, decryptions, deaths>>

\* The recovery key opens a backed-up session, or the session is skipped.
OpenedKeys(ring) == [s \in MegolmSessions |-> IF s \in Garbled THEN Never ELSE ring[s]]

\* All the backed-up keys; none on a 404.
FetchKeys(d) ==
  /\ decryptor[d].at = "fetch"
  /\ \E fetched \in {NoKeys, OpenedKeys(keyBackup)} :
       decryptor' = [decryptor EXCEPT ![d].at = "merge", ![d].keys = fetched]
  /\ UNCHANGED <<keyBackup, device, keyFile, everRead, decryptions, deaths>>

\* Slip: the file is replaced by what the backup has now.
MergedKeysSlip(old, new) == new

\* Deduplicated by session; the new key wins.
MergedKeys(old, new) == [s \in MegolmSessions |-> IF new[s] < Never THEN new[s] ELSE old[s]]

\* A file that does not parse raises a CacheError.
LoadKeyFile(d) ==
  /\ decryptor[d].at = "merge"
  /\ IF keyFile = Torn THEN WithoutBackup(d)
     ELSE decryptor' = [decryptor EXCEPT ![d].at = "open",
                                         ![d].keys = MergedKeys(keyFile, decryptor[d].keys)]
  /\ UNCHANGED <<keyBackup, device, keyFile, everRead, decryptions, deaths>>

\* Opening the file for writing empties it.
OpenKeyFile(d) ==
  /\ decryptor[d].at = "open"
  /\ keyFile' = Torn
  /\ decryptor' = [decryptor EXCEPT ![d].at = "write"]
  /\ UNCHANGED <<keyBackup, device, everRead, decryptions, deaths>>

WriteKeyFile(d) ==
  /\ decryptor[d].at = "write"
  /\ keyFile' = decryptor[d].keys
  /\ decryptor' = [decryptor EXCEPT ![d].at = "decrypt", ![d].synced = TRUE]
  /\ UNCHANGED <<keyBackup, device, everRead, decryptions, deaths>>

\* The disk is full: a CacheError again, and half a file.
FailWrite(d) ==
  /\ decryptor[d].at = "write"
  /\ WithoutBackup(d)
  /\ UNCHANGED <<keyBackup, device, keyFile, everRead, decryptions, deaths>>

-----------------------------------------------------------------------------
(* decrypt_message, for every message of the chat. *)

Reads(ring, m) == ring[m[1]] <= m[2]

PersistentSession(d) == {m \in Encrypted : Reads(decryptor[d].olm, m)}
ServerBackup(d) == {m \in Encrypted : Reads(decryptor[d].keys, m)}
ManualExport(d) == {m \in Encrypted : Reads(decryptor[d].export, m)}

\* What a strategy reads, a failure or an exception goes on to the next.
Strategies(d) == <<PersistentSession(d), ServerBackup(d), ManualExport(d)>>

\* What no strategy reads stays encrypted; if that is everything, the extraction fails.
DecryptChat(d) ==
  LET plain == UNION {Strategies(d)[n] : n \in 1..3} IN
  /\ decryptor[d].at = "decrypt"
  /\ decryptor' = [decryptor EXCEPT ![d] =
       IF plain = {} THEN NoDecryptor ELSE [@ EXCEPT !.at = "done", !.plain = plain]]
  /\ everRead' = everRead \cup ServerBackup(d)
  /\ UNCHANGED <<keyBackup, device, keyFile, decryptions, deaths>>

\* The process ends, perhaps while it writes the file.
DieDecrypting(d) ==
  /\ ~ AtRest(d) /\ deaths < MaxDeaths
  /\ deaths' = deaths + 1
  /\ decryptor' = [decryptor EXCEPT ![d] = NoDecryptor]
  /\ UNCHANGED <<keyBackup, device, keyFile, everRead, decryptions>>

DecryptionNext ==
  \/ NewDevice
  \/ \E s \in MegolmSessions : Upload(s) \/ ShareKey(s)
  \/ \E d \in Decryptors :
       \/ BeginDecryption(d) \/ FailFetch(d) \/ FetchKeys(d) \/ LoadKeyFile(d)
       \/ OpenKeyFile(d) \/ WriteKeyFile(d) \/ FailWrite(d)
       \/ DecryptChat(d) \/ DieDecrypting(d)

-----------------------------------------------------------------------------
(***************************************************************************)
(* What one extraction has read with the keys of the backup, every later   *)
(* one that gets to merge them reads too: whatever the backup answers that *)
(* time, and whatever became of the device.                                *)
(***************************************************************************)
ReadableStaysReadable ==
  [][\A d \in Decryptors :
       (decryptor[d].at = "decrypt" /\ decryptor[d].synced /\ decryptor'[d].at # "decrypt"
          /\ deaths' = deaths)
         => everRead \subseteq decryptor'[d].plain]_decryptionVars
=============================================================================
