--------------------------- MODULE StoreEncryption ---------------------------
(***************************************************************************)
(* Encryption at rest of a store directory: StoreEncryptor, the store lock *)
(* and the processes that open the store, keep it open and read, write and *)
(* remove blobs while another process encrypts, decrypts, re-keys or wipes *)
(* it.  Any process may die between two file operations.                   *)
(*                                                                         *)
(* A blob's content is fixed by its name, so all that matters of a file is *)
(* the form it is in: plaintext, or ciphertext under one data key.         *)
(***************************************************************************)
EXTENDS Integers

CONSTANTS
  Opener,         \* processes that open the store or migrate it
  Blob,           \* blob keys
  MaxSecrets,     \* bound: data keys and tokens ever minted
  MaxDeaths       \* bound: processes that die

ASSUME EncryptionAssumption == MaxSecrets \in Nat /\ MaxDeaths \in Nat

VARIABLES
  blobs,        \* blobs/: the form of each file
  staging,      \* blobs.staging/: the form of each file
  stagingDir,   \* whether blobs.staging/ exists
  marker,       \* encryption.committing.json
  manifest,     \* encryption.json
  minted,       \* secrets minted so far
  exclusive,    \* who holds store.lock exclusively
  sharing,      \* who holds it shared
  opener,       \* what each process is doing
  deaths,
  shown,        \* history: tokens printed for the user
  untold,       \* history: tokens a store was committed under by a process that died
                \* before it printed them
  misplaced     \* history: blobs a process last wrote in a form the store was not in,
                \* or that an invalidation cut short left behind

encVars == <<blobs, staging, stagingDir, marker, manifest, minted, exclusive,
             sharing, opener, deaths, shown, untold, misplaced>>
directories == <<blobs, staging, stagingDir, misplaced>>
locks       == <<exclusive, sharing>>
tokens      == <<shown, untold>>

Secret  == 1..MaxSecrets
Absent  == -1
Plain   == 0
Garbled == MaxSecrets + 1          \* ciphertext of ciphertext
Form    == {Absent, Plain, Garbled} \cup Secret

\* The manifest wraps a data key under a token; a public store has none.
Envelope == [key : {Plain} \cup Secret, token : {Plain} \cup Secret]
Public   == [key |-> Plain, token |-> Plain]

Marker   == [op : {"none", "enable", "disable"}, manifest : Envelope]
NoMarker == [op |-> "none", manifest |-> Public]

\* What resolve_blob_store wires: a plain store, an encrypting one, or the
\* stand-in for an encrypted store without a token.
NoToken == -2
Wiring  == {NoToken, Plain} \cup Secret

Migration == {"enable", "disable", "rotate", "invalidate"}

OpenerState ==
  [at : {"closed", "recover", "begin", "stage", "move", "flip", "unmark", "wipe",
         "wire", "ready", "put", "heal"},
   op : Migration \cup {"open"},
   committing : BOOLEAN,             \* past its own commit marker
   envelope : Envelope,              \* the one this process made
   todo : SUBSET Blob,               \* files not staged yet
   wired : Wiring,
   blob : SUBSET Blob]               \* the blob being written or quarantined

Closed == [at |-> "closed", op |-> "open", committing |-> FALSE, envelope |-> Public,
           todo |-> {}, wired |-> Plain, blob |-> {}]

EncTypeOK ==
  /\ blobs \in [Blob -> Form] /\ staging \in [Blob -> Form]
  /\ stagingDir \in BOOLEAN
  /\ marker \in Marker /\ manifest \in Envelope /\ minted \in 0..MaxSecrets
  /\ exclusive \subseteq Opener /\ sharing \subseteq Opener
  /\ opener \in [Opener -> OpenerState]
  /\ deaths \in 0..MaxDeaths /\ misplaced \subseteq Blob
  /\ shown \subseteq Secret /\ untold \subseteq Secret

NoFiles == [b \in Blob |-> Absent]

EncInit ==
  /\ blobs = NoFiles /\ staging = NoFiles /\ stagingDir = FALSE
  /\ marker = NoMarker /\ manifest = Public /\ minted = 0
  /\ exclusive = {} /\ sharing = {}
  /\ opener = [p \in Opener |-> Closed]
  /\ deaths = 0 /\ shown = {} /\ untold = {} /\ misplaced = {}

Files(dir) == {b \in Blob : dir[b] # Absent}
Unresolved == marker # NoMarker \/ stagingDir

\* The form the store is in, or will be in once a pending commit is finished.
Settled == IF marker = NoMarker THEN manifest.key ELSE marker.manifest.key

IsAt(p, step) == opener[p].at = step
Goto(p, step) == opener' = [opener EXCEPT ![p].at = step]

-----------------------------------------------------------------------------
(* The store lock: a migration and a recovery fail at once when anyone     *)
(* holds it, a writer waits for an exclusive holder.                       *)

LockFree == exclusive = {} /\ sharing = {}

\* The end of an operation, by return or by an exception: the lock is released.
Leave(p) == /\ exclusive' = exclusive \ {p} /\ sharing' = sharing \ {p}
            /\ opener' = [opener EXCEPT ![p] = Closed]

\* What follows a recovery: the rest of the open, or of the migration.
Recovered(p) ==
  IF opener[p].op = "open"
    THEN exclusive' = exclusive \ {p} /\ UNCHANGED sharing /\ Goto(p, "wire")
    ELSE UNCHANGED locks /\ Goto(p, "begin")

-----------------------------------------------------------------------------
(* Opening the store.                                                      *)

\* The check for something pending takes no lock.
Open(p) ==
  /\ IsAt(p, "closed")
  /\ \/ ~Unresolved /\ Goto(p, "wire") /\ UNCHANGED locks
     \/ /\ Unresolved /\ LockFree
        /\ exclusive' = {p} /\ Goto(p, "recover") /\ UNCHANGED sharing
  /\ UNCHANGED <<directories, marker, manifest, minted, deaths, tokens>>

\* Roll forward what has a marker, roll back what has none.
RollsForward == marker # NoMarker
Recover(p) ==
  /\ IsAt(p, "recover")
  /\ IF RollsForward
       THEN Goto(p, "move") /\ UNCHANGED <<staging, stagingDir, locks>>
       ELSE staging' = NoFiles /\ stagingDir' = FALSE /\ Recovered(p)
  /\ UNCHANGED <<blobs, misplaced, marker, manifest, minted, deaths, tokens>>

\* The manifest says what to wire; a wrong token ends the open with an error.
Wire(p) ==
  /\ IsAt(p, "wire")
  /\ \E token \in {Plain} \cup 1..minted :
       LET wired == IF manifest = Public THEN Plain
                    ELSE IF token = Plain THEN NoToken
                    ELSE IF token = manifest.token THEN manifest.key ELSE Absent
       IN  opener' = [opener EXCEPT ![p] = IF wired = Absent THEN Closed
                        ELSE [Closed EXCEPT !.at = "ready", !.wired = wired]]
  /\ UNCHANGED <<directories, locks, marker, manifest, minted, deaths, tokens>>

-----------------------------------------------------------------------------
(* enable, disable, rotate, invalidate.                                    *)

StartMigration(p) ==
  /\ IsAt(p, "closed") /\ LockFree
  /\ \E op \in Migration :
       opener' = [opener EXCEPT ![p] = [Closed EXCEPT !.at = "recover", !.op = op]]
  /\ exclusive' = {p}
  /\ UNCHANGED <<directories, sharing, marker, manifest, minted, deaths, tokens>>

Stage(p, envelope) ==
  /\ staging' = NoFiles /\ stagingDir' = TRUE
  /\ opener' = [opener EXCEPT ![p] = [@ EXCEPT !.at = "stage", !.todo = Files(blobs),
                                               !.envelope = envelope]]
  /\ UNCHANGED <<blobs, misplaced, locks>>

BeginEnable(p) ==
  /\ IsAt(p, "begin") /\ opener[p].op = "enable"
  /\ IF manifest = Public
       THEN /\ minted < MaxSecrets /\ minted' = minted + 1
            /\ Stage(p, [key |-> minted', token |-> minted'])
       ELSE Leave(p) /\ UNCHANGED <<directories, minted>>
  /\ UNCHANGED <<marker, manifest, deaths, tokens>>

\* With the right token, or without.
BeginDisable(p) ==
  /\ IsAt(p, "begin") /\ opener[p].op = "disable"
  /\ \/ manifest # Public /\ Stage(p, Public)
     \/ Leave(p) /\ UNCHANGED directories
  /\ UNCHANGED <<marker, manifest, minted, deaths, tokens>>

\* The new token wraps the same data key.  It is printed when the lock is released,
\* unless the process dies between the two.
\* (mutant) the new token wraps a new data key
FreshEnvelope == [key |-> minted', token |-> minted']
Rewrapped == [key |-> manifest.key, token |-> minted']
Rotate(p) ==
  /\ IsAt(p, "begin") /\ opener[p].op = "rotate"
  /\ \/ /\ manifest # Public /\ minted < MaxSecrets
        /\ minted' = minted + 1 /\ manifest' = Rewrapped
        /\ \/ shown' = shown \cup {minted'} /\ UNCHANGED <<untold, deaths>>
           \/ /\ deaths < MaxDeaths /\ deaths' = deaths + 1
              /\ untold' = untold \cup {minted'} /\ UNCHANGED shown
     \/ UNCHANGED <<minted, manifest, tokens, deaths>>
  /\ Leave(p)
  /\ UNCHANGED <<directories, marker>>

BeginInvalidate(p) ==
  /\ IsAt(p, "begin") /\ opener[p].op = "invalidate"
  /\ manifest' = Public /\ Goto(p, "wipe")
  /\ UNCHANGED <<directories, locks, marker, minted, deaths, tokens>>

\* What staging makes of a file; Absent where the transformation raises: the file was
\* removed meanwhile, or does not decrypt.
Transformed(p, b) ==
  IF blobs[b] = Absent THEN Absent
  ELSE IF opener[p].op = "enable"
    THEN IF blobs[b] = Plain THEN opener[p].envelope.key ELSE Garbled
  ELSE IF blobs[b] = manifest.key THEN Plain ELSE Absent

\* An exception leaves the staging directory for the next recovery.
StageBlob(p) ==
  /\ IsAt(p, "stage")
  /\ \E b \in opener[p].todo :
       IF Transformed(p, b) = Absent
         THEN Leave(p) /\ UNCHANGED staging
         ELSE /\ staging' = [staging EXCEPT ![b] = Transformed(p, b)]
              /\ opener' = [opener EXCEPT ![p].todo = @ \ {b}]
              /\ UNCHANGED locks
  /\ UNCHANGED <<blobs, stagingDir, misplaced, marker, manifest, minted, deaths, tokens>>

AllStaged(p) == opener[p].todo = {}
WriteMarker(p) ==
  /\ IsAt(p, "stage") /\ AllStaged(p)
  /\ marker' = [op |-> opener[p].op, manifest |-> opener[p].envelope]
  /\ opener' = [opener EXCEPT ![p] = [@ EXCEPT !.at = "move", !.committing = TRUE]]
  /\ UNCHANGED <<directories, locks, manifest, minted, deaths, tokens>>

MoveBlob(p) ==
  /\ IsAt(p, "move")
  /\ \E b \in Files(staging) : /\ blobs' = [blobs EXCEPT ![b] = staging[b]]
                               /\ staging' = [staging EXCEPT ![b] = Absent]
  /\ UNCHANGED <<stagingDir, misplaced, locks, marker, manifest, minted, opener, deaths, tokens>>

\* (mutant) the staging directory is dropped with files still in it
SomeMoved == TRUE
AllMoved == Files(staging) = {}
DropStaging(p) ==
  /\ IsAt(p, "move") /\ AllMoved
  /\ stagingDir' = FALSE /\ staging' = NoFiles /\ Goto(p, "flip")
  /\ UNCHANGED <<blobs, misplaced, locks, marker, manifest, minted, deaths, tokens>>

Flip(p) ==
  /\ IsAt(p, "flip")
  /\ manifest' = IF marker.op = "disable" THEN Public
                 ELSE IF manifest = Public THEN marker.manifest ELSE manifest
  /\ Goto(p, "unmark")
  /\ UNCHANGED <<directories, locks, marker, minted, deaths, tokens>>

\* The end of the commit: a process that enabled encryption prints its token.
Unmark(p) ==
  /\ IsAt(p, "unmark")
  /\ marker' = NoMarker
  /\ IF opener[p].committing
       THEN Leave(p) /\ shown' = shown \cup ({opener[p].envelope.token} \ {Plain})
       ELSE Recovered(p) /\ UNCHANGED shown
  /\ UNCHANGED <<directories, manifest, minted, deaths, untold>>

Wipe(p) ==
  /\ IsAt(p, "wipe")
  /\ \E b \in Files(blobs) : blobs' = [blobs EXCEPT ![b] = Absent]
  /\ UNCHANGED <<staging, stagingDir, misplaced, locks, marker, manifest, minted, opener, deaths, tokens>>

WipeRest(p) ==
  /\ IsAt(p, "wipe") /\ Files(blobs) = {}
  /\ staging' = NoFiles /\ stagingDir' = FALSE /\ marker' = NoMarker
  /\ misplaced' = {} /\ Leave(p)
  /\ UNCHANGED <<blobs, manifest, minted, deaths, tokens>>

-----------------------------------------------------------------------------
(* A process that has opened the store.                                    *)

\* The write path holds the lock shared, waiting for an exclusive holder.
MayWrite == exclusive = {}
PutStart(p) ==
  /\ IsAt(p, "ready") /\ opener[p].wired # NoToken /\ MayWrite
  /\ \E b \in Blob :
       opener' = [opener EXCEPT ![p] = [@ EXCEPT !.at = "put", !.blob = {b}]]
  /\ sharing' = sharing \cup {p}
  /\ UNCHANGED <<directories, exclusive, marker, manifest, minted, deaths, tokens>>

Put(p) ==
  /\ IsAt(p, "put")
  /\ blobs' = [b \in Blob |-> IF b \in opener[p].blob THEN opener[p].wired ELSE blobs[b]]
  /\ misplaced' = IF opener[p].wired = Settled THEN misplaced \ opener[p].blob
                  ELSE misplaced \cup opener[p].blob
  /\ opener' = [opener EXCEPT ![p] = [@ EXCEPT !.at = "ready", !.blob = {}]]
  /\ sharing' = sharing \ {p}
  /\ UNCHANGED <<staging, stagingDir, exclusive, marker, manifest, minted, deaths, tokens>>

\* A hit takes no lock.  What does not decrypt is corrupt: the entry is quarantined.
ReadCorrupt(p) ==
  /\ IsAt(p, "ready") /\ opener[p].wired \in Secret
  /\ \E b \in Files(blobs) :
       /\ blobs[b] # opener[p].wired
       /\ opener' = [opener EXCEPT ![p] = [@ EXCEPT !.at = "heal", !.blob = {b}]]
  /\ UNCHANGED <<directories, locks, marker, manifest, minted, deaths, tokens>>

Heal(p) ==
  /\ IsAt(p, "heal")
  /\ blobs' = [b \in Blob |-> IF b \in opener[p].blob THEN Absent ELSE blobs[b]]
  /\ opener' = [opener EXCEPT ![p] = [@ EXCEPT !.at = "ready", !.blob = {}]]
  /\ UNCHANGED <<staging, stagingDir, misplaced, locks, marker, manifest, minted, deaths, tokens>>

\* A purge takes the key lock, not this one, and needs no token.
Remove(p) ==
  /\ IsAt(p, "ready")
  /\ \E b \in Files(blobs) : blobs' = [blobs EXCEPT ![b] = Absent]
  /\ UNCHANGED <<staging, stagingDir, misplaced, locks, marker, manifest, minted, opener, deaths, tokens>>

Close(p) ==
  /\ IsAt(p, "ready") /\ Leave(p)
  /\ UNCHANGED <<directories, marker, manifest, minted, deaths, tokens>>

\* The system takes a dead process's lock back.  An invalidation that dies leaves
\* ciphertext that nothing can read in what is now a public store; past its commit
\* marker a process takes its token along.
Die(p) ==
  /\ ~IsAt(p, "closed") /\ deaths < MaxDeaths /\ deaths' = deaths + 1
  /\ misplaced' = IF IsAt(p, "wipe") THEN misplaced \cup Files(blobs) ELSE misplaced
  /\ untold' = IF opener[p].committing THEN untold \cup ({opener[p].envelope.token} \ {Plain})
               ELSE untold
  /\ Leave(p)
  /\ UNCHANGED <<blobs, staging, stagingDir, marker, manifest, minted, shown>>

EncNext ==
  \E p \in Opener :
    \/ Open(p) \/ Recover(p) \/ Wire(p) \/ StartMigration(p)
    \/ BeginEnable(p) \/ BeginDisable(p) \/ Rotate(p) \/ BeginInvalidate(p)
    \/ StageBlob(p) \/ WriteMarker(p) \/ MoveBlob(p) \/ DropStaging(p)
    \/ Flip(p) \/ Unmark(p) \/ Wipe(p) \/ WipeRest(p)
    \/ PutStart(p) \/ Put(p) \/ ReadCorrupt(p) \/ Heal(p) \/ Remove(p) \/ Close(p)
    \/ Die(p)

EncSpec == EncInit /\ [][EncNext]_encVars

-----------------------------------------------------------------------------
(* Properties.                                                             *)

\* Whatever crashes and whoever recovers, a blob that was written in the form of its
\* store is in the form the manifest announces; while a commit is pending each file
\* has reached its new form or still has its new form staged (store_encryptor.py,
\* "crash-safe by construction").
Uniform ==
  \A b \in Blob \ misplaced :
    /\ marker = NoMarker => \/ blobs[b] \in {Absent, manifest.key}
                            \/ \E p \in Opener : IsAt(p, "wipe")
    /\ marker # NoMarker => \/ blobs[b] \in {Absent, Settled}
                            \/ staging[b] = Settled

\* No crash loses the data key of a blob: the manifest or the marker of a pending
\* commit wraps it, under a token that has been printed or that its process is still
\* to print.  The one exception is a token whose own process died between committing
\* the store to it and printing it: no other death, and no recovery by another
\* process, takes a token away.
KeyNeverLost ==
  \A b \in Files(blobs) \ misplaced :
    blobs[b] \in Secret =>
      \/ \E p \in Opener : IsAt(p, "wipe")
      \/ \E envelope \in {manifest, marker.manifest} :
           /\ blobs[b] = envelope.key
           /\ \/ envelope.token \in shown \cup untold
              \/ \E p \in Opener : opener[p].envelope = envelope

\* Whatever step a migration dies in, the store opens again in one form, with a token
\* that was told unless the process that minted it died with the token unprinted.
StoreStaysOpenable == Uniform /\ KeyNeverLost

\* A process that reads with the data key of the store does not take a sound blob
\* for corrupt and quarantine it, unless a commit is pending.
ReadersOfTheStoreKeepIt ==
  [][\A p \in Opener :
       IsAt(p, "ready") /\ (IsAt(p, "heal"))' /\ opener[p].wired = manifest.key
         => marker # NoMarker \/ opener'[p].blob \subseteq misplaced]_encVars
=============================================================================
