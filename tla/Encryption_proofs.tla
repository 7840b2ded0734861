--------------------------- MODULE Encryption_proofs ---------------------------
(***************************************************************************)
(* Proofs about encryption at rest (StoreEncryption), for any number of    *)
(* processes, blobs, secrets and deaths.                                   *)
(***************************************************************************)
EXTENDS StoreEncryption, TLAPS

Holding   == {"recover", "begin", "stage", "move", "flip", "unmark", "wipe"}
Committed == {"move", "flip", "unmark"}
Wiping    == \E p \in Opener : opener[p].at = "wipe"

-----------------------------------------------------------------------------
(* The invariant.                                                          *)

Locked ==
  /\ \A p \in Opener : /\ p \in exclusive <=> opener[p].at \in Holding
                       /\ p \in sharing <=> opener[p].at = "put"
  /\ \A p \in exclusive, q \in exclusive : p = q
  /\ exclusive # {} => sharing = {}

\* An envelope of an encrypted store.
Wraps(envelope) == /\ envelope.key \in Secret /\ envelope.key <= minted
                   /\ envelope.token \in Secret

Keyed ==
  /\ manifest = Public \/ Wraps(manifest)
  /\ marker.op = "none" => marker = NoMarker
  /\ marker.op = "enable" => /\ Wraps(marker.manifest)
                             /\ manifest \in {Public, marker.manifest}
                             /\ Files(staging) # {} => manifest = Public
  /\ marker.op = "disable" => marker.manifest = Public /\ \A b \in Blob : staging[b] \in {Absent, Plain}

\* What is true of the files whoever holds the lock.
Sound ==
  /\ marker = NoMarker /\ ~Wiping => \A b \in Blob \ misplaced : blobs[b] \in {Absent, manifest.key}
  /\ marker # NoMarker => \A b \in Blob \ misplaced :
       /\ staging[b] \in {Absent, Settled} /\ blobs[b] \in {Absent, Settled, manifest.key}
       /\ blobs[b] \in {Absent, Settled} \/ staging[b] = Settled

\* No process is wired with the key of a migration that has still files to move.
Unknowing(p, key) == opener[p].wired # key

Staged(p) ==
  /\ opener[p].op \in {"enable", "disable"}
  /\ opener[p].op = "enable" => /\ manifest = Public /\ Wraps(opener[p].envelope)
                                /\ \A q \in Opener : Unknowing(q, opener[p].envelope.key)
  /\ opener[p].op = "disable" => /\ manifest # Public /\ opener[p].envelope = Public
                                 /\ \A b \in Blob : staging[b] \in {Absent, Plain}
  /\ \A b \in Blob \ misplaced :
       /\ staging[b] \in {Absent, opener[p].envelope.key}
       /\ b \notin opener[p].todo => blobs[b] = Absent \/ staging[b] = opener[p].envelope.key

Standing(p) ==
  /\ opener[p].wired <= minted
  /\ opener[p].at = "put" => opener[p].wired # NoToken
  /\ marker.op = "enable" /\ Files(staging) # {} => Unknowing(p, marker.manifest.key)
  /\ opener[p].at \in {"begin", "stage", "wipe"} => marker = NoMarker
  /\ opener[p].at = "wipe" => manifest = Public
  /\ opener[p].at = "stage" => Staged(p)
  /\ opener[p].at \in Committed =>
       /\ marker # NoMarker
       /\ opener[p].committing => marker = [op |-> opener[p].op, manifest |-> opener[p].envelope]
  /\ opener[p].at \in {"flip", "unmark"} => Files(staging) = {}
  /\ opener[p].at = "unmark" => manifest = marker.manifest
  /\ opener[p].envelope # Public => \/ opener[p].at = "stage"
                                    \/ opener[p].at \in Committed /\ opener[p].committing
  /\ opener[p].committing => opener[p].at \in Committed

\* A token that has been printed, that its process is still to print, or that its process
\* took along.
Told(envelope) == \/ envelope.token \in shown \cup untold
                  \/ \E p \in Opener : opener[p].envelope = envelope

TokensTold ==
  /\ manifest # Public => Told(manifest)
  /\ marker.op = "enable" => Told(marker.manifest)

EncInv == /\ EncTypeOK /\ Locked /\ Keyed /\ Sound /\ TokensTold
          /\ \A p \in Opener : Standing(p)

LEMMA EncInvImplies == EncInv => StoreStaysOpenable
<1> SUFFICES ASSUME EncInv PROVE StoreStaysOpenable
  OBVIOUS
<1>1. Uniform BY DEF EncInv, Sound, Uniform, Wiping, IsAt
<1>2. KeyNeverLost
  <2> SUFFICES ASSUME NEW b \in Files(blobs) \ misplaced, blobs[b] \in Secret, ~Wiping
               PROVE  \E envelope \in {manifest, marker.manifest} :
                        /\ blobs[b] = envelope.key
                        /\ \/ envelope.token \in shown \cup untold
                           \/ \E p \in Opener : opener[p].envelope = envelope
    BY DEF KeyNeverLost, Wiping, IsAt
  <2>1. b \in Blob /\ b \notin misplaced /\ blobs[b] # Absent BY DEF Files
  <2>2. Public.key \notin Secret BY DEF Public, Plain, Secret
  <2>3. CASE blobs[b] = manifest.key
    <3>1. Told(manifest) BY <2>2, <2>3 DEF EncInv, TokensTold
    <3> QED BY <2>3, <3>1 DEF Told
  <2>4. CASE marker # NoMarker /\ blobs[b] = Settled
    <3>1. blobs[b] = marker.manifest.key BY <2>4 DEF Settled
    <3>2. marker.op = "enable" BY <2>2, <2>4, <3>1 DEF EncInv, Keyed, EncTypeOK, Marker
    <3>3. Told(marker.manifest) BY <3>2 DEF EncInv, TokensTold
    <3> QED BY <3>1, <3>3 DEF Told
  <2> QED BY <2>1, <2>3, <2>4 DEF EncInv, Sound
<1> QED BY <1>1, <1>2 DEF StoreStaysOpenable

-----------------------------------------------------------------------------
(* Initially.                                                              *)

LEMMA EncInvInit == EncInit => EncInv
<1> SUFFICES ASSUME EncInit PROVE EncInv
  OBVIOUS
<1> USE DEF EncInit
<1>1. Public \in Envelope BY DEF Public, Envelope
<1>2. NoMarker \in Marker /\ NoMarker.op = "none" BY <1>1 DEF NoMarker, Marker
<1>3. Closed \in OpenerState
  BY <1>1 DEF Closed, OpenerState, Wiring, Plain, NoToken
<1>4. EncTypeOK
  <2>1. NoFiles \in [Blob -> Form] BY DEF NoFiles, Form
  <2>2. blobs \in [Blob -> Form] /\ staging \in [Blob -> Form] /\ stagingDir \in BOOLEAN
    BY <2>1
  <2>3. marker \in Marker /\ manifest \in Envelope BY <1>1, <1>2
  <2>4. minted \in 0..MaxSecrets /\ deaths \in 0..MaxDeaths BY EncryptionAssumption
  <2>5. opener \in [Opener -> OpenerState] BY <1>3
  <2> QED BY <2>2, <2>3, <2>4, <2>5 DEF EncTypeOK
<1>5. \A p \in Opener : /\ opener[p].at = "closed" /\ opener[p].wired = Plain
                        /\ opener[p].envelope = Public /\ ~opener[p].committing
  BY DEF Closed
<1>6. Locked BY <1>5 DEF Locked, Holding
<1>7. Keyed BY <1>2 DEF Keyed
<1>8. Sound BY <1>2 DEF Sound, NoFiles
<1>9. TokensTold BY <1>2 DEF TokensTold
<1>10. ASSUME NEW p \in Opener PROVE Standing(p)
  <2>1. marker.op = "none" BY <1>2
  <2> QED BY <1>5, <2>1 DEF Standing, Committed, Plain
<1> QED BY <1>4, <1>6, <1>7, <1>8, <1>9, <1>10 DEF EncInv
-----------------------------------------------------------------------------
(* What an action does to its own process, to the locks and to the rest.   *)

Others(p) == \A q \in Opener \ {p} : opener'[q] = opener[q]

\* Nothing of the process changes but the step it is at.
Steps(p, step) == /\ opener' \in [Opener -> OpenerState] /\ Others(p)
                  /\ opener'[p].at = step
                  /\ opener'[p].op = opener[p].op
                  /\ opener'[p].committing = opener[p].committing
                  /\ opener'[p].envelope = opener[p].envelope
                  /\ opener'[p].todo = opener[p].todo
                  /\ opener'[p].wired = opener[p].wired

LEMMA GotoSteps ==
  ASSUME EncTypeOK, NEW p \in Opener, NEW step, Goto(p, step),
         step \in {"recover", "begin", "move", "flip", "unmark", "wipe", "wire"}
  PROVE  Steps(p, step)
<1>1. opener \in [Opener -> OpenerState] BY DEF EncTypeOK
<1>2. opener' \in [Opener -> OpenerState] BY <1>1 DEF Goto, OpenerState
<1> QED BY <1>1, <1>2 DEF Goto, Steps, Others, OpenerState

\* The process is back where it was before its operation.
Ends(p, step) == /\ opener' \in [Opener -> OpenerState] /\ Others(p)
                 /\ opener'[p].at = step
                 /\ opener'[p].envelope = Public
                 /\ ~opener'[p].committing

LEMMA ClosedFacts == /\ Closed \in OpenerState /\ Public \in Envelope
                     /\ Closed.at = "closed" /\ Closed.op = "open" /\ Closed.wired = Plain
                     /\ Closed.envelope = Public /\ ~Closed.committing
<1>1. Public \in Envelope BY DEF Public, Envelope
<1>2. Closed \in OpenerState BY <1>1 DEF Closed, OpenerState, Wiring, Plain, NoToken
<1> QED BY <1>1, <1>2 DEF Closed

LEMMA LeaveEnds ==
  ASSUME EncTypeOK, NEW p \in Opener, opener' = [opener EXCEPT ![p] = Closed]
  PROVE  Ends(p, "closed") /\ opener'[p].wired = Plain
<1>1. opener \in [Opener -> OpenerState] BY DEF EncTypeOK
<1> QED BY <1>1, ClosedFacts DEF Ends, Others

LEMMA SameLocks ==
  ASSUME EncTypeOK, Locked, NEW p \in Opener, Others(p), UNCHANGED locks,
         opener'[p].at \in Holding <=> opener[p].at \in Holding,
         opener'[p].at = "put" <=> opener[p].at = "put"
  PROVE  Locked'
BY DEF Locked, Others, locks

LEMMA ReleasedLocks ==
  ASSUME EncTypeOK, Locked, NEW p \in Opener, Others(p),
         exclusive' = exclusive \ {p}, sharing' = sharing \ {p},
         opener'[p].at \notin Holding \cup {"put"}
  PROVE  Locked'
BY DEF Locked, Others

LEMMA TakenLocks ==
  ASSUME EncTypeOK, Locked, NEW p \in Opener, Others(p), LockFree,
         exclusive' = {p}, sharing' = sharing, opener'[p].at \in Holding
  PROVE  Locked'
BY DEF Locked, Others, LockFree, Holding

\* Blobs that are only removed, by a process that ends or starts something.
Quiet(p) ==
  /\ staging' = staging /\ stagingDir' = stagingDir
  /\ marker' = marker /\ manifest' = manifest /\ minted' = minted /\ shown' = shown
  /\ Others(p) /\ deaths' \in 0..MaxDeaths
  /\ blobs' \in [Blob -> Form] /\ \A b \in Blob : blobs'[b] \in {blobs[b], Absent}
  /\ misplaced \subseteq misplaced' /\ misplaced' \subseteq Blob
  /\ opener'[p].wired \in {opener[p].wired, manifest.key, Plain, NoToken}
  /\ opener[p].at = "wipe" /\ opener'[p].at # "wipe" => Files(blobs') \subseteq misplaced'
  /\ untold \subseteq untold' /\ untold' \subseteq Secret
  /\ \/ opener'[p].envelope = opener[p].envelope
     \/ opener[p].envelope = Public \/ opener[p].envelope.token \in untold'
     \/ opener[p].at \notin Committed

LEMMA QuietStep ==
  ASSUME EncInv, NEW p \in Opener, Quiet(p), opener' \in [Opener -> OpenerState],
         exclusive' \subseteq Opener, sharing' \subseteq Opener, Locked', Standing(p)'
  PROVE  EncInv'
<1> USE DEF Quiet
<1>1. EncTypeOK' BY DEF EncInv, EncTypeOK
<1>2. Keyed' BY DEF EncInv, Keyed, Files, Wraps
<1>3. Sound'
  <2>1. ASSUME marker = NoMarker, ~Wiping', NEW b \in Blob \ misplaced'
        PROVE  blobs'[b] \in {Absent, manifest.key}
    <3>1. CASE Wiping
      <4>1. opener[p].at = "wipe" /\ opener'[p].at # "wipe"
        BY <2>1, <3>1 DEF Wiping, Others
      <4> QED BY <2>1, <4>1 DEF Files
    <3>2. CASE ~Wiping
      <4>1. blobs[b] \in {Absent, manifest.key} BY <2>1, <3>2 DEF EncInv, Sound
      <4> QED BY <2>1, <4>1
    <3> QED BY <3>1, <3>2
  <2>2. ASSUME marker # NoMarker, NEW b \in Blob \ misplaced'
        PROVE  /\ staging[b] \in {Absent, Settled} /\ blobs'[b] \in {Absent, Settled, manifest.key}
               /\ blobs'[b] \in {Absent, Settled} \/ staging[b] = Settled
    BY <2>2 DEF EncInv, Sound
  <2>3. Settled' = Settled BY DEF Settled
  <2> QED BY <2>1, <2>2, <2>3 DEF Sound
<1>4. ASSUME NEW envelope, Told(envelope), envelope # Public
      PROVE  \/ Told(envelope)'
             \/ envelope = opener[p].envelope /\ opener[p].at \notin Committed
  <2>1. CASE envelope.token \in shown \cup untold
    BY <2>1 DEF Told
  <2>2. ASSUME NEW q \in Opener, opener[q].envelope = envelope
        PROVE  \/ Told(envelope)'
               \/ envelope = opener[p].envelope /\ opener[p].at \notin Committed
    BY <1>4, <2>2 DEF Told, Others
  <2> QED BY <1>4, <2>1, <2>2 DEF Told
<1>5. TokensTold'
  <2>1. ASSUME opener[p].at \notin Committed, opener[p].envelope # Public
        PROVE  opener[p].at = "stage" /\ marker = NoMarker /\ manifest = Public
    BY <2>1 DEF EncInv, Standing, Staged
  <2>2. manifest # Public => Told(manifest)' BY <1>4, <2>1 DEF EncInv, TokensTold
  <2>3. marker.op = "enable" => Told(marker.manifest)'
    <3>1. marker.op = "enable" => marker # NoMarker /\ marker.manifest # Public
      <4>1. NoMarker.op = "none" /\ Public.key \notin Secret
        BY DEF NoMarker, Public, Plain, Secret
      <4> QED BY <4>1 DEF EncInv, Keyed, Wraps
    <3> QED BY <1>4, <2>1, <3>1 DEF EncInv, TokensTold
  <2> QED BY <2>2, <2>3 DEF TokensTold, Told
<1>6. ASSUME NEW q \in Opener \ {p} PROVE Standing(q)'
  <2>1. opener'[q] = opener[q] /\ Standing(q) BY DEF EncInv, Others
  <2>2. opener[q].at = "stage" => Staged(q)'
    <3> SUFFICES ASSUME opener[q].at = "stage" PROVE Staged(q)'
      OBVIOUS
    <3>1. Staged(q) BY <2>1 DEF Standing
    <3>2. ASSUME opener[q].op = "enable", NEW r \in Opener
          PROVE  Unknowing(r, opener[q].envelope.key)'
      <4>1. manifest.key = Plain /\ opener[q].envelope.key \in Secret
        BY <3>1, <3>2 DEF Staged, Wraps, Public
      <4>2. Unknowing(r, opener[q].envelope.key) BY <3>1, <3>2 DEF Staged
      <4>3. opener[q].envelope.key \notin {Plain, NoToken}
        BY <4>1 DEF Secret, Plain, NoToken
      <4> QED BY <2>1, <4>1, <4>2, <4>3 DEF Unknowing, Others
    <3> QED BY <2>1, <3>1, <3>2 DEF Staged, Wraps
  <2> QED BY <2>1, <2>2 DEF Standing, Unknowing, Files
<1> QED BY <1>1, <1>2, <1>3, <1>5, <1>6 DEF EncInv

\* Only the process that holds the lock changes what the store is made of.
LEMMA HolderStep ==
  ASSUME EncInv, NEW p \in Opener, opener[p].at \in Holding, Others(p),
         minted \in Nat, minted' \in Nat, minted <= minted',
         \A q \in Opener : (marker.op = "enable" /\ Files(staging) # {}
                               => Unknowing(q, marker.manifest.key))',
         EncTypeOK', Locked', Keyed', Sound', TokensTold', Standing(p)'
  PROVE  EncInv'
<1>1. ASSUME NEW q \in Opener \ {p} PROVE Standing(q)'
  <2>1. opener'[q] = opener[q] /\ Standing(q) BY DEF EncInv, Others
  <2>2. opener[q].at \notin Holding BY DEF EncInv, Locked
  <2>3. opener[q].at \notin Committed \cup {"begin", "stage", "wipe"}
    BY <2>2 DEF Holding, Committed
  <2>4. opener[q].wired \in Int BY DEF EncInv, EncTypeOK, OpenerState, Wiring, NoToken, Plain, Secret
  <2>5. opener'[q].wired <= minted' BY <2>1, <2>4 DEF Standing
  <2>6. (marker.op = "enable" /\ Files(staging) # {} => Unknowing(q, marker.manifest.key))'
    OBVIOUS
  <2> QED BY <2>1, <2>3, <2>5, <2>6 DEF Standing, Committed
<1> QED BY <1>1 DEF EncInv

-----------------------------------------------------------------------------
(* The steps that change nothing of a migration.                           *)

LEMMA IdleStep ==
  ASSUME EncInv, NEW p \in Opener, Quiet(p), opener' \in [Opener -> OpenerState],
         exclusive' \subseteq Opener, sharing' \subseteq Opener, Locked',
         opener'[p].at \in {"closed", "wire", "ready", "put", "heal", "recover"},
         opener'[p].at = "put" => opener'[p].wired # NoToken,
         opener'[p].envelope = Public, ~opener'[p].committing
  PROVE  EncInv'
<1>1. opener'[p].wired <= minted
  <2>1. manifest.key <= minted /\ Plain <= minted /\ NoToken <= minted
    BY DEF EncInv, EncTypeOK, Keyed, Wraps, Public, Plain, NoToken
  <2>2. opener[p].wired <= minted BY DEF EncInv, Standing
  <2> QED BY <2>1, <2>2 DEF Quiet
<1>2. marker.op = "enable" /\ Files(staging) # {} => opener'[p].wired # marker.manifest.key
  <2> SUFFICES ASSUME marker.op = "enable", Files(staging) # {}
               PROVE  opener'[p].wired # marker.manifest.key
    OBVIOUS
  <2>1. Wraps(marker.manifest) /\ manifest = Public BY DEF EncInv, Keyed
  <2>2. marker.manifest.key \notin {Plain, NoToken} /\ manifest.key = Plain
    BY <2>1 DEF Wraps, Secret, Plain, NoToken, Public
  <2>3. opener[p].wired # marker.manifest.key BY DEF EncInv, Standing, Unknowing
  <2> QED BY <2>2, <2>3 DEF Quiet
<1>3. Standing(p)'
  BY <1>1, <1>2 DEF Quiet, Standing, Unknowing, Files, Committed
<1> QED BY <1>3, QuietStep

Unmoved == UNCHANGED <<staging, stagingDir, marker, manifest, minted, shown>>

LEMMA LeaveStep ==
  ASSUME EncInv, NEW p \in Opener, Leave(p), Unmoved, blobs' = blobs,
         misplaced \subseteq misplaced', misplaced' \subseteq Blob,
         deaths' \in 0..MaxDeaths, untold \subseteq untold', untold' \subseteq Secret,
         opener[p].at = "wipe" => Files(blobs) \subseteq misplaced',
         opener[p].at \in Committed /\ opener[p].envelope # Public
           => opener[p].envelope.token \in untold'
  PROVE  EncInv'
<1>1. Ends(p, "closed") /\ opener'[p].wired = Plain BY LeaveEnds DEF Leave, EncInv
<1>2. Locked' BY <1>1, ReleasedLocks DEF EncInv, Leave, Ends, Holding
<1>3. Quiet(p)
  <2>1. blobs' \in [Blob -> Form] BY DEF EncInv, EncTypeOK
  <2> QED BY <1>1, <2>1 DEF Quiet, Ends, Unmoved
<1>4. exclusive' \subseteq Opener /\ sharing' \subseteq Opener
  BY DEF Leave, EncInv, EncTypeOK
<1> QED BY <1>1, <1>2, <1>3, <1>4, IdleStep DEF Ends

\* A step that only changes what its process does.
LEMMA OwnStep ==
  ASSUME EncInv, NEW p \in Opener, Unmoved, UNCHANGED <<blobs, misplaced, deaths, untold>>,
         Others(p), opener[p].at # "wipe", opener[p].at \notin Committed,
         opener'[p].wired \in {opener[p].wired, manifest.key, Plain, NoToken}
  PROVE  Quiet(p)
<1>1. /\ blobs \in [Blob -> Form] /\ misplaced \subseteq Blob /\ deaths \in 0..MaxDeaths
      /\ untold \subseteq Secret
  BY DEF EncInv, EncTypeOK
<1> QED BY <1>1 DEF Quiet, Unmoved

\* Outside a migration a process has made no envelope.
LEMMA NoEnvelope ==
  ASSUME EncInv, NEW p \in Opener, opener[p].at \notin {"stage"} \cup Committed
  PROVE  opener[p].envelope = Public /\ ~opener[p].committing
BY DEF EncInv, Standing

LEMMA OpenStep == ASSUME EncInv, NEW p \in Opener, Open(p) PROVE EncInv'
<1>0. opener[p].at = "closed" BY DEF Open, IsAt
<1>1. EncTypeOK /\ Locked BY DEF EncInv
<1>2. PICK step \in {"wire", "recover"} : Goto(p, step) /\ (step = "wire" => UNCHANGED locks)
        /\ (step = "recover" => LockFree /\ exclusive' = {p} /\ sharing' = sharing)
  BY DEF Open
<1>3. Steps(p, step) BY <1>1, <1>2, GotoSteps
<1>4. Locked'
  <2>1. CASE step = "wire" BY <1>0, <1>1, <1>2, <1>3, <2>1, SameLocks DEF Steps, Holding
  <2>2. CASE step = "recover" BY <1>1, <1>2, <1>3, <2>2, TakenLocks DEF Steps, Holding
  <2> QED BY <2>1, <2>2
<1>5. Quiet(p)
  BY <1>0, <1>3, OwnStep DEF Open, Unmoved, directories, tokens, Steps, Committed
<1>6. opener'[p].envelope = Public /\ ~opener'[p].committing
  BY <1>0, <1>3, NoEnvelope DEF Committed, Steps
<1>7. exclusive' \subseteq Opener /\ sharing' \subseteq Opener
  BY <1>1, <1>2 DEF EncTypeOK, locks
<1> QED BY <1>3, <1>4, <1>5, <1>6, <1>7, IdleStep DEF Steps

LEMMA WireStep == ASSUME EncInv, NEW p \in Opener, Wire(p) PROVE EncInv'
<1>0. opener[p].at = "wire" BY DEF Wire, IsAt
<1>1. EncTypeOK /\ Locked BY DEF EncInv
<1>2. opener \in [Opener -> OpenerState] /\ manifest \in Envelope BY <1>1 DEF EncTypeOK
<1>3. PICK wired \in {NoToken, Plain, manifest.key, Absent} :
        opener' = [opener EXCEPT ![p] = IF wired = Absent THEN Closed
                     ELSE [Closed EXCEPT !.at = "ready", !.wired = wired]]
  BY DEF Wire
<1>4. /\ opener' \in [Opener -> OpenerState] /\ Others(p)
      /\ opener'[p].at \in {"closed", "ready"} /\ opener'[p].envelope = Public
      /\ ~opener'[p].committing /\ opener'[p].wired \in {NoToken, Plain, manifest.key}
  <2>1. CASE wired = Absent
    BY <1>1, <1>3, <2>1, LeaveEnds DEF Ends
  <2>2. CASE wired # Absent
    <3>1. wired \in Wiring BY <1>2, <1>3, <2>2 DEF Envelope, Wiring, Plain
    <3>2. DEFINE new == [Closed EXCEPT !.at = "ready", !.wired = wired]
    <3>3. /\ new \in OpenerState /\ new.at = "ready" /\ new.envelope = Public
          /\ ~new.committing /\ new.wired = wired
      BY <3>1, ClosedFacts DEF OpenerState
    <3>4. opener' = [opener EXCEPT ![p] = new] BY <1>3, <2>2
    <3> HIDE DEF new
    <3>5. opener' \in [Opener -> OpenerState] /\ Others(p) /\ opener'[p] = new
      BY <1>2, <3>3, <3>4 DEF Others
    <3> QED BY <1>3, <2>2, <3>3, <3>5
  <2> QED BY <2>1, <2>2
<1>5. Locked'
  BY <1>0, <1>1, <1>4, SameLocks DEF Wire, Holding
<1>6. Quiet(p)
  BY <1>0, <1>4, OwnStep DEF Wire, Unmoved, directories, tokens, Committed
<1>7. exclusive' \subseteq Opener /\ sharing' \subseteq Opener
  BY <1>1 DEF EncTypeOK, locks, Wire
<1> QED BY <1>4, <1>5, <1>6, <1>7, IdleStep

LEMMA StartStep == ASSUME EncInv, NEW p \in Opener, StartMigration(p) PROVE EncInv'
<1>0. opener[p].at = "closed" /\ LockFree BY DEF StartMigration, IsAt
<1>1. EncTypeOK /\ Locked BY DEF EncInv
<1>2. PICK op \in Migration :
        opener' = [opener EXCEPT ![p] = [Closed EXCEPT !.at = "recover", !.op = op]]
  BY DEF StartMigration
<1> DEFINE new == [Closed EXCEPT !.at = "recover", !.op = op]
<1>3. /\ new \in OpenerState /\ new.at = "recover" /\ new.envelope = Public
      /\ ~new.committing /\ new.wired = Plain
  BY ClosedFacts DEF OpenerState
<1> HIDE DEF new
<1>4. opener' \in [Opener -> OpenerState] /\ Others(p) /\ opener'[p] = new
  BY <1>1, <1>2, <1>3 DEF Others, EncTypeOK, new
<1>5. Locked' BY <1>0, <1>1, <1>3, <1>4, TakenLocks DEF StartMigration, Holding
<1>6. Quiet(p)
  BY <1>0, <1>3, <1>4, OwnStep DEF StartMigration, Unmoved, directories, tokens, Committed
<1>7. exclusive' \subseteq Opener /\ sharing' \subseteq Opener
  BY <1>1 DEF EncTypeOK, StartMigration
<1> QED BY <1>3, <1>4, <1>5, <1>6, <1>7, IdleStep

LEMMA CloseStep == ASSUME EncInv, NEW p \in Opener, Close(p) PROVE EncInv'
<1>1. /\ misplaced \subseteq Blob /\ deaths \in 0..MaxDeaths /\ untold \subseteq Secret
  BY DEF EncInv, EncTypeOK
<1> QED BY <1>1, LeaveStep DEF Close, IsAt, Unmoved, directories, tokens, Committed

LEMMA DieStep == ASSUME EncInv, NEW p \in Opener, Die(p) PROVE EncInv'
<1>1. /\ misplaced \subseteq Blob /\ deaths \in 0..MaxDeaths /\ Files(blobs) \subseteq Blob
      /\ MaxDeaths \in Nat
  BY EncryptionAssumption DEF EncInv, EncTypeOK, Files
<1>2. deaths' \in 0..MaxDeaths BY <1>1 DEF Die
<1>3. /\ misplaced \subseteq misplaced' /\ misplaced' \subseteq Blob
      /\ opener[p].at = "wipe" => Files(blobs) \subseteq misplaced'
  BY <1>1 DEF Die, IsAt
<1>4. untold \subseteq untold' /\ untold' \subseteq Secret
  <2>1. untold \subseteq Secret /\ opener[p].envelope.token \in {Plain} \cup Secret
    BY DEF EncInv, EncTypeOK, OpenerState, Envelope
  <2> QED BY <2>1 DEF Die
<1>5. ASSUME opener[p].at \in Committed, opener[p].envelope # Public
      PROVE  opener[p].envelope.token \in untold'
  <2>1. opener[p].committing /\ marker.manifest = opener[p].envelope /\ marker # NoMarker
    BY <1>5 DEF EncInv, Standing, Committed
  <2>2. opener[p].envelope.token \in Secret
    BY <1>5, <2>1 DEF EncInv, Keyed, EncTypeOK, Marker, Wraps
  <2>3. opener[p].envelope.token # Plain BY <2>2 DEF Secret, Plain
  <2> QED BY <2>1, <2>3 DEF Die
<1> QED BY <1>2, <1>3, <1>4, <1>5, LeaveStep DEF Die, Unmoved

\* A step of a process that has the store open, taking or dropping blobs.
LEMMA ReadyStep ==
  ASSUME EncInv, NEW p \in Opener, Unmoved, UNCHANGED <<misplaced, deaths, untold, exclusive>>,
         opener[p].at \in {"ready", "heal"},
         blobs' \in [Blob -> Form], \A b \in Blob : blobs'[b] \in {blobs[b], Absent},
         opener' \in [Opener -> OpenerState], Others(p),
         opener'[p].at \in {"ready", "heal", "put"}, opener'[p].envelope = opener[p].envelope,
         opener'[p].committing = opener[p].committing, opener'[p].wired = opener[p].wired,
         IF opener'[p].at = "put"
           THEN exclusive = {} /\ sharing' = sharing \cup {p} /\ opener[p].wired # NoToken
           ELSE sharing' = sharing
  PROVE  EncInv'
<1>1. EncTypeOK /\ Locked BY DEF EncInv
<1>2. Locked'
  BY <1>1 DEF Locked, Others, Holding
<1>3. Quiet(p)
  <2>1. misplaced \subseteq Blob /\ deaths \in 0..MaxDeaths /\ untold \subseteq Secret
    BY <1>1 DEF EncTypeOK
  <2> QED BY <2>1 DEF Quiet, Unmoved
<1>4. opener[p].envelope = Public /\ ~opener[p].committing BY NoEnvelope DEF Committed
<1>5. exclusive' \subseteq Opener /\ sharing' \subseteq Opener BY <1>1 DEF EncTypeOK
<1> QED BY <1>2, <1>3, <1>4, <1>5, IdleStep

LEMMA PutStartStep == ASSUME EncInv, NEW p \in Opener, PutStart(p) PROVE EncInv'
<1>1. opener \in [Opener -> OpenerState] /\ blobs \in [Blob -> Form] BY DEF EncInv, EncTypeOK
<1>2. PICK b \in Blob :
        opener' = [opener EXCEPT ![p] = [@ EXCEPT !.at = "put", !.blob = {b}]]
  BY DEF PutStart
<1>3. /\ opener' \in [Opener -> OpenerState] /\ Others(p) /\ opener'[p].at = "put"
      /\ opener'[p].envelope = opener[p].envelope
      /\ opener'[p].committing = opener[p].committing /\ opener'[p].wired = opener[p].wired
  BY <1>1, <1>2 DEF OpenerState, Others
<1> QED BY <1>1, <1>3, ReadyStep DEF PutStart, IsAt, MayWrite, Unmoved, directories, tokens

LEMMA ReadCorruptStep == ASSUME EncInv, NEW p \in Opener, ReadCorrupt(p) PROVE EncInv'
<1>1. opener \in [Opener -> OpenerState] /\ blobs \in [Blob -> Form] BY DEF EncInv, EncTypeOK
<1>2. PICK b \in Files(blobs) :
        opener' = [opener EXCEPT ![p] = [@ EXCEPT !.at = "heal", !.blob = {b}]]
  BY DEF ReadCorrupt
<1>3. /\ opener' \in [Opener -> OpenerState] /\ Others(p) /\ opener'[p].at = "heal"
      /\ opener'[p].envelope = opener[p].envelope
      /\ opener'[p].committing = opener[p].committing /\ opener'[p].wired = opener[p].wired
  BY <1>1, <1>2 DEF OpenerState, Others, Files
<1> QED BY <1>1, <1>3, ReadyStep DEF ReadCorrupt, IsAt, Unmoved, directories, tokens, locks

LEMMA HealStep == ASSUME EncInv, NEW p \in Opener, Heal(p) PROVE EncInv'
<1>1. opener \in [Opener -> OpenerState] /\ blobs \in [Blob -> Form] BY DEF EncInv, EncTypeOK
<1>2. opener' = [opener EXCEPT ![p] = [@ EXCEPT !.at = "ready", !.blob = {}]]
  BY DEF Heal
<1>3. /\ opener' \in [Opener -> OpenerState] /\ Others(p) /\ opener'[p].at = "ready"
      /\ opener'[p].envelope = opener[p].envelope
      /\ opener'[p].committing = opener[p].committing /\ opener'[p].wired = opener[p].wired
  BY <1>1, <1>2 DEF OpenerState, Others
<1>4. blobs' \in [Blob -> Form] /\ \A b \in Blob : blobs'[b] \in {blobs[b], Absent}
  BY <1>1 DEF Heal, Form
<1> QED BY <1>3, <1>4, ReadyStep DEF Heal, IsAt, Unmoved, locks, tokens

LEMMA RemoveStep == ASSUME EncInv, NEW p \in Opener, Remove(p) PROVE EncInv'
<1>1. opener \in [Opener -> OpenerState] /\ blobs \in [Blob -> Form] BY DEF EncInv, EncTypeOK
<1>2. blobs' \in [Blob -> Form] /\ \A b \in Blob : blobs'[b] \in {blobs[b], Absent}
  BY <1>1 DEF Remove, Form, Files
<1>3. opener' = opener /\ Others(p) BY DEF Remove, Others
<1> QED BY <1>1, <1>2, <1>3, ReadyStep DEF Remove, IsAt, Unmoved, locks, tokens

LEMMA WipeStep == ASSUME EncInv, NEW p \in Opener, Wipe(p) PROVE EncInv'
<1>1. EncTypeOK /\ Locked /\ Standing(p) BY DEF EncInv
<1>2. blobs' \in [Blob -> Form] /\ \A b \in Blob : blobs'[b] \in {blobs[b], Absent}
  BY <1>1 DEF Wipe, EncTypeOK, Form, Files
<1>3. opener' = opener /\ exclusive' = exclusive /\ sharing' = sharing /\ opener[p].at = "wipe"
  BY DEF Wipe, locks, IsAt
<1>4. Quiet(p)
  <2>1. misplaced \subseteq Blob /\ deaths \in 0..MaxDeaths /\ untold \subseteq Secret
    BY <1>1 DEF EncTypeOK
  <2>2. UNCHANGED <<deaths, untold>> BY DEF Wipe, tokens
  <2> QED BY <1>2, <1>3, <2>1, <2>2 DEF Quiet, Wipe, Others, tokens
<1>5. Locked' BY <1>1, <1>3 DEF Locked
<1>6. Standing(p)' BY <1>1, <1>3 DEF Standing, Wipe, Unknowing, Files, Committed
<1> QED BY <1>1, <1>3, <1>4, <1>5, <1>6, QuietStep DEF EncTypeOK

LEMMA PutStep == ASSUME EncInv, NEW p \in Opener, Put(p) PROVE EncInv'
<1>1. EncTypeOK /\ Locked /\ Standing(p) BY DEF EncInv
<1>2. /\ opener[p].at = "put" /\ exclusive = {} /\ exclusive' = {}
      /\ staging' = staging /\ stagingDir' = stagingDir /\ marker' = marker
      /\ manifest' = manifest /\ minted' = minted /\ UNCHANGED <<deaths, untold>> /\ shown' = shown
  BY <1>1 DEF Put, IsAt, Locked, tokens
<1>3. /\ opener' \in [Opener -> OpenerState] /\ Others(p) /\ opener'[p].at = "ready"
      /\ opener'[p].envelope = opener[p].envelope
      /\ opener'[p].committing = opener[p].committing /\ opener'[p].wired = opener[p].wired
  BY <1>1 DEF Put, EncTypeOK, OpenerState, Others
<1>4. \A q \in Opener : opener[q].at \notin Holding /\ opener'[q].at \notin Holding
  BY <1>1, <1>2, <1>3 DEF Locked, Others, Holding
<1>5. EncTypeOK'
  <2>1. opener[p] \in OpenerState BY <1>1 DEF EncTypeOK
  <2>2. opener[p].wired \in {NoToken, Plain} \cup Secret /\ opener[p].blob \subseteq Blob
    BY <2>1 DEF OpenerState, Wiring
  <2>3. blobs' \in [Blob -> Form]
    <3>1. opener[p].wired \in Form BY <1>1, <1>2, <2>2 DEF Form, Standing
    <3> QED BY <1>1, <3>1 DEF Put, EncTypeOK
  <2>4. misplaced' \subseteq Blob BY <1>1, <2>2 DEF Put, EncTypeOK
  <2>5. sharing' \subseteq Opener BY <1>1 DEF Put, EncTypeOK
  <2> QED BY <1>1, <1>2, <1>3, <2>3, <2>4, <2>5 DEF EncTypeOK
<1>6. Locked'
  BY <1>1, <1>2, <1>3 DEF Locked, Others, Holding, Put
<1>7. Keyed' BY <1>2 DEF EncInv, Keyed, Files, Wraps
<1>8. ASSUME NEW b \in Blob \ misplaced'
      PROVE  \/ b \notin misplaced /\ blobs'[b] = blobs[b]
             \/ blobs'[b] = opener[p].wired /\ opener[p].wired = Settled
  BY <1>1, <1>8 DEF Put, EncTypeOK
<1>9. Sound'
  <2>1. ASSUME marker = NoMarker, NEW b \in Blob \ misplaced'
        PROVE  blobs'[b] \in {Absent, manifest.key}
    <3>1. ~Wiping BY <1>4 DEF Wiping, Holding
    <3> QED BY <1>8, <2>1, <3>1 DEF EncInv, Sound, Settled
  <2>2. ASSUME marker # NoMarker, NEW b \in Blob \ misplaced'
        PROVE  /\ staging[b] \in {Absent, Settled} /\ blobs'[b] \in {Absent, Settled, manifest.key}
               /\ blobs'[b] \in {Absent, Settled} \/ staging[b] = Settled
    <3>1. CASE b \notin misplaced /\ blobs'[b] = blobs[b]
      BY <2>2, <3>1 DEF EncInv, Sound
    <3>2. CASE blobs'[b] = opener[p].wired /\ opener[p].wired = Settled
      <4>1. Settled = marker.manifest.key BY <2>2 DEF Settled
      <4>2. CASE marker.op = "enable"
        <5>1. Files(staging) = {} BY <1>1, <3>2, <4>1, <4>2 DEF Standing, Unknowing
        <5> QED BY <3>2, <5>1 DEF Files
      <4>3. CASE marker.op = "disable"
        <5>1. Settled = Plain BY <4>1, <4>3 DEF EncInv, Keyed, Public
        <5> QED BY <3>2, <4>3, <5>1 DEF EncInv, Keyed
      <4>4. marker.op \in {"enable", "disable"}
        BY <1>1, <2>2 DEF EncInv, EncTypeOK, Keyed, Marker
      <4> QED BY <4>2, <4>3, <4>4
    <3> QED BY <1>8, <3>1, <3>2
  <2>3. Settled' = Settled BY <1>2 DEF Settled
  <2> QED BY <1>2, <2>1, <2>2, <2>3 DEF Sound
<1>10. TokensTold'
  <2>1. \A q \in Opener : opener'[q].envelope = opener[q].envelope BY <1>3 DEF Others
  <2> QED BY <1>2, <2>1 DEF EncInv, TokensTold, Told
<1>11. ASSUME NEW q \in Opener PROVE Standing(q)'
  <2>1. /\ opener'[q].wired = opener[q].wired /\ opener'[q].envelope = opener[q].envelope
        /\ opener'[q].committing = opener[q].committing
    BY <1>3 DEF Others
  <2>2. opener[q].at \notin Committed \cup {"begin", "stage", "wipe"}
        /\ opener'[q].at \notin Committed \cup {"begin", "stage", "wipe"}
    BY <1>4 DEF Holding, Committed
  <2>3. opener'[q].at = "put" => opener'[q].wired # NoToken
    BY <1>3 DEF EncInv, Standing, Others
  <2> QED BY <1>2, <2>1, <2>2, <2>3 DEF EncInv, Standing, Unknowing, Files, Committed
<1> QED BY <1>5, <1>6, <1>7, <1>9, <1>10, <1>11 DEF EncInv

-----------------------------------------------------------------------------
(* The steps of the process that holds the lock.                           *)

LEMMA Alone ==
  ASSUME EncInv, NEW p \in Opener, opener[p].at \in Holding
  PROVE  /\ EncTypeOK /\ Locked /\ Keyed /\ Sound /\ TokensTold /\ Standing(p)
         /\ opener[p].at # "put" /\ minted \in Nat
         /\ \A q \in Opener \ {p} : opener[q].at \notin Holding /\ opener[q].envelope = Public
         /\ Wiping => opener[p].at = "wipe"
<1>1. EncTypeOK /\ Locked /\ Keyed /\ Sound /\ TokensTold /\ Standing(p) BY DEF EncInv
<1>2. ASSUME NEW q \in Opener \ {p}
      PROVE  opener[q].at \notin Holding /\ opener[q].envelope = Public
  <2>1. opener[q].at \notin Holding BY <1>1 DEF Locked
  <2>2. opener[q].at \notin {"stage"} \cup Committed BY <2>1 DEF Holding, Committed
  <2> QED BY <2>1, <2>2, NoEnvelope
<1>3. Wiping => opener[p].at = "wipe" BY <1>2 DEF Wiping, Holding
<1>4. opener[p].at # "put" BY DEF Holding
<1>5. minted \in Nat BY <1>1, EncryptionAssumption DEF EncTypeOK
<1> QED BY <1>1, <1>2, <1>3, <1>4, <1>5

\* A token that was told stays told while its process goes on.
LEMMA ToldStays ==
  ASSUME EncInv, NEW p \in Opener, Others(p), shown \subseteq shown', UNCHANGED <<deaths, untold>>,
         NEW envelope, Told(envelope),
         \/ opener'[p].envelope = opener[p].envelope
         \/ opener[p].envelope # envelope
         \/ envelope.token \in shown'
  PROVE  Told(envelope)'
BY DEF Told, Others

\* Neither envelope of the store changes and the process keeps its own.
LEMMA TokensStay ==
  ASSUME EncInv, NEW p \in Opener, Others(p), shown' = shown, UNCHANGED <<deaths, untold>>,
         manifest' = manifest, marker' = marker,
         opener'[p].envelope = opener[p].envelope \/ opener[p].envelope = Public
  PROVE  TokensTold'
<1>1. manifest # Public => Told(manifest)' BY ToldStays DEF EncInv, TokensTold
<1>2. marker.op = "enable" => Told(marker.manifest)'
  <2>1. Wraps(Public) => FALSE BY DEF Wraps, Public, Plain, Secret
  <2>2. marker.op = "enable" => marker.manifest # Public BY <2>1 DEF EncInv, Keyed
  <2> QED BY <2>2, ToldStays DEF EncInv, TokensTold
<1> QED BY <1>1, <1>2 DEF TokensTold, Told

LEMMA NoFilesFacts ==
  /\ NoFiles \in [Blob -> Form] /\ Files(NoFiles) = {} /\ \A b \in Blob : NoFiles[b] = Absent
BY DEF NoFiles, Files, Form

\* What follows a recovery that leaves nothing pending.
LEMMA RecoveredStep ==
  ASSUME EncInv, NEW p \in Opener, opener[p].at \in Holding, Recovered(p),
         opener[p].at # "wipe", NoMarker \in Marker,
         marker' = NoMarker, manifest' = manifest, minted' = minted, UNCHANGED <<deaths, untold>>,
         shown' = shown, misplaced' = misplaced, blobs' = blobs, stagingDir' \in BOOLEAN,
         staging' \in [Blob -> Form], ~opener[p].committing,
         \A b \in Blob \ misplaced : blobs[b] \in {Absent, manifest.key},
         opener[p].envelope = Public
  PROVE  EncInv'
<1>1. /\ EncTypeOK /\ Locked /\ Keyed /\ TokensTold /\ Standing(p) /\ minted \in Nat
  BY Alone
<1>2. NoMarker.op = "none" BY DEF NoMarker
<1>3. PICK step \in {"wire", "begin"} :
        /\ Steps(p, step)
        /\ step = "wire" => exclusive' = exclusive \ {p} /\ sharing' = sharing
        /\ step = "begin" => UNCHANGED locks
  BY <1>1, GotoSteps DEF Recovered
<1>4. Locked'
  <2>1. CASE step = "begin" BY <1>1, <1>3, <2>1, SameLocks DEF Steps, Holding
  <2>2. CASE step = "wire"
    <3>1. sharing \ {p} = sharing BY <1>1 DEF Locked
    <3> QED BY <1>1, <1>3, <2>2, <3>1, ReleasedLocks DEF Steps, Holding
  <2> QED BY <2>1, <2>2
<1>5. EncTypeOK'
  <2>1. exclusive' \subseteq Opener /\ sharing' \subseteq Opener
    BY <1>1, <1>3 DEF EncTypeOK, locks
  <2> QED BY <1>1, <1>3, <2>1 DEF EncTypeOK, Steps
<1>6. Keyed' BY <1>1, <1>2 DEF Keyed, Wraps
<1>7. Sound' BY DEF Sound
<1>8. TokensTold'
  <2>1. manifest # Public => Told(manifest)' BY <1>1, <1>3, ToldStays DEF TokensTold, Steps
  <2> QED BY <1>2, <2>1 DEF TokensTold, Told
<1>9. Standing(p)'
  <2>1. opener'[p].at \notin {"put", "stage", "wipe"} \cup Committed BY <1>3 DEF Steps, Committed
  <2> QED BY <1>1, <1>2, <1>3, <2>1 DEF Standing, Steps, Committed
<1>10. (\A q \in Opener : (marker.op = "enable" /\ Files(staging) # {}
                              => Unknowing(q, marker.manifest.key)))'
  BY <1>2
<1> QED BY <1>1, <1>3, <1>4, <1>5, <1>6, <1>7, <1>8, <1>9, <1>10, HolderStep DEF Steps

LEMMA NoMarkerFacts == NoMarker \in Marker /\ NoMarker.op = "none"
BY ClosedFacts DEF NoMarker, Marker

LEMMA RecoverStep == ASSUME EncInv, NEW p \in Opener, Recover(p) PROVE EncInv'
<1>0. opener[p].at = "recover" BY DEF Recover, IsAt
<1>1. /\ EncTypeOK /\ Locked /\ Sound /\ Standing(p) /\ ~Wiping
  BY <1>0, Alone DEF Holding
<1>2. opener[p].envelope = Public /\ ~opener[p].committing BY <1>0, NoEnvelope DEF Committed
<1>3. CASE RollsForward
  <2>1. Steps(p, "move") /\ Unmoved /\ UNCHANGED <<blobs, misplaced, deaths, untold, locks>>
    BY <1>1, <1>3, GotoSteps DEF Recover, Unmoved, tokens
  <2>2. Locked' BY <1>0, <1>1, <2>1, SameLocks DEF Steps, Holding
  <2>3. Quiet(p) BY <1>0, <2>1, OwnStep DEF Steps, Committed
  <2>4. exclusive' \subseteq Opener /\ sharing' \subseteq Opener
    BY <1>1, <2>1 DEF EncTypeOK, locks
  <2>5. Standing(p)'
    BY <1>0, <1>1, <1>2, <1>3, <2>1
    DEF Standing, Steps, Unmoved, RollsForward, Unknowing, Files, Committed
  <2> QED BY <2>1, <2>2, <2>3, <2>4, <2>5, QuietStep DEF Steps
<1>4. CASE ~RollsForward
  <2>1. marker = NoMarker BY <1>4 DEF RollsForward
  <2>2. \A b \in Blob \ misplaced : blobs[b] \in {Absent, manifest.key}
    BY <1>1, <2>1 DEF Sound
  <2>3. Recovered(p) /\ staging' = NoFiles /\ stagingDir' = FALSE BY <1>4 DEF Recover
  <2>4. staging' \in [Blob -> Form] /\ stagingDir' \in BOOLEAN BY <2>3, NoFilesFacts
  <2> QED
    BY <1>0, <1>2, <2>1, <2>2, <2>3, <2>4, NoMarkerFacts, RecoveredStep DEF Recover, Holding, tokens
<1> QED BY <1>3, <1>4

\* A migration that starts staging, with an envelope of its own.
LEMMA StageStep ==
  ASSUME EncInv, NEW p \in Opener, NEW envelope \in Envelope, Stage(p, envelope),
         opener[p].at = "begin", opener[p].op \in {"enable", "disable"},
         minted' \in 0..MaxSecrets, minted <= minted', UNCHANGED <<marker, manifest, deaths, tokens>>,
         opener[p].op = "enable" => /\ manifest = Public /\ minted < envelope.key
                                    /\ envelope.key \in Secret /\ envelope.key <= minted'
                                    /\ envelope.token \in Secret,
         opener[p].op = "disable" => manifest # Public /\ envelope = Public
  PROVE  EncInv'
<1>1. /\ EncTypeOK /\ Locked /\ Keyed /\ Sound /\ Standing(p) /\ minted \in Nat /\ ~Wiping
      /\ \A q \in Opener \ {p} : opener[q].at \notin Holding
  BY Alone DEF Holding
<1>2. marker = NoMarker /\ opener[p].envelope = Public /\ ~opener[p].committing
  BY <1>1, NoEnvelope DEF Standing, Committed
<1>3. minted' \in Nat BY EncryptionAssumption
<1>4. /\ opener' \in [Opener -> OpenerState] /\ Others(p)
      /\ opener'[p].at = "stage" /\ opener'[p].op = opener[p].op
      /\ opener'[p].committing = opener[p].committing /\ opener'[p].envelope = envelope
      /\ opener'[p].todo = Files(blobs) /\ opener'[p].wired = opener[p].wired
  <2>1. Files(blobs) \subseteq Blob BY DEF Files
  <2> QED BY <1>1, <2>1 DEF Stage, EncTypeOK, OpenerState, Others
<1>5. staging' = NoFiles /\ stagingDir' = TRUE /\ blobs' = blobs /\ misplaced' = misplaced
      /\ UNCHANGED locks
  BY DEF Stage
<1>6. EncTypeOK'
  <2>1. staging' \in [Blob -> Form] /\ stagingDir' \in BOOLEAN BY <1>5, NoFilesFacts
  <2> QED BY <1>1, <1>4, <1>5, <2>1 DEF EncTypeOK, locks, tokens
<1>7. Locked' BY <1>1, <1>4, <1>5, SameLocks DEF Holding
<1>8. Keyed'
  <2>1. manifest # Public => Wraps(manifest)'
    <3>1. manifest # Public => manifest.key \in Int BY <1>1 DEF Keyed, Wraps, Secret
    <3> QED BY <1>1, <1>3, <3>1 DEF Keyed, Wraps
  <2> QED BY <1>2, <2>1, NoMarkerFacts DEF Keyed
<1>9. Sound' BY <1>1, <1>2, <1>5 DEF Sound
<1>10. TokensTold' BY <1>2, <1>4, TokensStay DEF tokens
<1>11. Staged(p)'
  <2>1. opener[p].op = "enable" => \A q \in Opener : opener'[q].wired # envelope.key
    <3> SUFFICES ASSUME opener[p].op = "enable", NEW q \in Opener
                 PROVE  opener'[q].wired # envelope.key
      OBVIOUS
    <3>1. opener'[q].wired = opener[q].wired BY <1>4 DEF Others
    <3>2. opener[q].wired <= minted BY DEF EncInv, Standing
    <3>3. opener[q].wired \in Int
      BY <1>1 DEF EncTypeOK, OpenerState, Wiring, NoToken, Plain, Secret
    <3>4. envelope.key \in Int BY DEF Secret
    <3> QED BY <1>1, <3>1, <3>2, <3>3, <3>4
  <2>2. opener[p].op = "enable" => Wraps(envelope)' BY DEF Wraps
  <2>3. \A b \in Blob : staging'[b] = Absent BY <1>5, NoFilesFacts
  <2>4. \A b \in Blob : b \notin opener'[p].todo => blobs'[b] = Absent
    BY <1>4, <1>5 DEF Files
  <2> QED BY <1>4, <2>1, <2>2, <2>3, <2>4 DEF Staged, Unknowing, Wraps
<1>12. Standing(p)'
  <2>1. opener[p].wired \in Int
    BY <1>1 DEF EncTypeOK, OpenerState, Wiring, NoToken, Plain, Secret
  <2>2. opener'[p].wired <= minted' BY <1>1, <1>3, <1>4, <2>1 DEF Standing
  <2> QED BY <1>2, <1>4, <1>11, <2>2, NoMarkerFacts DEF Standing, Committed
<1>13. (\A q \in Opener : (marker.op = "enable" /\ Files(staging) # {}
                               => Unknowing(q, marker.manifest.key)))'
  BY <1>2, NoMarkerFacts
<1> QED BY <1>1, <1>3, <1>4, <1>6, <1>7, <1>8, <1>9, <1>10, <1>12, <1>13, HolderStep DEF Holding

\* Leaving where nothing was committed: the migration refused, or raised while staging.
LEMMA RefusedStep ==
  ASSUME EncInv, NEW p \in Opener, Leave(p), Unmoved, UNCHANGED <<blobs, misplaced, deaths, untold>>,
         opener[p].at \in {"begin", "stage"}
  PROVE  EncInv'
<1>1. misplaced \subseteq Blob /\ deaths \in 0..MaxDeaths /\ untold \subseteq Secret
  BY DEF EncInv, EncTypeOK
<1> QED BY <1>1, LeaveStep DEF Committed

LEMMA BeginEnableStep == ASSUME EncInv, NEW p \in Opener, BeginEnable(p) PROVE EncInv'
<1>1. opener[p].at = "begin" /\ opener[p].op = "enable" BY DEF BeginEnable, IsAt
<1>2. CASE manifest = Public
  <2>1. minted \in 0..MaxSecrets /\ MaxSecrets \in Nat
    BY EncryptionAssumption DEF EncInv, EncTypeOK
  <2>2. /\ minted < minted' /\ minted' \in 0..MaxSecrets /\ minted' \in Secret
        /\ minted' <= minted' /\ minted <= minted'
    BY <1>2, <2>1 DEF BeginEnable, Secret
  <2>3. [key |-> minted', token |-> minted'] \in Envelope BY <2>2 DEF Envelope
  <2> QED
    BY <1>1, <1>2, <2>2, <2>3, StageStep DEF BeginEnable
<1>3. CASE manifest # Public
  BY <1>1, <1>3, RefusedStep DEF BeginEnable, Unmoved, directories, tokens
<1> QED BY <1>2, <1>3

LEMMA BeginDisableStep == ASSUME EncInv, NEW p \in Opener, BeginDisable(p) PROVE EncInv'
<1>1. opener[p].at = "begin" /\ opener[p].op = "disable" BY DEF BeginDisable, IsAt
<1>2. CASE manifest # Public /\ Stage(p, Public)
  <2>1. minted' \in 0..MaxSecrets /\ minted <= minted'
    BY EncryptionAssumption DEF EncInv, EncTypeOK, BeginDisable
  <2> QED BY <1>1, <1>2, <2>1, ClosedFacts, StageStep DEF BeginDisable
<1>3. CASE Leave(p) /\ UNCHANGED directories
  BY <1>1, <1>3, RefusedStep DEF BeginDisable, Unmoved, directories, tokens
<1> QED BY <1>2, <1>3 DEF BeginDisable

LEMMA RotateStep == ASSUME EncInv, NEW p \in Opener, Rotate(p) PROVE EncInv'
<1>1. opener[p].at = "begin" BY DEF Rotate, IsAt
<1>2. CASE UNCHANGED <<minted, manifest, tokens, deaths>>
  BY <1>1, <1>2, RefusedStep DEF Rotate, Unmoved, directories, tokens
<1>3. CASE /\ manifest # Public /\ minted < MaxSecrets
           /\ minted' = minted + 1 /\ manifest' = Rewrapped
           /\ \/ shown' = shown \cup {minted'} /\ UNCHANGED <<untold, deaths>>
              \/ /\ deaths < MaxDeaths /\ deaths' = deaths + 1
                 /\ untold' = untold \cup {minted'} /\ UNCHANGED shown
  <2>1. /\ EncTypeOK /\ Locked /\ Keyed /\ Sound /\ Standing(p) /\ minted \in Nat /\ ~Wiping
        /\ \A q \in Opener \ {p} : opener[q].at \notin Holding
    BY <1>1, Alone DEF Holding
  <2>2. marker = NoMarker /\ marker' = NoMarker BY <1>1, <2>1 DEF Standing, Rotate
  <2>3. /\ minted' \in 0..MaxSecrets /\ minted' \in Nat /\ minted <= minted' /\ minted' \in Secret
        /\ minted' # Plain
    BY <1>3, <2>1, EncryptionAssumption DEF Secret, Plain
  <2>4. Ends(p, "closed") /\ opener'[p].wired = Plain BY <2>1, LeaveEnds DEF Rotate, Leave
  <2>5. /\ manifest'.key = manifest.key /\ manifest'.token = minted'
        /\ manifest' \in Envelope /\ manifest.key \in Secret /\ manifest.key <= minted
    <3>1. manifest.key \in Secret /\ manifest.key <= minted BY <1>3, <2>1 DEF Keyed, Wraps
    <3> QED BY <1>3, <2>3, <3>1 DEF Rewrapped, Envelope
  <2>6. EncTypeOK'
    <3>1. exclusive' \subseteq Opener /\ sharing' \subseteq Opener
      BY <2>1 DEF Rotate, Leave, EncTypeOK
    <3>2. /\ shown' \subseteq Secret /\ untold' \subseteq Secret
      BY <1>3, <2>1, <2>3 DEF EncTypeOK, tokens
    <3>3. deaths' \in 0..MaxDeaths BY <1>3, <2>1, EncryptionAssumption DEF EncTypeOK
    <3> QED BY <2>1, <2>3, <2>4, <2>5, <3>1, <3>2, <3>3 DEF EncTypeOK, Rotate, directories, Ends
  <2>7. Locked' BY <2>1, <2>4, ReleasedLocks DEF Rotate, Leave, Ends, Holding
  <2>8. Keyed'
    <3>1. manifest.key \in Int BY <2>5 DEF Secret
    <3>2. Wraps(manifest)' BY <2>1, <2>3, <2>5, <3>1 DEF Wraps
    <3> QED BY <2>2, <3>2, NoMarkerFacts DEF Keyed
  <2>9. Sound' BY <2>1, <2>2, <2>5 DEF Sound, Rotate, directories
  <2>10. TokensTold'
    BY <1>3, <2>2, <2>5, NoMarkerFacts DEF TokensTold, Told
  <2>11. Standing(p)'
    <3>1. opener'[p].wired <= minted' BY <2>3, <2>4 DEF Plain
    <3> QED BY <2>2, <2>4, <3>1, NoMarkerFacts DEF Standing, Ends, Committed
  <2>12. (\A q \in Opener : (marker.op = "enable" /\ Files(staging) # {}
                                => Unknowing(q, marker.manifest.key)))'
    BY <2>2, NoMarkerFacts
  <2> QED BY <1>1, <2>1, <2>3, <2>4, <2>6, <2>7, <2>8, <2>9, <2>10, <2>11, <2>12, HolderStep
          DEF Holding, Ends
<1> QED BY <1>2, <1>3 DEF Rotate

LEMMA BeginInvalidateStep == ASSUME EncInv, NEW p \in Opener, BeginInvalidate(p) PROVE EncInv'
<1>1. opener[p].at = "begin" BY DEF BeginInvalidate, IsAt
<1>2. /\ EncTypeOK /\ Locked /\ Standing(p) /\ minted \in Nat
  BY <1>1, Alone DEF Holding
<1>3. marker = NoMarker /\ marker' = NoMarker /\ manifest' = Public
  BY <1>1, <1>2 DEF Standing, BeginInvalidate
<1>4. Steps(p, "wipe") BY <1>2, GotoSteps DEF BeginInvalidate
<1>5. EncTypeOK'
  BY <1>2, <1>4, ClosedFacts DEF EncTypeOK, BeginInvalidate, Steps, directories, tokens, locks
<1>6. Locked' BY <1>1, <1>2, <1>4, SameLocks DEF BeginInvalidate, Steps, Holding
<1>7. Keyed' BY <1>3, NoMarkerFacts DEF Keyed
<1>8. Sound' BY <1>3, <1>4 DEF Sound, Wiping, Steps
<1>9. TokensTold' BY <1>3, NoMarkerFacts DEF TokensTold
<1>10. Standing(p)'
  BY <1>1, <1>2, <1>3, <1>4, NoMarkerFacts DEF Standing, Steps, Committed, BeginInvalidate
<1>11. (\A q \in Opener : (marker.op = "enable" /\ Files(staging) # {}
                               => Unknowing(q, marker.manifest.key)))'
  BY <1>3, NoMarkerFacts
<1>12. minted' = minted BY DEF BeginInvalidate
<1> QED BY <1>1, <1>2, <1>4, <1>5, <1>6, <1>7, <1>8, <1>9, <1>10, <1>11, <1>12, HolderStep
        DEF Steps, Holding

LEMMA StageBlobStep == ASSUME EncInv, NEW p \in Opener, StageBlob(p) PROVE EncInv'
<1>1. opener[p].at = "stage" BY DEF StageBlob, IsAt
<1>2. /\ EncTypeOK /\ Locked /\ Keyed /\ Sound /\ Standing(p) /\ Staged(p) /\ minted \in Nat /\ ~Wiping
      /\ marker = NoMarker
  BY <1>1, Alone DEF Holding, Standing
<1>3. PICK b \in opener[p].todo :
        IF Transformed(p, b) = Absent
          THEN Leave(p) /\ UNCHANGED staging
          ELSE /\ staging' = [staging EXCEPT ![b] = Transformed(p, b)]
               /\ opener' = [opener EXCEPT ![p].todo = @ \ {b}]
               /\ UNCHANGED locks
  BY DEF StageBlob
<1>4. CASE Transformed(p, b) = Absent
  <2>1. Leave(p) /\ UNCHANGED staging BY <1>3, <1>4
  <2> QED BY <1>1, <2>1, RefusedStep DEF StageBlob, Unmoved, tokens
<1>5. CASE Transformed(p, b) # Absent
  <2> DEFINE new == Transformed(p, b)
  <2>1. /\ b \in Blob /\ opener[p] \in OpenerState /\ blobs[b] \in Form
        /\ opener[p].envelope \in Envelope
    BY <1>2, <1>3 DEF EncTypeOK, OpenerState
  <2>2. /\ blobs' = blobs /\ stagingDir' = stagingDir /\ misplaced' = misplaced
        /\ marker' = marker /\ manifest' = manifest /\ minted' = minted /\ UNCHANGED <<deaths, untold>>
        /\ shown' = shown /\ UNCHANGED locks
        /\ staging' = [staging EXCEPT ![b] = new]
    BY <1>3, <1>5 DEF StageBlob, tokens
  <2>3. /\ opener' \in [Opener -> OpenerState] /\ Others(p)
        /\ opener'[p].at = "stage" /\ opener'[p].op = opener[p].op
        /\ opener'[p].committing = opener[p].committing
        /\ opener'[p].envelope = opener[p].envelope /\ opener'[p].wired = opener[p].wired
        /\ opener'[p].todo = opener[p].todo \ {b}
    BY <1>1, <1>2, <1>3, <1>5 DEF EncTypeOK, OpenerState, Others
  <2>4. opener[p].op \in {"enable", "disable"} BY <1>2 DEF Staged
  <2>7. /\ new \in Form
        /\ b \notin misplaced => new = opener[p].envelope.key
        /\ opener[p].op = "disable" => new = Plain
    <3>1. CASE opener[p].op = "enable"
      <4>1. new \in {opener[p].envelope.key, Garbled} BY <1>5, <3>1 DEF Transformed
      <4>2. opener[p].envelope.key \in Secret /\ manifest.key = Plain
        BY <1>2, <3>1 DEF Staged, Wraps, Public
      <4>3. b \notin misplaced => blobs[b] \in {Absent, Plain} BY <1>2, <2>1, <4>2 DEF Sound
      <4>4. b \notin misplaced => new = opener[p].envelope.key
        BY <1>5, <3>1, <4>3 DEF Transformed
      <4> QED BY <3>1, <4>1, <4>2, <4>4 DEF Form
    <3>2. CASE opener[p].op = "disable"
      <4>1. new = Plain BY <1>5, <3>2 DEF Transformed
      <4>2. opener[p].envelope.key = Plain BY <1>2, <3>2 DEF Staged, Public
      <4> QED BY <3>2, <4>1, <4>2 DEF Form
    <3> QED BY <2>4, <3>1, <3>2
  <2> HIDE DEF new
  <2>8. EncTypeOK'
    <3>1. staging' \in [Blob -> Form] BY <1>2, <2>1, <2>2, <2>7 DEF EncTypeOK
    <3> QED BY <1>2, <2>2, <2>3, <3>1 DEF EncTypeOK, locks
  <2>9. Locked' BY <1>1, <1>2, <2>2, <2>3, SameLocks DEF Holding
  <2>10. Keyed' BY <1>2, <2>2, NoMarkerFacts DEF Keyed, Wraps
  <2>11. Sound' BY <1>2, <2>2 DEF Sound
  <2>12. TokensTold' BY <2>2, <2>3, TokensStay
  <2>13. \A c \in Blob : staging'[c] = IF c = b THEN new ELSE staging[c]
    BY <1>2, <2>1, <2>2 DEF EncTypeOK
  <2>14. Staged(p)'
    <3>1. \A c \in Blob \ misplaced :
            /\ staging'[c] \in {Absent, opener[p].envelope.key}
            /\ c \notin opener'[p].todo => blobs[c] = Absent \/ staging'[c] = opener[p].envelope.key
      BY <1>2, <2>3, <2>7, <2>13 DEF Staged
    <3>2. opener[p].op = "disable" => \A c \in Blob : staging'[c] \in {Absent, Plain}
      BY <1>2, <2>7, <2>13 DEF Staged
    <3>3. opener[p].op = "enable" => \A q \in Opener : opener'[q].wired # opener[p].envelope.key
      BY <1>2, <2>3 DEF Staged, Unknowing, Others
    <3> QED BY <1>2, <2>2, <2>3, <3>1, <3>2, <3>3 DEF Staged, Unknowing, Wraps
  <2>15. Standing(p)'
    BY <1>1, <1>2, <2>2, <2>3, <2>14, NoMarkerFacts DEF Standing, Committed
  <2>16. (\A q \in Opener : (marker.op = "enable" /\ Files(staging) # {}
                                 => Unknowing(q, marker.manifest.key)))'
    BY <1>2, <2>2, NoMarkerFacts
  <2>17. /\ opener[p].at \in Holding /\ Others(p)
         /\ minted \in Nat /\ minted' \in Nat /\ minted <= minted'
    BY <1>1, <1>2, <2>2, <2>3 DEF Holding
  <2> QED BY <2>8, <2>9, <2>10, <2>11, <2>12, <2>15, <2>16, <2>17, HolderStep
<1> QED BY <1>4, <1>5

LEMMA WriteMarkerStep == ASSUME EncInv, NEW p \in Opener, WriteMarker(p) PROVE EncInv'
<1>1. opener[p].at = "stage" /\ opener[p].todo = {} BY DEF WriteMarker, IsAt, AllStaged
<1>2. /\ EncTypeOK /\ Locked /\ Keyed /\ Sound /\ TokensTold /\ Standing(p) /\ Staged(p)
      /\ minted \in Nat /\ ~Wiping /\ marker = NoMarker
  BY <1>1, Alone DEF Holding, Standing
<1>3. /\ directories' = directories /\ UNCHANGED locks /\ manifest' = manifest
      /\ minted' = minted /\ UNCHANGED <<deaths, untold>> /\ shown' = shown
      /\ staging' = staging /\ blobs' = blobs /\ misplaced' = misplaced
      /\ marker' = [op |-> opener[p].op, manifest |-> opener[p].envelope]
  BY DEF WriteMarker, directories, tokens
<1>4. /\ opener' \in [Opener -> OpenerState] /\ Others(p)
      /\ opener'[p].at = "move" /\ opener'[p].op = opener[p].op /\ opener'[p].committing
      /\ opener'[p].envelope = opener[p].envelope /\ opener'[p].wired = opener[p].wired
  BY <1>2 DEF WriteMarker, EncTypeOK, OpenerState, Others
<1>5. /\ marker'.op = opener[p].op /\ marker'.manifest = opener[p].envelope
      /\ opener[p].op \in {"enable", "disable"} /\ opener[p].envelope \in Envelope
  BY <1>2, <1>3 DEF Staged, EncTypeOK, OpenerState
<1>6. marker' # NoMarker /\ marker' \in Marker
  BY <1>3, <1>5, NoMarkerFacts DEF Marker
<1>7. Settled' = opener[p].envelope.key BY <1>5, <1>6 DEF Settled
<1>8. EncTypeOK' BY <1>2, <1>3, <1>4, <1>6 DEF EncTypeOK, directories, tokens, locks
<1>9. Locked' BY <1>1, <1>2, <1>3, <1>4, SameLocks DEF Holding
<1>10. Keyed'
  <2>1. manifest # Public => Wraps(manifest)' BY <1>2, <1>3 DEF Keyed, Wraps
  <2>2. opener[p].op = "enable" => Wraps(opener[p].envelope) /\ manifest = Public
    BY <1>2 DEF Staged
  <2>3. opener[p].op = "disable" => /\ opener[p].envelope = Public
                                    /\ \A b \in Blob : staging[b] \in {Absent, Plain}
    BY <1>2 DEF Staged
  <2> QED BY <1>3, <1>5, <2>1, <2>2, <2>3 DEF Keyed, Wraps
<1>11. Sound'
  <2>1. \A b \in Blob \ misplaced : /\ staging[b] \in {Absent, opener[p].envelope.key}
                                    /\ blobs[b] \in {Absent, manifest.key}
                                    /\ blobs[b] = Absent \/ staging[b] = opener[p].envelope.key
    BY <1>1, <1>2 DEF Staged, Sound
  <2> QED BY <1>3, <1>6, <1>7, <2>1 DEF Sound
<1>12. TokensTold'
  <2>1. manifest # Public => Told(manifest)'
    BY <1>2, <1>3, <1>4, ToldStays DEF TokensTold
  <2> QED BY <1>3, <1>4, <1>5, <2>1 DEF TokensTold, Told
<1>13. \A q \in Opener : marker'.op = "enable" => opener'[q].wired # marker'.manifest.key
  BY <1>2, <1>4, <1>5 DEF Staged, Unknowing, Others
<1>14. Standing(p)'
  BY <1>2, <1>3, <1>4, <1>6, <1>13 DEF Standing, Committed, Unknowing
<1>15. (\A q \in Opener : (marker.op = "enable" /\ Files(staging) # {}
                               => Unknowing(q, marker.manifest.key)))'
  BY <1>13 DEF Unknowing
<1> QED BY <1>1, <1>2, <1>3, <1>4, <1>8, <1>9, <1>10, <1>11, <1>12, <1>14, <1>15, HolderStep
        DEF Holding

LEMMA MoveBlobStep == ASSUME EncInv, NEW p \in Opener, MoveBlob(p) PROVE EncInv'
<1>1. opener[p].at = "move" BY DEF MoveBlob, IsAt
<1>2. /\ EncTypeOK /\ Locked /\ Keyed /\ Sound /\ Standing(p) /\ minted \in Nat
      /\ marker # NoMarker
  BY <1>1, Alone DEF Holding, Standing, Committed
<1>3. PICK b \in Files(staging) : /\ blobs' = [blobs EXCEPT ![b] = staging[b]]
                                  /\ staging' = [staging EXCEPT ![b] = Absent]
  BY DEF MoveBlob
<1>4. b \in Blob /\ staging[b] # Absent /\ Files(staging) # {} BY <1>3 DEF Files
<1>5. /\ \A c \in Blob : blobs'[c] = IF c = b THEN staging[b] ELSE blobs[c]
      /\ \A c \in Blob : staging'[c] = IF c = b THEN Absent ELSE staging[c]
      /\ blobs' \in [Blob -> Form] /\ staging' \in [Blob -> Form]
  BY <1>2, <1>3, <1>4 DEF EncTypeOK, Form
<1>6. /\ opener' = opener /\ UNCHANGED locks /\ marker' = marker /\ manifest' = manifest
      /\ minted' = minted /\ UNCHANGED <<deaths, untold>> /\ shown' = shown /\ misplaced' = misplaced
      /\ stagingDir' = stagingDir /\ Others(p)
  BY DEF MoveBlob, Others, tokens
<1>7. EncTypeOK' BY <1>2, <1>5, <1>6 DEF EncTypeOK, locks
<1>8. Locked' BY <1>2, <1>6, SameLocks
<1>9. Keyed' BY <1>2, <1>4, <1>5, <1>6 DEF Keyed, Wraps
<1>10. Sound'
  <2>1. ASSUME NEW c \in Blob \ misplaced
        PROVE  /\ staging'[c] \in {Absent, Settled} /\ blobs'[c] \in {Absent, Settled, manifest.key}
               /\ blobs'[c] \in {Absent, Settled} \/ staging'[c] = Settled
    <3>1. /\ staging[c] \in {Absent, Settled} /\ blobs[c] \in {Absent, Settled, manifest.key}
          /\ blobs[c] \in {Absent, Settled} \/ staging[c] = Settled
      BY <1>2 DEF Sound
    <3> QED BY <1>4, <1>5, <3>1
  <2>2. Settled' = Settled BY <1>6 DEF Settled
  <2> QED BY <1>2, <1>6, <2>1, <2>2 DEF Sound
<1>11. TokensTold' BY <1>6, TokensStay
<1>12. (\A q \in Opener : (marker.op = "enable" /\ Files(staging) # {}
                               => Unknowing(q, marker.manifest.key)))'
  BY <1>4, <1>6 DEF EncInv, Standing, Unknowing
<1>13. Standing(p)'
  <2>1. Unknowing(p, marker'.manifest.key) <=> Unknowing(p, marker.manifest.key) BY <1>6
  <2> QED BY <1>1, <1>2, <1>4, <1>6 DEF Standing, Unknowing, Committed
<1>14. /\ opener[p].at \in Holding /\ minted' \in Nat /\ minted <= minted'
  BY <1>1, <1>2, <1>6 DEF Holding
<1> QED BY <1>2, <1>6, <1>7, <1>8, <1>9, <1>10, <1>11, <1>12, <1>13, <1>14, HolderStep

LEMMA DropStagingStep == ASSUME EncInv, NEW p \in Opener, DropStaging(p) PROVE EncInv'
<1>1. opener[p].at = "move" /\ Files(staging) = {} BY DEF DropStaging, IsAt, AllMoved
<1>2. /\ EncTypeOK /\ Locked /\ Keyed /\ Sound /\ Standing(p) /\ minted \in Nat
      /\ marker # NoMarker
  BY <1>1, Alone DEF Holding, Standing, Committed
<1>3. /\ stagingDir' = FALSE /\ staging' = NoFiles /\ UNCHANGED locks
      /\ blobs' = blobs /\ marker' = marker /\ manifest' = manifest
      /\ minted' = minted /\ UNCHANGED <<deaths, untold>> /\ shown' = shown /\ misplaced' = misplaced
  BY DEF DropStaging, tokens
<1>4. Steps(p, "flip") BY <1>2, GotoSteps DEF DropStaging
<1>5. staging' \in [Blob -> Form] /\ Files(staging') = {} /\ \A b \in Blob : staging'[b] = Absent
  BY <1>3, NoFilesFacts
<1>6. EncTypeOK' BY <1>2, <1>3, <1>4, <1>5 DEF EncTypeOK, Steps, locks
<1>7. Locked' BY <1>1, <1>2, <1>3, <1>4, SameLocks DEF Steps, Holding
<1>8. Keyed' BY <1>1, <1>2, <1>3, <1>5 DEF Keyed, Wraps
<1>9. Sound'
  <2>1. \A b \in Blob : staging[b] = Absent BY <1>1 DEF Files
  <2>2. Settled' = Settled BY <1>3 DEF Settled
  <2> QED BY <1>2, <1>3, <1>5, <2>1, <2>2 DEF Sound
<1>10. TokensTold' BY <1>3, <1>4, TokensStay DEF Steps
<1>11. (\A q \in Opener : (marker.op = "enable" /\ Files(staging) # {}
                               => Unknowing(q, marker.manifest.key)))'
  BY <1>5
<1>12. Standing(p)'
  BY <1>1, <1>2, <1>3, <1>4, <1>5 DEF Standing, Steps, Committed
<1>13. /\ opener[p].at \in Holding /\ Others(p) /\ minted' \in Nat /\ minted <= minted'
  BY <1>1, <1>2, <1>3, <1>4 DEF Holding, Steps
<1> QED BY <1>2, <1>6, <1>7, <1>8, <1>9, <1>10, <1>11, <1>12, <1>13, HolderStep

LEMMA FlipStep == ASSUME EncInv, NEW p \in Opener, Flip(p) PROVE EncInv'
<1>1. opener[p].at = "flip" BY DEF Flip, IsAt
<1>2. /\ EncTypeOK /\ Locked /\ Keyed /\ Sound /\ TokensTold /\ Standing(p) /\ minted \in Nat
      /\ marker # NoMarker /\ Files(staging) = {}
  BY <1>1, Alone DEF Holding, Standing, Committed
<1>3. /\ stagingDir' = stagingDir /\ staging' = staging /\ UNCHANGED locks
      /\ blobs' = blobs /\ marker' = marker
      /\ minted' = minted /\ UNCHANGED <<deaths, untold>> /\ shown' = shown /\ misplaced' = misplaced
  BY DEF Flip, directories, tokens
<1>4. Steps(p, "unmark") BY <1>2, GotoSteps DEF Flip
<1>5. marker.op \in {"enable", "disable"} /\ marker.manifest \in Envelope
  BY <1>2 DEF EncTypeOK, Marker, Keyed
<1>6. manifest' = marker.manifest
  BY <1>2, <1>5 DEF Flip, Keyed
<1>7. EncTypeOK' BY <1>2, <1>3, <1>4, <1>5, <1>6 DEF EncTypeOK, Steps, locks
<1>8. Locked' BY <1>1, <1>2, <1>3, <1>4, SameLocks DEF Steps, Holding
<1>9. Keyed' BY <1>2, <1>3, <1>5, <1>6 DEF Keyed, Wraps
<1>10. Sound'
  <2>1. \A b \in Blob : staging[b] = Absent BY <1>2 DEF Files
  <2>2. Settled = marker.manifest.key /\ Settled' = Settled /\ Settled # Absent
    <3>1. marker.manifest.key # Absent BY <1>5 DEF Envelope, Plain, Absent, Secret
    <3> QED BY <1>2, <1>3, <3>1 DEF Settled
  <2> QED BY <1>2, <1>3, <1>6, <2>1, <2>2 DEF Sound
<1>11. TokensTold'
  <2>1. marker.op = "enable" => Told(marker.manifest)'
    BY <1>2, <1>3, <1>4, ToldStays DEF TokensTold, Steps
  <2>2. marker.op = "disable" => manifest' = Public BY <1>2, <1>6 DEF Keyed
  <2> QED BY <1>3, <1>5, <1>6, <2>1, <2>2 DEF TokensTold, Told
<1>12. (\A q \in Opener : (marker.op = "enable" /\ Files(staging) # {}
                               => Unknowing(q, marker.manifest.key)))'
  BY <1>2, <1>3
<1>13. Standing(p)'
  BY <1>1, <1>2, <1>3, <1>4, <1>6 DEF Standing, Steps, Committed
<1>14. /\ opener[p].at \in Holding /\ Others(p) /\ minted' \in Nat /\ minted <= minted'
  BY <1>1, <1>2, <1>3, <1>4 DEF Holding, Steps
<1> QED BY <1>2, <1>7, <1>8, <1>9, <1>10, <1>11, <1>12, <1>13, <1>14, HolderStep

\* What is known of the store when a commit is complete but for its marker.
LEMMA UnmarkFacts ==
  ASSUME EncInv, NEW p \in Opener, opener[p].at = "unmark"
  PROVE  /\ manifest = marker.manifest /\ marker # NoMarker /\ Files(staging) = {}
         /\ \A b \in Blob \ misplaced : blobs[b] \in {Absent, manifest.key}
<1>1. /\ EncTypeOK /\ Sound /\ Standing(p) /\ marker # NoMarker /\ Files(staging) = {}
      /\ manifest = marker.manifest
  BY Alone DEF Holding, Standing, Committed
<1>2. \A b \in Blob : staging[b] = Absent BY <1>1 DEF Files
<1>3. Settled = manifest.key /\ Settled # Absent
  <2>1. manifest.key # Absent BY <1>1 DEF EncTypeOK, Envelope, Plain, Absent, Secret
  <2> QED BY <1>1, <2>1 DEF Settled
<1>4. \A b \in Blob \ misplaced : blobs[b] \in {Absent, manifest.key}
  BY <1>1, <1>2, <1>3 DEF Sound
<1> QED BY <1>1, <1>4

LEMMA UnmarkStep == ASSUME EncInv, NEW p \in Opener, Unmark(p) PROVE EncInv'
<1>1. opener[p].at = "unmark" BY DEF Unmark, IsAt
<1>2. /\ EncTypeOK /\ Locked /\ Keyed /\ TokensTold /\ Standing(p) /\ minted \in Nat
  BY <1>1, Alone DEF Holding
<1>3. /\ manifest = marker.manifest /\ marker # NoMarker /\ Files(staging) = {}
      /\ \A b \in Blob \ misplaced : blobs[b] \in {Absent, manifest.key}
  BY <1>1, UnmarkFacts
<1>4. /\ stagingDir' = stagingDir /\ staging' = staging
      /\ blobs' = blobs /\ marker' = NoMarker /\ manifest' = manifest
      /\ minted' = minted /\ UNCHANGED <<deaths, untold>> /\ misplaced' = misplaced
  BY DEF Unmark, directories, tokens
<1>5. CASE ~opener[p].committing
  <2>1. Recovered(p) /\ shown' = shown BY <1>5 DEF Unmark
  <2>2. opener[p].envelope = Public BY <1>1, <1>2, <1>5 DEF Standing
  <2>3. staging' \in [Blob -> Form] /\ stagingDir' \in BOOLEAN BY <1>2, <1>4 DEF EncTypeOK
  <2> QED
    BY <1>1, <1>3, <1>4, <1>5, <2>1, <2>2, <2>3, NoMarkerFacts, RecoveredStep DEF Holding
<1>6. CASE opener[p].committing
  <2>1. Leave(p) /\ shown' = shown \cup ({opener[p].envelope.token} \ {Plain})
    BY <1>6 DEF Unmark
  <2>2. manifest = opener[p].envelope
    <3>1. marker = [op |-> opener[p].op, manifest |-> opener[p].envelope]
      BY <1>1, <1>2, <1>6 DEF Standing, Committed
    <3> QED BY <1>3, <3>1
  <2>3. Ends(p, "closed") /\ opener'[p].wired = Plain BY <1>2, <2>1, LeaveEnds DEF Leave
  <2>4. EncTypeOK'
    <3>1. exclusive' \subseteq Opener /\ sharing' \subseteq Opener
      BY <1>2, <2>1 DEF Leave, EncTypeOK
    <3>2. opener[p].envelope.token \in {Plain} \cup Secret
      BY <1>2, <2>2 DEF EncTypeOK, Envelope
    <3>3. shown' \subseteq Secret BY <1>2, <2>1, <3>2 DEF EncTypeOK
    <3> QED BY <1>2, <1>4, <2>3, <3>1, <3>3, NoMarkerFacts DEF EncTypeOK, Ends
  <2>5. Locked' BY <1>2, <2>1, <2>3, ReleasedLocks DEF Leave, Ends, Holding
  <2>6. Keyed' BY <1>2, <1>4, NoMarkerFacts DEF Keyed, Wraps
  <2>7. Sound' BY <1>3, <1>4 DEF Sound
  <2>8. TokensTold'
    <3>1. manifest # Public => manifest.token \in shown'
      <4>1. manifest # Public => manifest.token \in Secret /\ Plain \notin Secret
        BY <1>2 DEF Keyed, Wraps, Plain, Secret
      <4> QED BY <2>1, <2>2, <4>1
    <3> QED BY <1>4, <3>1, NoMarkerFacts DEF TokensTold, Told
  <2>9. Standing(p)'
    <3>1. opener'[p].wired <= minted' BY <1>2, <1>4, <2>3 DEF Plain
    <3> QED BY <1>4, <2>3, <3>1, NoMarkerFacts DEF Standing, Ends, Committed
  <2>10. (\A q \in Opener : (marker.op = "enable" /\ Files(staging) # {}
                                => Unknowing(q, marker.manifest.key)))'
    BY <1>4, NoMarkerFacts
  <2>11. /\ opener[p].at \in Holding /\ Others(p) /\ minted' \in Nat /\ minted <= minted'
    BY <1>1, <1>2, <1>4, <2>3 DEF Holding, Ends
  <2> QED BY <1>2, <2>4, <2>5, <2>6, <2>7, <2>8, <2>9, <2>10, <2>11, HolderStep
<1> QED BY <1>5, <1>6

LEMMA WipeRestStep == ASSUME EncInv, NEW p \in Opener, WipeRest(p) PROVE EncInv'
<1>1. opener[p].at = "wipe" /\ Files(blobs) = {} BY DEF WipeRest, IsAt
<1>2. /\ EncTypeOK /\ Locked /\ Keyed /\ Standing(p) /\ minted \in Nat /\ manifest = Public
  BY <1>1, Alone DEF Holding, Standing
<1>3. /\ stagingDir' = FALSE /\ staging' = NoFiles
      /\ blobs' = blobs /\ marker' = NoMarker /\ manifest' = manifest
      /\ minted' = minted /\ UNCHANGED <<deaths, untold>> /\ shown' = shown /\ misplaced' = {} /\ Leave(p)
  BY DEF WipeRest, tokens
<1>4. Ends(p, "closed") /\ opener'[p].wired = Plain BY <1>2, <1>3, LeaveEnds DEF Leave
<1>5. EncTypeOK'
  <2>1. exclusive' \subseteq Opener /\ sharing' \subseteq Opener
    BY <1>2, <1>3 DEF Leave, EncTypeOK
  <2>2. staging' \in [Blob -> Form] BY <1>3, NoFilesFacts
  <2> QED BY <1>2, <1>3, <1>4, <2>1, <2>2, NoMarkerFacts DEF EncTypeOK, Ends
<1>6. Locked' BY <1>2, <1>3, <1>4, ReleasedLocks DEF Leave, Ends, Holding
<1>7. Keyed' BY <1>2, <1>3, NoMarkerFacts DEF Keyed
<1>8. Sound' BY <1>1, <1>3 DEF Sound, Files
<1>9. TokensTold' BY <1>2, <1>3, NoMarkerFacts DEF TokensTold
<1>10. Standing(p)'
  <2>1. opener'[p].wired <= minted' BY <1>2, <1>3, <1>4 DEF Plain
  <2> QED BY <1>3, <1>4, <2>1, NoMarkerFacts DEF Standing, Ends, Committed
<1>11. (\A q \in Opener : (marker.op = "enable" /\ Files(staging) # {}
                               => Unknowing(q, marker.manifest.key)))'
  BY <1>3, NoMarkerFacts
<1>12. /\ opener[p].at \in Holding /\ Others(p) /\ minted' \in Nat /\ minted <= minted'
  BY <1>1, <1>2, <1>3, <1>4 DEF Holding, Ends
<1> QED BY <1>2, <1>5, <1>6, <1>7, <1>8, <1>9, <1>10, <1>11, <1>12, HolderStep

-----------------------------------------------------------------------------
(* The theorem.                                                            *)

LEMMA StutterStep == ASSUME EncInv, UNCHANGED encVars PROVE EncInv'
<1> USE DEF encVars
<1>1. EncTypeOK' BY DEF EncInv, EncTypeOK
<1>2. Locked' BY DEF EncInv, Locked
<1>3. Keyed' BY DEF EncInv, Keyed, Wraps, Files
<1>4. Sound' BY DEF EncInv, Sound, Wiping, Settled
<1>5. TokensTold' BY DEF EncInv, TokensTold, Told
<1>6. ASSUME NEW p \in Opener PROVE Standing(p)'
  BY DEF EncInv, Standing, Staged, Unknowing, Wraps, Files
<1> QED BY <1>1, <1>2, <1>3, <1>4, <1>5, <1>6 DEF EncInv

LEMMA EncInvStep == EncInv /\ [EncNext]_encVars => EncInv'
<1> SUFFICES ASSUME EncInv, [EncNext]_encVars PROVE EncInv'
  OBVIOUS
<1>1. ASSUME NEW p \in Opener, Open(p) PROVE EncInv' BY <1>1, OpenStep
<1>2. ASSUME NEW p \in Opener, Recover(p) PROVE EncInv' BY <1>2, RecoverStep
<1>3. ASSUME NEW p \in Opener, Wire(p) PROVE EncInv' BY <1>3, WireStep
<1>4. ASSUME NEW p \in Opener, StartMigration(p) PROVE EncInv' BY <1>4, StartStep
<1>5. ASSUME NEW p \in Opener, BeginEnable(p) PROVE EncInv' BY <1>5, BeginEnableStep
<1>6. ASSUME NEW p \in Opener, BeginDisable(p) PROVE EncInv' BY <1>6, BeginDisableStep
<1>7. ASSUME NEW p \in Opener, Rotate(p) PROVE EncInv' BY <1>7, RotateStep
<1>8. ASSUME NEW p \in Opener, BeginInvalidate(p) PROVE EncInv' BY <1>8, BeginInvalidateStep
<1>9. ASSUME NEW p \in Opener, StageBlob(p) PROVE EncInv' BY <1>9, StageBlobStep
<1>10. ASSUME NEW p \in Opener, WriteMarker(p) PROVE EncInv' BY <1>10, WriteMarkerStep
<1>11. ASSUME NEW p \in Opener, MoveBlob(p) PROVE EncInv' BY <1>11, MoveBlobStep
<1>12. ASSUME NEW p \in Opener, DropStaging(p) PROVE EncInv' BY <1>12, DropStagingStep
<1>13. ASSUME NEW p \in Opener, Flip(p) PROVE EncInv' BY <1>13, FlipStep
<1>14. ASSUME NEW p \in Opener, Unmark(p) PROVE EncInv' BY <1>14, UnmarkStep
<1>15. ASSUME NEW p \in Opener, Wipe(p) PROVE EncInv' BY <1>15, WipeStep
<1>16. ASSUME NEW p \in Opener, WipeRest(p) PROVE EncInv' BY <1>16, WipeRestStep
<1>17. ASSUME NEW p \in Opener, PutStart(p) PROVE EncInv' BY <1>17, PutStartStep
<1>18. ASSUME NEW p \in Opener, Put(p) PROVE EncInv' BY <1>18, PutStep
<1>19. ASSUME NEW p \in Opener, ReadCorrupt(p) PROVE EncInv' BY <1>19, ReadCorruptStep
<1>20. ASSUME NEW p \in Opener, Heal(p) PROVE EncInv' BY <1>20, HealStep
<1>21. ASSUME NEW p \in Opener, Remove(p) PROVE EncInv' BY <1>21, RemoveStep
<1>22. ASSUME NEW p \in Opener, Close(p) PROVE EncInv' BY <1>22, CloseStep
<1>23. ASSUME NEW p \in Opener, Die(p) PROVE EncInv' BY <1>23, DieStep
<1>24. CASE UNCHANGED encVars BY <1>24, StutterStep
<1> QED
  BY <1>1, <1>2, <1>3, <1>4, <1>5, <1>6, <1>7, <1>8, <1>9, <1>10, <1>11, <1>12, <1>13,
     <1>14, <1>15, <1>16, <1>17, <1>18, <1>19, <1>20, <1>21, <1>22, <1>23, <1>24
  DEF EncNext

\* Whatever step a migration, a recovery or an invalidation dies in, every blob written
\* in the form of its store is in the form the manifest announces, or a commit that the
\* next open completes will bring it there (StoreEncryptor: "crash-safe by construction"),
\* and a token that was told unwraps its key, unless the very process that minted that
\* token died between committing the store to it and printing it.
THEOREM StoreOpenable == EncSpec => []StoreStaysOpenable
BY EncInvInit, EncInvStep, EncInvImplies, PTL DEF EncSpec

\* Blobs, staging, marker, manifest and the processes beside a migration keep their shape.
THEOREM EncTypes == EncSpec => []EncTypeOK
<1>1. EncInv => EncTypeOK BY DEF EncInv
<1> QED BY <1>1, EncInvInit, EncInvStep, PTL DEF EncSpec

-----------------------------------------------------------------------------
(* Quarantine.                                                             *)

\* An action changes what its own process does and no other.
LEMMA OnlyOwn ==
  ASSUME EncInv, NEW q \in Opener, NEW p \in Opener \ {q},
         \/ Open(q) \/ Recover(q) \/ Wire(q) \/ StartMigration(q)
         \/ BeginEnable(q) \/ BeginDisable(q) \/ Rotate(q) \/ BeginInvalidate(q)
         \/ StageBlob(q) \/ WriteMarker(q) \/ MoveBlob(q) \/ DropStaging(q)
         \/ Flip(q) \/ Unmark(q) \/ Wipe(q) \/ WipeRest(q)
         \/ PutStart(q) \/ Put(q) \/ ReadCorrupt(q) \/ Heal(q) \/ Remove(q) \/ Close(q)
         \/ Die(q)
  PROVE  opener'[p] = opener[p]
<1>1. opener \in [Opener -> OpenerState] BY DEF EncInv, EncTypeOK
<1>2. CASE Open(q) \/ Recover(q) \/ Flip(q) \/ DropStaging(q) \/ BeginInvalidate(q) \/ Unmark(q)
  BY <1>1, <1>2 DEF Open, Recover, Flip, DropStaging, BeginInvalidate, Unmark, Recovered, Goto, Leave
<1>3. CASE Wire(q) \/ StartMigration(q) \/ Rotate(q) \/ WipeRest(q) \/ Close(q) \/ Die(q)
  BY <1>1, <1>3 DEF Wire, StartMigration, Rotate, WipeRest, Close, Die, Leave
<1>4. CASE BeginEnable(q) \/ BeginDisable(q) \/ StageBlob(q) \/ WriteMarker(q)
  BY <1>1, <1>4 DEF BeginEnable, BeginDisable, StageBlob, WriteMarker, Stage, Leave
<1>5. CASE \/ MoveBlob(q) \/ Wipe(q) \/ PutStart(q) \/ Put(q) \/ ReadCorrupt(q) \/ Heal(q)
           \/ Remove(q)
  BY <1>1, <1>5 DEF MoveBlob, Wipe, PutStart, Put, ReadCorrupt, Heal, Remove
<1> QED BY <1>2, <1>3, <1>4, <1>5

\* Of the actions of a process that has the store open, only one quarantines.
LEMMA HealsOnlyCorrupt ==
  ASSUME EncInv, EncNext, NEW p \in Opener, opener[p].at = "ready", opener'[p].at = "heal"
  PROVE  ReadCorrupt(p)
<1>1. opener \in [Opener -> OpenerState] BY DEF EncInv, EncTypeOK
<1>3. ASSUME PutStart(p) PROVE FALSE BY <1>1, <1>3 DEF PutStart, OpenerState
<1>4. ASSUME Close(p) \/ Die(p) PROVE FALSE
  BY <1>1, <1>4, ClosedFacts DEF Close, Die, Leave
<1>5. ASSUME Remove(p) PROVE FALSE BY <1>5 DEF Remove
<1>6. PICK q \in Opener :
         \/ Open(q) \/ Recover(q) \/ Wire(q) \/ StartMigration(q)
         \/ BeginEnable(q) \/ BeginDisable(q) \/ Rotate(q) \/ BeginInvalidate(q)
         \/ StageBlob(q) \/ WriteMarker(q) \/ MoveBlob(q) \/ DropStaging(q)
         \/ Flip(q) \/ Unmark(q) \/ Wipe(q) \/ WipeRest(q)
         \/ PutStart(q) \/ Put(q) \/ ReadCorrupt(q) \/ Heal(q) \/ Remove(q) \/ Close(q)
         \/ Die(q)
  BY DEF EncNext
<1>7. q = p BY <1>6, OnlyOwn
<1>8. \A step \in {"closed", "recover", "begin", "stage", "move", "flip", "unmark", "wipe",
                   "wire", "put", "heal"} : ~IsAt(p, step)
  BY DEF IsAt
<1>9. ~(Open(p) \/ Recover(p) \/ Wire(p) \/ StartMigration(p) \/ BeginEnable(p)
        \/ BeginDisable(p) \/ Rotate(p) \/ BeginInvalidate(p) \/ StageBlob(p) \/ WriteMarker(p)
        \/ MoveBlob(p) \/ DropStaging(p) \/ Flip(p) \/ Unmark(p) \/ Wipe(p) \/ WipeRest(p)
        \/ Put(p) \/ Heal(p))
  BY <1>8 DEF Open, Recover, Wire, StartMigration, BeginEnable, BeginDisable, Rotate,
     BeginInvalidate, StageBlob, WriteMarker, MoveBlob, DropStaging, Flip, Unmark, Wipe,
     WipeRest, Put, Heal
<1> QED BY <1>3, <1>4, <1>5, <1>6, <1>7, <1>9

LEMMA KeepStep ==
  ASSUME EncInv, [EncNext]_encVars, NEW p \in Opener,
         IsAt(p, "ready"), IsAt(p, "heal")', opener[p].wired = manifest.key, marker = NoMarker
  PROVE  opener'[p].blob \subseteq misplaced
<1>1. opener \in [Opener -> OpenerState] /\ blobs \in [Blob -> Form] BY DEF EncInv, EncTypeOK
<1>2. ReadCorrupt(p)
  <2>1. opener' # opener BY DEF IsAt
  <2> QED BY <2>1, HealsOnlyCorrupt DEF IsAt, encVars
<1>3. PICK b \in Files(blobs) :
        /\ blobs[b] # opener[p].wired
        /\ opener' = [opener EXCEPT ![p] = [@ EXCEPT !.at = "heal", !.blob = {b}]]
  BY <1>2 DEF ReadCorrupt
<1>4. opener'[p].blob = {b} BY <1>1, <1>3 DEF OpenerState
<1>5. b \in Blob /\ blobs[b] # Absent BY <1>3 DEF Files
<1>6. ~Wiping
  <2>1. opener[p].wired \in Secret BY <1>2 DEF ReadCorrupt
  <2>2. manifest # Public BY <2>1 DEF Public, Plain, Secret
  <2> QED BY <2>2 DEF Wiping, EncInv, Standing
<1>7. b \in misplaced BY <1>3, <1>5, <1>6 DEF EncInv, Sound
<1> QED BY <1>4, <1>7

\* A reader that holds the key of the store quarantines no sound blob: what it takes for
\* corrupt was left misplaced, or a commit is pending (BlobRepository's quarantine of
\* what does not decrypt).
THEOREM ReadersKeep == EncSpec => ReadersOfTheStoreKeepIt
<1>1. EncInv /\ [EncNext]_encVars =>
        [\A p \in Opener :
           IsAt(p, "ready") /\ (IsAt(p, "heal"))' /\ opener[p].wired = manifest.key
             => marker # NoMarker \/ opener'[p].blob \subseteq misplaced]_encVars
  BY KeepStep
<1> QED BY <1>1, EncInvInit, EncInvStep, PTL DEF EncSpec, ReadersOfTheStoreKeepIt
=============================================================================
