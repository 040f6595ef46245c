# A verification of cli-core

TLA+ models of the parts of `cli-core` that move files between machines and keep state
that several processes share, with the TLC runs that check them and TLAPS proofs of what
matters most. The library has no `main`: its callers are the Share2Us command line, its
daemon and the desktop application, so "the user" below is whoever calls the exported
functions.

`PROJECT.json` holds the same facts for tools: which definition stands for which lines,
which run checks what, the hazards, the findings and the theorems.

- [1 The system](#1-the-system)
- [2 What is modelled, and how it corresponds to the code](#2-what-is-modelled-and-how-it-corresponds-to-the-code)
- [3 Runs, bounds and fairness](#3-runs-bounds-and-fairness)
- [4 Proofs](#4-proofs)
- [5 Findings](#5-findings)
- [6 What is not modelled](#6-what-is-not-modelled)
- [7 Plan](#7-plan)
- [8 Running it](#8-running-it)

## 1 The system

| Component | State it keeps | Operations | What makes it hard |
|---|---|---|---|
| **LAN push** (`lanshare/send.go`, `receive.go`) | the destination directory: final names and `.s2u-partial-*` files; per connection a position, a digest, a cancel flag | `Send`, `Receive`, `handleConn`, `placeFile`, cancel of `Receive` and of one transfer | the offset is announced before the partial is opened; the directory outlives crashes; partials are shared by name; the source may change under the sender |
| **LAN accept loop** (`receive.go`) | `ipThrottle.seen`, `inflightCap.n`, `sem` | accept, throttle, acquire, take a slot, handle, release | every way out of a handler must give back what was taken; one prompt may stay unanswered; cancel while the loop waits for a slot |
| **LAN transfer deadlines** (`transfer_deadline.go`) | the read and the write deadline of a connection | `transferDeadline`, `SetDeadline`, `SetReadDeadline` | two deadlines, one of which replaces half of the other; clamping of the declared size |
| **LAN broadcast and download** (`broadcast.go`) | declared size and digest of the source; slots; per download a partial and a position | `Broadcast`, `handleDownload`, `Download`, `receiveResumable` | the source is read at three moments; the accept loop blocks on `sem`; retries build on what is left |
| **Daemon control** (`daemonctl`) | the token file and the Unix socket | `LoadOrCreateToken`, `Listen`, `Close`, `Query`, `Call` | several processes start, stop and crash between any two system calls |
| **P2P session** (`p2p/session.go`, `signaling.go`) | descriptions, candidate lists, two data channels with their buffers, `failCh`, `ctrlRecv`, `recvCh`, `bufLow` | `Connect`, `Send`, `Receive`, `Close`, and every pion callback | callbacks of one session run beside the user's call; the last acknowledgement races the end of the connection |
| **LAN authentication** (`auth.go`, `tls.go`, `pairing.go`, `verify.go`, `identity.go`, `passphrase.go`) | none beyond a call | handshakes and proofs | cryptographic |
| **LAN discovery** (`mdns.go`, `scan.go`, `self.go`, `devicecard.go`, `compat.go`) | our adverts, the count of our own fingerprints; within a call, what was heard and what was probed | `Advertise`, `Browse`, `Scan`, probe of a card | what was announced is stale or wrong when it is used; receivers restart with a new certificate, devices change address; a machine hears itself |
| **Device identity and trust** (`lanid`, `trust_binding.go`) | identity key, LAN settings, activity log, cached signed trust list | load or create, append, verify and replace the list | first use by several processes; the list of one account under the login of another |
| **Retained content keys** (`pending_reseal.go`) | a JSON file of keys, and one at the old path | load, retain, forget, prune | read-modify-write without a lock; adoption of the old file |
| **Login credential** (`credentials.go`, `login_signing.go`) | a JSON file, and one at the old path | save, load with migration and upgrade, delete | loads write; a migration against a logout |
| **Configuration and caches** (`config.go`, `*_config.go`, `agent_prefs.go`, `cache.go`) | JSON files in the user's configuration directory | read, modify, write | several processes at a time; failing and dying writers; three ways of writing |
| **API client** (`client.go`) | attempts and waiting time per request | `doJSON`: one request, sent again when the rate is limited | `Retry-After` arithmetic; repeating what was done |
| **Agent channel** (`agent*.go`, `lanroute.go`) | none of its own; leaves a file at a peer or at the relay, and a hop at the server | `SendAgentFile`: LAN push, else relay, then inject; `MatchLocalDevices` | a push that worked and is reported as failed; a lost answer; the wrong device at an address |
| **Content encryption** (`crypto.go`, `crypto_sign.go`) | within a call, a counter and a chunk read ahead | `EncryptStream`, `DecryptStream` in three formats; sealing and signing | where the last chunk is; truncated or rearranged objects; nonces under one key |
| **Helpers** (`forms.go`, `qr.go`, `secretscan.go`, ...) | none | formatting and classification | pure |

How they interact. The daemon holds the control endpoint and runs a serving `Receive`;
other processes of the user find it through the socket and the token, and write to the same
destination directories. A push goes `Send` -> accept loop -> `handleConn` ->
`receiveResumableToFile` -> `placeFile`; a download shares `partialName`, `resumeOffset`,
`streamBody` and `placeFile` with it, in the other direction. The P2P session replaces the
LAN connection by two WebRTC data channels that a relay helps to set up. The agent channel
chooses between the LAN (identity and trust list) and the cloud (API client, content
encryption, retained keys).

What makes each correct, in one line:

- push and download: under a final name there is nothing or a whole, verified file, at every
  moment, and no leftover keeps a later attempt from succeeding;
- accept loop: counters equal what they count; nobody is shut out for good; a cancel gets
  through;
- deadlines: a genuine transfer is not cut off; one that stalls ends;
- daemon control: at most one daemon, which can be reached with the token on disk;
- P2P session: success at either end means the whole stream was written, a transfer in which
  nothing goes wrong succeeds at both, and both ends come to an end;
- state files: what a call has reported saved survives the failure of every later one, and
  files saved through a temporary of the writer are replaced as a whole even by calls that
  overlap;
- login, trust and retained keys: a logout is final, no account's trusted devices are honoured
  under the login of another, a retained key is there until it is not wanted or its store destroyed;
- discovery: this machine never finds itself; a device is matched only to what proved its
  identity;
- agent channel and API client: one hop per call, naming a place where its file is, and at the
  target as long as adverts are true; no request sent again before the server allows it;
- content encryption: no key and nonce used twice; what is written out is a beginning of the
  source, and success means all of it.

## 2 What is modelled, and how it corresponds to the code

| Module | Models | Uses |
|---|---|---|
| `FileBlocks` | file contents as sequences of blocks | |
| `AtomicDelivery` | the promise of a destination directory, as an abstract specification | |
| `LanPush` | one receiver and its senders, from dial to done | `FileBlocks`, refines `AtomicDelivery` |
| `Download` | one broadcast and its downloads | `FileBlocks`, refines `AtomicDelivery` |
| `Admission` | the accept loop of `Receive` | |
| `TransferTime` | the deadlines of one transfer | |
| `DaemonControl` | token file and socket of the daemon | |
| `P2PSession` | both sessions of a P2P transfer | |
| `ChunkStream` | the encrypted object formats: writing, storage, reading | |
| `AtomicStore` | the promise of a file replaced as a whole, as an abstract specification | |
| `StateFiles` | nine JSON files of local state and their three ways of being written | refines `AtomicStore` |
| `LoginFiles` | credential, retained keys and trust list together, with the old paths | |
| `Discovery` | adverts, browsing, probing, matching | |
| `ApiCall` | one JSON request with its retries | |
| `AgentSend` | one `SendAgentFile` or `MatchLocalDevices` while devices come and go | `Discovery`, `ApiCall` |
| `MC*` | the values of constants for TLC | the module of that name |
| `*_proofs` | theorems and proofs: `Receiver_proofs` of `Admission`, `TransferTime` and `DaemonControl`; `AgentSend_proofs` of `Discovery` and `ApiCall` too; the others of the module of their name | the module, `TLAPS` |

**FileBlocks.** A file is a size and a function from positions to versions. A *version* is a
content, that is, what a SHA-256 identifies. A digest over blocks is the question whether all
of them belong to one version, so the models tell "the digest of what was received is right"
from "the file holds what was received", which is where the code can go wrong.

**LanPush.** A connection `c` pairs a `Send` with a `handleConn`; `rpc[c]` and `spc[c]` are
their program counters. Files are inodes (`disk`), reached through final names (`dest`),
partial names (`part`, one per name and content, as `partialName` has it) and open
descriptors (`fd`), because `os.Link`, `os.Rename`, `os.Remove` and `O_TRUNC` differ in
which of these they touch. Steps are the system calls and frames: the existence check
(`PassStat`, `RefuseExisting`), `resumeOffset` and the accept (`Accept`), opening
(`OpenTemp`, `OpenFresh`, `OpenResume`), `TruncatePartial`, the top of the loop
(`NextFrame`, `StopCancelled`), a frame (`TakeBlock`, `TakeEof`, `RefuseStream`), placement
(`PlaceByRename`, `PlaceByLink`, `Unlink`) and the answer (`Reply`). The disturbances are a
crash of the receiver, cancellation of the receive or of one transfer, a lost connection, a
silent peer, a failed system call, a source that changes while it is sent, the user taking a
delivered file and `SweepStalePartials`. After each the receiver is started and the sender
tries again. TLS, identity, password and the user's approval are one choice: `Approve` or
`Reject`. `Loop` selects serving or one-shot mode.

**Download.** The broadcaster's loop (`loop`), its handlers (`hpc`) and the downloads
(`ppc`), with one frame on its way in the only direction that matters once the request is
sent. Size, digest and stream read the source at three moments (`StatSource`, `HashSource`,
`StreamBlock`). One call of `Broadcast` is modelled: a new call has a new certificate, and
the certificate's fingerprint is part of the partial's name. A downloader dials again once
its last handler has let go of its slot. Throttle and per-address cap appear as `TurnAway`,
which `Admission` has in detail. Contexts, deadlines, failed system calls and crashes of
the downloader have the same effect, the end of the call with the partial kept, and are one
action (`Stop`).

**AtomicDelivery.** Each name holds nothing or a complete file; a file appears in one step;
it is replaced only if that was asked for; the user may take it. `LanPush` and `Download`
map `files` to what a reader of the directory finds: the contents of the inode under each
final name.

**Admission.** A connection is `queued` in the kernel, `held` by the loop that waits for a
slot, then in `setup`, `prompt`, `transfer` or `notify`, then `leave` (returned, counted) and
`left` (released, slot not yet free). The throttle keeps its attempts by age, in ticks.
`Stuck` are connections whose prompt the user never answers.

**TransferTime.** One transfer in ticks, for every declared size up to the bound. `readBy`
is what is left of the read deadline; `transferDeadline` is the function of the code with
its clamp and its cap, and `AsDuration` makes a Duration come round where it does not fit, in
units small enough to enumerate. (`handleConn` refuses sizes above 1 TiB before it asks for a
deadline; the function is checked for any size.) A frame holds any part of what is left
(`TakeFrame`), also none of it (`EmptyFrame`): `readFrame` accepts a data frame without a
payload. What does not fit the declared size ends the transfer (`Refuse`).

**DaemonControl.** Each system call on the token file or the socket's path is a step.
`sock` names the process that bound the file at the path. A process between `bind` and
`listen` is not yet answering. `Overlap` says whether starts and stops may run at the same
time.

**P2PSession.** Two sides `S` and `R`, each with the program counter of its user's call
(`Connect`, then `Send` or `Receive`, then `Close`), and beside it `runSignaling` (`sgn`)
and the callbacks: candidates (`Emit`), open channels (`LinkUp`), control messages
(`CtrlArrives`), low-water mark (`Arrive`), data messages (`Enqueue`), ICE failure
(`IceFails`). The stream is told by four counters, `sent >= arrived >= queued >= taken`,
because the channel is ordered. Secrets match or do not (`match`). When they do not, the peer
need not run this code: it sends frames as soon as the channel is up, and gives a side its own
MAC back (`Intrude`). `CheckMac` accepts the MAC of the other role under the same secret.

**ChunkStream.** The text of a chunk is an interval of one source, a sealed box the tuple of
key, nonce, additional data and text it was made from, and it opens for whoever has the same
first three: that is AES-GCM as the code relies on it. Random salts and nonce bases are named by
their stream; only the four bytes a nonce keeps of a nonce base (`NonceHead`) may coincide.
`EncryptStream` reads one chunk ahead (`SealNext`, `SealLast`), may stop anywhere
(`EncryptFails`), and `DecryptStream` is offered any chunk of any object with its flag intact or
damaged (`TakeChunk`, `RefuseChunk`), an end (`EndOfInput`) or a zero length (`ZeroLength`)
under any header. All three formats ever written are there, as old objects are still read.

**StateFiles.** Nine files, one at a time, since they share nothing but the way they are
written: through a temporary of the writer's own (`CreateTemp`), through one fixed temporary
(`OpenTmp`) or in place (`OpenFile`). A file is a set of entries in an inode; open, write and
rename are steps, a write may fail half-way, a process may die between any two. Two writers that
hold the same inode can leave a torn text. `may` is the history of the calls that did not
overlap, which `Durable` compares the file with.

**AtomicStore.** An update works on the version as it was when it began and replaces it as a
whole, once, or not at all. It does not promise that no update is lost, because the code does
not: there is no lock between the processes.

**LoginFiles.** The files whose correctness is about each other: the credential, the content keys
kept for re-sealing (they belong to a login) and the trusted devices (they belong to an
account), with the paths of older releases. A read, a truncation, a write and a removal are
steps. `LoadCredential` writes: it migrates (`Migrate`) and upgrades (`Loads`). `over` are the
logins a logout has ended, `owed` the keys whose retention was reported, `honoured` the pairs of
login and account under which a list was used. A call is `stale` once a file or the login has
changed under it, and `mixed` becomes true when a stale call saves what it made of what it
read: the code has no protection against that, and the properties are claimed of all other
interleavings. What such a save leaves is modelled all the same (`Leaves`): two texts mixed, or
nothing at the path if the file written to has been removed. A crash or a failed write takes
nothing out of `owed`: what it costs shows in the files. `AccountIsTheLogins`, which assumes
nothing of other processes, is the property of `TrustRace` only.

**Discovery.** Certificates are numbers in the order they are made, one for each start of a
receiver; `issued` remembers whose. A device card in the certificate proves the identity
(`Identity`), an advert only claims one. What a window hears is what a listener announces of
itself (`Entry`, `Hear`), or an advert out of `Claims` (`HearClaim`), a set of adverts that may
be wrong about address, port, certificate and identity, since the TXT record of an advert is
nothing but what somebody published. The last one heard under a fingerprint is kept
(`SameKey`). `Around` is what other devices, the network
and this machine's own adverts do while a call browses or probes: nothing else reads them.

**ApiCall.** An answer is `ok`, `garbled`, `lost`, `refused` or `limited`; whether the server has
acted on a lost request is a choice (`Acts`). A Duration has `Width` bits and wraps
(`parseRetryAfter`).

**AgentSend.** The parameters are chosen once (`p`), then the program goes through `step`:
prepare, LAN push (browse, select, push) or upload, seal, inject, wait. The push is one step that
succeeds, fails, or is staged and reported as failed; `LanPush` has it in detail. It goes to the
address and port of the chosen advert and is pinned to the fingerprint that advert carries
(`Trusted`), which `pinned` remembers. In the same
module a call of `MatchLocalDevices` goes match, browse, probe.

Conventions. A definition called `A mutant of X` is a plausible mistake in the code of `X`;
nothing uses it but the check that each property notices such a mistake.
`MaxDisturbances`, `MaxCrashes`, `MaxCloses`, `MaxFaults` bound what goes wrong; the proofs
hold for every value of them.

## 3 Runs, bounds and fairness

| Run | Configuration | States | Shows |
|---|---|---|---|
| `lanpush_serial` | `LanPushSerial` | 124,331 | one-shot receiver, one sender that retries, any two disturbances: placed files are verified, success means delivery, names change atomically, handlers end, the file is delivered in the end |
| `lanpush_loop` | `LanPushLoop` | 378,434 | serving receiver, two senders with different contents: they never share a file |
| `lanpush_shared` | `LanPushShared` | violation | two senders of the same content under the same name |
| `download` | `Download` | 313,054 | one broadcast with one slot, two downloaders, one disturbance: what is placed is what was offered; everyone is served; cancel returns |
| `admission` | `Admission` | 21,366 | both modes, three connections of one peer and one of another: balance, bounds, no starvation, cancel returns, the throttle wears off |
| `transfer_time` | `TransferTime` | 60,311 | every size up to 40 blocks, past the range of a Duration: no genuine transfer is cut off, done goes unwritten only when the transfer was slower than its size justifies, the receiver is done in the end unless empty frames never cease |
| `daemon_control` | `DaemonControl` | 2,528 | two daemons and a client, three crashes, two stops, one start or stop at a time (overlapping ones are `DaemonOverlap`) |
| `p2p_session` | `P2PSession` | 575,165 | any two of: context ended, early `Close`, crash, relay lost, network lost; secrets that match, and a peer without the secret |
| `chunk_stream` | `ChunkStream` | 2,848,576 | four streams under one key in all three formats: nonces, order, truncation, intact objects always open |
| `state_files` | `StateFiles` | 1,731,445 | nine files, two processes, two failures: what was saved stays saved; atomic replacement as a refinement |
| `login_files` | `LoginFiles` | 5,836,588 | two processes, two logins for different accounts, two shares, three calls, one failure: logout is final, keys are kept in a store that can be read, trust is for the login |
| `agent_send` | `AgentSend` | 2,754,141 | one call, two other devices, two changes or wrong adverts around it, two adverts of our own, three attempts |

Further configurations reproduce findings (section 8).

Why the bounds are enough.

- *Files of two blocks* are the shortest with a strict, non-empty prefix, which is what a
  resume needs. In `LanPush` a second version one block long makes a changed source run past
  or end short of its declared size. `Download` has a third version as long as the first,
  because there the broadcaster states its size and its digest separately and a mixture of
  two contents of equal size has to be told apart.
- *Two disturbances* of any kind, in any order, allow an interrupted attempt whose successor
  is interrupted too (a crash in a resumed transfer, a source that changes and changes back).
  `lanpush_loop` and `download` have one: with two actors their own interleavings are the
  subject. The proofs cover every number.
- *Inodes*: a partial, a delivered file and one per handler are in use at most, so that a fresh
  one exists whenever the code creates a file. In `Download` the choice of the new inode is
  fixed (`NewInode`), as no property depends on it.
- *One slot and two downloaders* make the accept loop wait for a slot with a connection in
  its hands; two slots and three connections of one peer in `Admission` reach both the cap of
  the peer and the limit of the handlers.
- *Four tokens*, because a token is never used twice: two processes can hold two and the file a
  third. Three crashes and two stops let a start be interrupted at any step and be tried again.
- *A send buffer of two frames, one of the SCTP window and one of `recvCh`* let every queue be
  full while the stream of three still has a frame to go.
- *Four streams* in `ChunkStream`: one of each format, and a second of the present one for
  what two streams under one data key may share. Chunks of two bytes and sources of 0, 2
  and 3 are the empty source, a whole number of chunks, and a last chunk that is short.
- *Four inodes* in `StateFiles` are one per name and one per writer. *Two failures* let a
  failed call be followed by a dying process before anything has been saved again.
- *Three calls* in `LoginFiles` are what its properties need: a call that leaves something
  behind (a migration, a failed write), the logout, and a load after it. Two logins for two
  accounts, and every mixture of old and present files, are in the initial states.
- *Two changes* around a call in `AgentSend`: the shortest ways to a wrong device or to
  oneself have two (an address is left and taken by another device; one of two adverts
  is withdrawn and released). Three attempts, a wait of at most 6 units and 12 in total,
  and a Duration of five bits: `Retry-After` can be within the bound, above it, or wrap around.
  The sessions asked for include an empty fingerprint and a duplicate. The claims are one of
  each kind: right identity with the certificate of another listener, with a wrong port, or
  with no certificate; and an offer. (No listener of the run offers a broadcast.)
- *Sizes up to 40 blocks* in `TransferTime`, with a Duration that ends at 16 ticks: at two blocks
  a tick a size can take up to the cap, beyond it, and beyond what a Duration holds.
- `CHECK_DEADLOCK FALSE` is set where the system may stop: after a transfer (`TransferTime`),
  a cancelled broadcast (`Download`), a stream read to its end (`ChunkStream`), a returned call
  (`AgentSend`), or at the bound on calls (`LoginFiles`).
- Symmetry sets are used where no temporal property with fairness is checked.

Fairness, and why the code justifies it.

- Steps of a handler, a sender, a download or a P2P call are weakly fair: they are code that
  runs, and where it waits for a peer it waits under a deadline (30 s for a handshake, 60 s
  for a frame or a write) or is woken by a callback. A deadline that passes is a disturbance,
  so it is never *needed* for progress except in `TransferTime`, where it is the subject.
- `StartReceive` and `Connect`, and `Start` in `Download`: the receiver is started and the
  peer tries again. Delivery "in the end" is a claim about users who do not give up, and no
  more.
- `Accept` (`Download`) and `TurnAway \/ Admit` (`Admission`) are strongly fair per
  connection: the kernel's queue of connections is first come, first served, so one that waits
  is not overtaken for ever although the loop is at times busy.
- The user's answer to a prompt is fair only for connections outside `Stuck`. `OnRequest` in a
  broadcast is taken to return.
- `Start(p)` in `DaemonControl` is strongly fair for daemons: they are started again when they
  end. It is enabled only between the starts of others, hence strong fairness.
- `LinkUp`, `Arrive`, `Enqueue` (`P2PSession`): a connection that can be made is made and
  delivers, until a fault takes it away. `GiveUp` (the caller's context ends) is a
  fault that need not happen, so `SessionEnds` does not rest on it: a session whose peer is
  gone is ended by the failure callbacks (`IceFails`).
- `ChunkStream`, `StateFiles`, `LoginFiles` and `AgentSend` state no fairness: everything in
  them that must eventually happen is the return of a sequential call without waiting, or
  with a wait that has a bound (`MaxTotal`).
- `EventuallyPlaced` is conditional on the offering being servable from some moment on: a
  source that has been changed for good makes every download end with a mismatch, rightly.

## 4 Proofs

All theorems hold for every value of the constants that satisfies the named assumptions
(`SizeAssumption`, `TokenAssumption`, `AccountAssumption`, ...), which TLC also evaluates on
every run. Every invariant and every action property that a passing run checks is the
conclusion of one of them, and so are the refinements.

**LanPush** (`LanPush_proofs`). `TypeCorrect` and `SendSuccessMeansDelivery` need nothing
else. The others hold under `ExclusiveOffers /\ ~ModeMayChange`: no two senders of a serving
receiver push the same content resumably under the same name, and the receiver is not
restarted with another `Overwrite`. Neither condition is decoration: `LanPushShared` and
`LanPushReopen` are the counterexamples without them. `LandedVerified`
is not inductive: that the blocks hashed are the blocks in the file needs that nobody else
writes it, and that in turn needs to know which names lead to a file in somebody's hands. The
invariant is `IInv == TypeOK /\ Admitted /\ Owned /\ Intact`:

- `Admitted`: each connection carries one of its own offers; a one-shot receiver has at most
  one busy handler; offsets lie within the file.
- `Owned`: a handler holds a descriptor exactly while it works; no two hold the same file; a
  held file is found under its own partial name or no name; partials differ from each other
  and from delivered files, except in the window between link and remove (or after a failed
  remove), when the alias is sealed: nobody will open it, as the final name exists and may not
  be replaced.
- `Intact`: what each handler's file holds at each point of its program, delivered files being
  complete.

`PlacedFilesAreVerified`, `DeliveredFilesStayIntact` and `HandlersDoNotShareFiles` follow;
`PushImplementsDelivery` maps every step to a step of `AtomicDelivery` or a stutter.

**Admission** (`Receiver_proofs`). `IInv == TypeOK /\ HandOK /\ Balanced /\ Within`. The
counters are compared with cardinalities of sets of connections, so the lemmas say what adding
or removing one connection does to a cardinality; `HandOK` knows where the connection in the
loop's hands is. Needs `Conn` finite. `AdmissionTypeCorrect`, `CountersAreBalanced`,
`HandlersAreBounded`.

**DaemonControl** (`Receiver_proofs`). Under `~Overlap`:
`DaemonInv == DaemonTypeOK /\ OneBusy /\ Holds /\ NobodyServes /\ TokenKept`. `NobodyServes` says that a
process about to remove a socket is right to: between its probe and its removal nobody can
have begun to serve. That is what overlapping starts break. `AtMostOneDaemon`,
`DaemonIsReachable`.

**P2PSession** (`P2PSession_proofs`). `TypeInv` adds to `TypeOK` that a frame is written only
while one is left. `SafeInv == TypeOK /\ ControlOrder /\ AckIsWhole /\ Genuine /\ Roles`: `awaitAck`
takes whatever arrives on the control channel for the acknowledgement, so that success means
delivery rests on the order of control messages (`ControlOrder`): the MAC is gone from the
channel before the sender can wait. With a peer that does not follow the code there is no such
order, so `SafeInv` is an invariant under `match`. `SecretInv` covers both cases: without the secret
nobody gets past `verifyPeer` (`Barred`), and nothing that is queued before a side has checked
the other counts (`NothingUnverified`, hence `StreamIsVerified`). `SuccessMeansDelivery` and `StreamIsVerified`
hold without assumptions on faults. `NothingFailsByItself` is about the other case: secrets that match and no
fault. Neither end may then fail, although the two leave one after the other and each sees the
other's end as a lost connection. Its invariant `Calm` says why none does: until the sender has
succeeded, nobody has left, nothing that ends a session is on its way and no failure is seen,
and the receiver lingers from the moment the stream is whole (`Undisturbed`); the sender leaves
only with the acknowledgement in hand, when the receiver has nothing to do but to notice.

**TransferTime** (`Receiver_proofs`). Under `TimeAssumption`, for every size, rate, floor and
cap. While the receiver reads, the silence so far and what is left of the read deadline add up to one
frame timeout (`FrameClock`), because each frame sets the deadline anew; so the deadline of the
whole transfer never cuts one off (`GenuineTransfersAreNotCutOff`), the other side of finding 5.
A transfer placed but not answered has outlived the deadline for its size (`LateAnswer`). That is
the floor and the time the size takes at the slowest rate, or the cap: as the seconds are clamped
before they become a Duration, no step of the computation comes round (`AnswersAreInTime`).

**ChunkStream** (`ChunkStream_proofs`). `IInv == TypeOK /\ Shape /\ Writing /\ Reading /\ Intact`.
`Shape` says of each chunk of an object what it is sealed from and under; `Writing` where the
encryption stands; `Reading` that what has been written out agrees with the counter and the
position in the source. The step that matters is that a chunk opens only at its own place
(`OpensOnlyNext`): the additional data and the nonce fix object, counter and final flag. Sources
and chunk sizes are arbitrary numbers, so the case of a last chunk that is full is covered for all
of them. `NoncesAreUsedOnce`, `OutputIsAPrefix`, `SuccessIsTheWhole`, `IntactObjectsOpen`.

**StateFiles** (`StateFiles_proofs`). `IInv == TypeOK /\ CallsOK /\ TmpOK /\ Private /\ Alone`.
`Private`: the temporary of a writer's own is in nobody else's hands and not yet the file, and
holds nothing or exactly what its call made; that a fresh inode exists whenever one is needed
(`FreshIsFree`) is a counting argument from `InodeAssumption`. `Alone`: while no calls have
overlapped, what the one call is about to save is what becomes of one of the versions that may be
there (`Due`). `FilesAreDurable` follows, and `SavesImplementAtomicStore` maps each step to an
update, a commit, an abort or a stutter of `AtomicStore`. It needs nothing about overlap: that is
its point.

**AgentSend** (`AgentSend_proofs`, which covers `Discovery` and `ApiCall`). Under
`DiscoveryAssumption`, `SessionAssumption`, `ApiAssumption` and `TargetAssumption`.
`IInv` is made of `DInv` (`LanOK`: a certificate in service was issued to the listener that
serves it; `BrowseOK`, `ScanOK`, `MatchOK`, `OnePeer`: what was probed and matched names
certificates and what they prove; of what was heard nothing is assumed) and `SInv` (`Params`, `Chosen`, `Placed`, `Progress`,
`OneHopWithItsFile`: where the call is, and so where its file can be). `HopsNameTheirFile` and
`MatchesAreVerified` follow, whatever `Claims` holds. That the file is at the *target* needs more:
`TrueAdvertsReachTheTarget` proves it for `Claims = {}`, when every advert heard is a listener's
own, however stale (`TrueSoFar`); finding 16 is what happens otherwise. `OneselfIsNotDiscovered` adds that the count of our own fingerprint
is the number of adverts that are open or withdrawn and not yet released (`CountOK`);
`RetryAfterIsHonoured` that the wait was computed from the last answer (`WaitOK`), with the
arithmetic of `Wrapped` for every width.

**Download** (`Download_proofs`). Under `ExclusiveDirs`, no two downloaders with one directory,
which is not decoration: finding 2. As in `LanPush`, that what was hashed is what is in the file
needs that nobody else has it open or by a name; here a partial outlives its download, and the
next of the same directory goes on with it.
`IInv == TypeOK /\ Apart /\ OwnPartial /\ LeftBehind /\ Filled /\ Begun`:

- `Apart`: no directory's partial is a file of another, and no file is open twice.
- `OwnPartial`: what a download has open is its directory's partial, unless that has been swept,
  and has no final name before it is placed.
- `LeftBehind`: a placed file keeps its partial's name only between link and remove, or when
  the download ended just there, and then there is no overwriting: the name is never opened
  again.
- `Filled`: what is counted and hashed is what the file holds, across truncation and resume.
- `Begun`: nobody downloads before the digest of the source is known.

`TypeOK` itself needs that `sem` counts the handlers (`SlotsCounted`), which needs finitely many
downloaders. `PlacedFilesAreTheOffer`; `DownloadImplementsDelivery` maps each step to a step of
`AtomicDelivery` or a stutter.

**LoginFiles** (`LoginFiles_proofs`). `IInv` is `TypeOK` with the conjuncts

- `AccountsAreOwn`: a credential, on disk or in a call's hands, is for the account of its login
  or for none;
- `WantedIsKept`: a key that is wanted is at the present path, unless the store there is empty or
  torn, and every call that is about to write that store has it in hand;
- `AllUsed`, `LoginIsFresh`, `NothingIsOver`, `LogoutProgress`: a token that is seen anywhere is
  that of a login there has been; that of a login in progress is nowhere else; a token that is
  over is in no file and in no call that is not stale; a logout has removed what it has passed.

`AllUsed` and `LoginIsFresh` hold always. The others speak of a call mostly while it is not stale
and, `LogoutProgress` apart, only while `~mixed`: a stale call may hold what a logout has
removed, but it is the save that would matter, and that sets `mixed`. `LogoutsAreFinal`, `RetainedKeysAreKept`, `ListsAreForTheLogin`.

Proofs of type correctness are theorems of their own or a conjunct of `IInv`; the runs that
would only repeat them do not.

Only model-checked is what needs fairness (`HandlersEnd`, `EventuallyDelivered`,
`EventuallyPlaced`, `BroadcastReturns`, `NobodyWaitsForever`, `CancelReturns`,
`ThrottleWearsOff`, `ServedAgain`, `TransferEnds`, `SessionEnds`, `TransferCompletes`): liveness is
outside what the prover handles.

## 5 Findings

Each is quoted and located in `PROJECT.json`. The first has a run among those above; where
another configuration reproduces a finding, its name is given (section 8); for the others the
trace is described.

1. **Shared partial** (`receive.go:471`, run `lanpush_shared`). Two pushes of the same content
   under the same name to a serving receiver use one partial. The digest is over the frames,
   not over the file, so a torn file can be placed as verified.
2. **Two downloads of one offering** (`broadcast.go:283`). The shared partial again, between
   two processes that download the same offering into one directory. `Download` with both
   downloaders mapped to one directory (`DirOf <- OneDir`) violates `PlacedIsOffered`.
3. **Delivered file reopened** (`receive.go:571`, `LanPushReopen`). A crash between `Link` and
   `Remove` leaves a partial name for the delivered file; a receiver with `Overwrite` then
   empties and rewrites the delivered file in place.
4. **Two daemons** (`transport_unix.go:35`, `DaemonOverlap`). Probe and removal of the socket are
   two steps, so one start can remove the socket another has just bound.
5. **No limit on a transfer** (`receive.go:591`, `TransferTimeLimit`). The deadline of each frame
   replaces the deadline of the whole transfer, and a frame may be empty: a sender can hold the
   receiver for ever.
6. **Acknowledgement dropped** (`session.go:617`, `P2PSessionAck`). A receiver that has lost its
   relay connection does not linger; the sender can report a failure of a transfer that
   completed.
7. **Adopted keys lost** (`pending_reseal.go:124`, `RetainedKeys`). A key store of an older release
   is read and removed, but not saved at the present path when the call only reads.
8. **Logout undone** (`credentials.go:82`, `LogoutRace`). A load in one process that migrates or
   upgrades the login, around a logout in another, writes the deleted login back.
9. **Sweep switched off** (`lanroute.go:133`, `SweepQuiet`). Addresses heard over mDNS become the
   only targets of the scan; one announcement by any device keeps a quiet one from being found.
10. **Two first identities** (`lanid.go:57`; trace: two processes call `Identity` before there is a
    file, both read before either renames). One of them works under a key that is not on disk.
11. **Discard not seen** (`receive.go:593`; trace: cancel a transfer with
    `keepPartial = false` while its handler is blocked in `readFrame`, then lose the connection).
    The partial stays.
12. **One-shot receive ends without a transfer** (`receive.go:248`). The documentation says the
    listener keeps waiting after a failed local check; a refused overwrite or a broken stream
    ends it.
13. **Short stream keeps its partial** (`broadcast.go:453`), where the documentation of
    `receiveResumable` says a size error discards it. `EventuallyPlaced` shows that keeping it
    does no harm.
14. **A list's account given to an older login** (`trust_binding.go:47`, `TrustRace`).
    `SaveTrustList` loads the login only after the list has been fetched. When a slow load has
    meanwhile written an older login without an account back, that one is bound to the account
    of the list.

15. **Keys lost with their store** (`pending_reseal.go:164` and `:144`, `KeysLost`). The key store
    is rewritten in place. A write that fails or a process that dies between truncation and its
    end loses every key retained before, also in a load that only prunes, which ignores the error.
    The comment of the store says it keeps them until delivery or expiry.
16. **Push to another receiver** (`agent_lan_push.go:57`, `WrongAdvert`). A peer is chosen by the
    identity its advert names and pinned by the fingerprint the same advert carries. When the two
    do not belong together the push succeeds elsewhere, the hop says that the file comes over the
    LAN, and the relay is not used. (The ciphertext is sealed to the target: nothing is disclosed.)

## 6 What is not modelled

- Cryptography (TLS, SPAKE2, Ed25519): an outcome is a choice or a fixed fact of the
  model (`Approve`, `match`, `Identity`). AES-GCM is taken to open a box for exactly the key,
  nonce and additional data it was sealed with. Sealing a data key to a device and signing are
  one call of a primitive each.
- What a crash of the machine does to unsynced data: a crash is that of a process.
- Starts and stops of daemons that overlap, except in `DaemonOverlap`: the passing run and the
  proofs exclude them, and claim nothing of what a second start leaves of the token, or a late
  `Close` of another's socket.
- In `NeverSelf`: an entry of our own that was heard between the publication of an advert and its
  registration, and is returned after it.
- `Retry-After` beyond the range of a Duration (some 292 years) comes round in the model as in the
  code; `HonoursRetryAfter` exempts it.
- What overlapping calls on one state file leave, beyond `AtomicStore` for those that have a
  temporary of their own: there is no lock, so updates can be lost, and nothing is claimed.
- Which field of the configuration a setter changes, defaults and validation.
- The Windows transport of the daemon, and a probe that times out although a daemon listens;
  the requests a daemon serves: nothing is kept between them.
- Of discovery: resolving one device by its name, the compatibility hints in adverts, and what
  calling the tailscale binary does beyond the list it returns.
- Of the API client: the methods that format one request, and transfers to and from presigned
  addresses, which do not retry.
- Several offerings of one broadcaster at a time, which share nothing.
- Pure helpers, and platform code for starting processes and measuring free space.

## 7 Plan

Done, in this order: `LanPush` with `AtomicDelivery` and its proofs, `Admission`, `DaemonControl`
and their proofs, `TransferTime`, `P2PSession` and its proofs, `Download`; then `ChunkStream`,
`StateFiles` with `AtomicStore`, `LoginFiles`, `Discovery` with `ApiCall` and `AgentSend`, and the
proofs of `TransferTime`, `ChunkStream`, `StateFiles` and `AgentSend`; then the proofs of
`LoginFiles` and `Download`, and of `NoSpuriousFailure`.

Next, most important first:

1. An abstract specification of a transfer between two parties (what success at one end means
   for the other, and that it comes once), which `P2PSession` implements, in place of the
   separate theorems.
2. The LAN handshakes as an exchange of messages, with the bindings between TLS certificate,
   proof and request, which are now a choice in `LanPush` and `Download`.
3. The two hazards without a property: the discard that a blocked handler does not see, and the
   failures that end a one-shot receive.

## 8 Running it

    tlc -workers 2 -config LanPushSerial.cfg MCLanPush
    tlc -workers 2 -config TransferTime.cfg TransferTime
    tlc -workers 2 -config LogoutRace.cfg MCLoginFiles
    tlapm LanPush_proofs.tla

Each run takes less than three minutes on two cores. The configurations of `TransferTime` and
`P2PSession` belong to the module itself, all others to an `MC` module:

| Configurations | Module |
|---|---|
| `LanPushSerial`, `LanPushLoop`, `LanPushShared`, `LanPushReopen` | `MCLanPush` |
| `Download`, `Admission`, `ChunkStream`, `StateFiles` | `MCDownload`, `MCAdmission`, `MCChunkStream`, `MCStateFiles` |
| `DaemonControl`, `DaemonOverlap` | `MCDaemonControl` |
| `LoginFiles`, `RetainedKeys`, `KeysLost`, `LogoutRace`, `TrustRace` | `MCLoginFiles` |
| `AgentSend`, `SweepQuiet`, `WrongAdvert` | `MCAgentSend` |
| `TransferTime`, `TransferTimeLimit` | `TransferTime` |
| `P2PSession`, `P2PSessionAck` | `P2PSession` |

`LanPushReopen`, `DaemonOverlap`, `TransferTimeLimit`, `P2PSessionAck`, `RetainedKeys`,
`KeysLost`, `LogoutRace`, `TrustRace`, `SweepQuiet` and `WrongAdvert` end with a violation of the one property in them, as does
`LanPushShared`.
