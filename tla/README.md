# A TLA+ model of pi-localsend

pi-localsend sends and receives files over the local network with the LocalSend
protocol. It keeps nothing running: every tool call opens its sockets, works
and closes them. What can go wrong is therefore in what overlaps *within* a
call (HTTP requests, a timer, an abort, file streams), *between* two machines
(lost answers, late requests) and *between* processes that share
`~/.pi` (settings, TLS identity). The modules here are about these three.

All paths below are relative to the repository's `src/` unless they start with
`README.md`, `index.ts`, `skills/` or `tests/`. `PROJECT.json` maps each
definition to the lines it stands for.

## 1. The system

| Component | State it keeps | Operations | Talks to |
|---|---|---|---|
| Receive window (`server/receive-server.ts`, `server/listener.ts`) | `session`, `session.received`, `pinAttempts`, `files`, `bytesReceived`, `settled`; timer, abort listener, set of sockets | `receiveOnce`, handler for info / register / prepare-upload / upload / cancel, `complete`, `shutdown` | peers over HTTP; upload store; TLS identity |
| Upload store (`writeBody` in `receive-server.ts`, `uniquePath` in `net.ts`) | the download directory; per upload a stream, a `.part` file, a target | choose a path, write, rename, discard | the file system; the handler that awaits it |
| Send client (`clients/send-client.ts`) | per call: session id, tokens, results | `sendFiles`, `cancelSession`, `send` | a peer over HTTP; TLS identity |
| TLS identity (`tls.ts`) | `key.pem`, `cert.pem` | `ensureTlsMaterial`, `isUsableCertificate` | the file system, `x509.ts` |
| Configuration store (`config.ts`) | `overrides` in memory, the settings file | `loadConfig`, `getConfig`, `updateConfig`, `persist` | the file system |
| Discovery (`discovery.ts`) | the collector, two UDP sockets, a server | `discoverPeers`, `joinMulticast`, `PeerCollector`, `findPeer` | devices over UDP and HTTP |
| DER and X.509 (`x509.ts`) | none | encoders, `generateSelfSignedCertificate` | TLS identity, Node's parser, peers |
| Tools, entry, formatting (`tools/`, `index.ts`, `formatting/`) | none beyond the call | one `execute` per tool; `formatReceiveResult`; the choice of an addressee | all of the above |

What makes each of them correct, and what is hard about it:

* **Receive window.** It has one outcome, "completed" means whole, every answer
  agrees with the record, wrong PINs are bounded, it ends whatever peers do.
  Hard: each handler gives way at its awaits (body of a prepare-upload, body of
  an upload, end of the stream), so every check made before an await is stale
  after it; timer, abort, cancel and the last upload race to settle.
* **Upload store.** Only whole files appear, only under free names, and no
  `.part` file is left. Hard: the target is chosen long before the rename that
  creates it; a destroyed stream may still open its file; writes fail late.
* **Send client and the window together.** What one end reports the other one
  has recorded. Hard: an answer is lost although the request was carried out; a
  request that was given up still arrives.
* **TLS identity and settings.** Key and certificate match, a good certificate
  and a saved fingerprint are kept. Hard: kills between two writes, writes that
  fail, a certificate that expires, a second process.
* **Discovery.** Everything opened is closed, whoever was answered is listed,
  we are not. Hard: the end of the scan meets handlers that still read.
* **Tools.** What the user is told agrees with what is on disk, and the call
  ends. Hard: `done` resolves while file streams are still at work, and the
  outcome is looked at before the files.
* **DER, names, addressees.** A peer's verifier reads in a certificate what was
  put in; a name that a peer declares stays inside the directory and opens as
  what it is; an alias reaches its device. Hard: lengths and first bits at their
  limits, trimming that brings dots back, four ways to match one name.

## 2. The modules

| Module | Models | Extends / instantiates |
|---|---|---|
| `ReceiveServer` | one receive window | |
| `UploadStore` | the download directory under several uploads | `Inbox` (refinement) |
| `Inbox` | what a user may expect of that directory (abstract) | |
| `ReceiveTool` | a call of `localsend_receive`: window, directory and the text told | `ReceiveServer`, `UploadStore` |
| `SendClient` | runs of `sendFiles` against whatever answers | |
| `Transfer` | senders, an unreliable network and one window | `SendClient`, `ReceiveServer` |
| `TlsIdentity` | `ensureTlsMaterial`, one file operation at a time | |
| `ConfigStore` | the settings in several processes | |
| `Device` | processes that start, run tools and die | `TlsIdentity`, `ConfigStore` |
| `Discovery` | one scan | |
| `Texts` | `String.prototype.trim` | |
| `Der`, `Certificate` | the encoders, the certificate, a strict reader, `isUsableCertificate` | |
| `FileNames` | `safeFileName` and the names `uniquePath` tries | `Texts` |
| `Addressee` | `findPeer` and the choice between address and scan | `Texts` |
| `Conversions` | one call of one of these pure functions | `Certificate`, `FileNames`, `Addressee` |
| `ReceiveServerProofs`, `UploadStoreProofs`, `DeviceProofs`, `DiscoveryProofs` | theorems | their module, `TLAPS` |
| `CertificateProofs` | lemmas on the encoders, the reader and the certificate | `Certificate`, `TLAPS` |
| `ConversionsProofs` | theorems | `Conversions`, `CertificateProofs` |
| `TransferProofs` | theorems | `Transfer`, `ReceiveServerProofs` |
| `ReceiveToolProofs` | theorems | `ReceiveTool`, `ReceiveServerProofs`, `UploadStoreProofs` |
| `MC...` | definitions for TLC | their module |

In the modules a definition whose comment begins with "Faulty:" is a variant
with a plausible bug. Nothing uses it; substituted for the definition that
follows, it makes the property named beside it in `PROJECT.json` fail.

### ReceiveServer

Node runs one callback at a time, so an action is the code from one await to
the next. `step[r]` names the await in which the handler of request `r` is
suspended:

| `step` | suspended in |
|---|---|
| `hello` | `readJsonBody` of a register |
| `body` | `readJsonBody` of a prepare-upload (line 227) |
| `writing`, `ending`, `discarding` | `writeBody` (line 290): reading, in `stream.end`, removing its partial file |
| `replying` | not suspended: the response is not flushed yet, `finish` may still come |
| `answered`, `dropped` | flushed; connection ended before that |

`session` is the request that opened the session (the code's random session id
serves as a name only); `ask[r]` is what `r` asks for as far as it was let in;
`closes[r]` is the `finish` listener a handler put on its response. `Complete`
is `complete()` with the synchronous half of `shutdown()`; `ServerClosed` is
the other half. `Stored` reads `session` *again*, as line 292 does, and need
not find the session that `Upload` checked.

Modelling decisions worth knowing:

* A request has a connection of its own. Keep-alive would only make two
  requests share the end of a connection.
* Connections arrive only once the window is `listening`: between `listen()`
  and the timer the code awaits a UDP bind, which gives way to microtasks.
* A response in flight when its connection ends may or may not emit `finish`
  (`FlushFails` allows both).
* `Addresses` may hold `None`, for a connection whose address is no longer known
  (`normalizeRemoteAddress` gives `""`): a session opened by such a connection is
  bound to no address (`receive-server.ts:272`).
* An abort before the listener is attached does nothing (`signal.aborted` is
  never read); `aborted \in BOOLEAN` in `Init` covers a signal that had already
  fired.

### UploadStore and Inbox

Names point to inodes, writers keep the inode they opened, so that truncating,
renaming and removing under a writer do what a POSIX file system does.
`stage[u]` follows `writeBody`. `Open` may complete after the stream was
destroyed, as Node's does, and `Remove` waits for `Close`, which is what the
comment of `fail()` is about. `Inbox` has one action: the complete body of an
upload appears under a free name. The refinement mapping (`Shown`) looks at the
contents of the inode a name points to, at the places of every stem that is not
`Rough`. `Rough` are the stems whose uploads senders overlap and whose last
writes may fail, which is when the code does not keep the promise; `Inbox` then
says that none of this reaches the files of another stem.

The disk may refuse at every stage, and each refusal takes another way out of
`writeBody`: while the body is read, opening or writing fails and `fail()` goes
straight to `rm` (`StreamError`); in `stream.end` or while `fail()` waits for
`close`, the open may still fail (`OpenFails`); `renameSync` may throw with the
partial file there or gone (`RenameFails`); and the last writes, or an open with
another upload's partial file there, may fail where nobody looks: the file is
renamed all the same (`StoreUnwritten`), and the stream's `error` event then runs
`fail()` and removes what is at the partial path by now (`LateError`, due in
`error[u]`).

### ReceiveTool

A handler inside `writeBody` and its stream take their steps together
(`Upload`, `EndBody`, `Stored`, ...); opening, writing and closing are steps of
the directory alone (`Disk`), and they go on after `Return`, as in the program,
where `done` waits for the server and not for the handlers. What the disk may
refuse is `Fault`, for which nothing is fair. `InStep` says where
`writeBody` is when its handler waits for it; it is part of the type invariant,
and it is what makes "recorded" and "stored" the same thing. The descriptor of a
file gives name and size to every upload of it (`SameDescriptor`). `told` is
what `formatReceiveResult` makes of the result at the moment the call returns.
Left out, because `receive_safety` covers them: cancels, `register`, `info`,
uploads of anything but the current session with the right token.

### SendClient and Transfer

`stage[s]` is the call that `sendFiles` awaits. Each call is a request of its
own at the window (`Calls` replaces `Requests`). `Network(r)` lets a request
that is on the wire take the steps of `ReceiveServer` with *its* parameters;
it may do so late, after its sender has given up, or never. `CallFails` is
every way in which a `send()` rejects. `elsewhere` are senders that talk to some
other LocalSend device, which may answer anything (`AnyPeer`). The receiver's
own abort is left out here: senders cannot tell it from the timer.

### TlsIdentity, ConfigStore, Device

A file holds (half of) a generated pair, or `"torn"` bytes between its
truncation and the end of its write. `useless` are the pairs that
`isUsableCertificate` refuses; time adds to it (`Expire`). `Device` starts
processes, runs tools that read or update the settings and then ask for the
identity, and kills processes between any two file operations. `persist()`
writes a file of its own and renames it, so it is one step that happens or does
not (`Persist`). Writing may fail at any point, reading a file that is there does
not: a good certificate that could not be read for a moment would be replaced.
The constant `Overlap` says whether a second process may run
at the same time.

### Discovery

`open` is what the scan has open. `Cleanup` is `cleanup()` up to its await.
A device is named after the `host:port` by which the collector keys it. A
packet that is lost is one no action delivers; repetition and reordering are
actions taken again or in another order.

### Der, Certificate, FileNames, Addressee, Conversions

Buffers, names and texts are sequences; `Conversions` has one action per
function, so that TLC enumerates the arguments. `Der` holds the encoders of
`x509.ts` beside a reader that accepts only what X.690 calls distinguished
encodings; the reader is external (Node's parser, the verifiers of peers), and
so are key and signature, which keep only their lengths. `Usable` is
`isUsableCertificate`, its two weeks counted to the second (`LongEnough`); `Now`
is when the certificate was made, a minute after its validity begins. What the
user gives and what a device announces are different texts: only the first is
trimmed (`FindPeer`, `Addressee`). Characters are classes (`"control"`, `"x"` for an ordinary
one, the two slashes, the dot, the blank).

## 3. What is checked

`tlc -config <cfg> <module>`, deadlock check off: all these systems are
one-shot and really stop (a window that is done, a scan that returned, a
process that was killed, a sender that has returned).

| Run | Instance | Shows |
|---|---|---|
| `receive_safety` | 3 requests, an address and none, 2 file ids, PIN with 1 allowed wrong guess; symmetric; 3.5 M states | `CompletedMeansAll`, `RecordedBelongs`, `AnswerMatchesRecord`, `LastAnswerFirst`, `GuessesBounded`, `CancelNeedsSession`, `OutcomeStable`, `SettledTakesNothingNew` |
| `receive_one_session` | 2 requests | **violated:** a second session replaces the first |
| `receive_timeout` | 2 requests | **violated:** a window times out with files received |
| `store_safety` | 3 uploads of two stems, one of them rough and with a name that ends in `.part`, an old file and an old `.part`, suffixes up to 2; 1 M states | `NoStrayPart`, `PositiveSizeKept`, refinement of `Inbox` |
| `store_overwrite` | 2 overlapping uploads of one name | **violated:** a file that was stored is changed by another upload |
| `receive_tool` | 2 uploads of one name that may overlap, 1 prepare-upload of one file or two, errors on opening, writing and renaming; 392 k states | `RecordedOnDisk`, `ReceivedIsWhole`, `NoStrayPart`, `CallReturns`, `UploadsSettle` |
| `conversions` | all 9331 names of up to 5 of 6 characters; 115 certificates; 2 devices with aliases of up to 2 characters, blanks included; 29 k states | `StaysInside`, `KeepsExtension`, `ReadsBack`, `AcceptedExactly`, `AliasReaches` |
| `fresh_certificate` | 16 certificates of 2026, one for each kind of serial number | **violated:** a new certificate is refused by its maker |
| `transfer` | 2 senders, 2 files (both from one sender or one each), 1 lost connection, either sender possibly elsewhere; 1 M states | `ReportedIsRecorded`, `WholeMeansCompleted`, `CancelSettles`, `CompletedRefusedNothing` |
| `transfer_trouble` | the same | **violated:** a session is left without a cancel |
| `device` | 2 processes (one at a time), 4 key pairs, 2 values, 2 fingerprints; 24 k states | `PairsMatch`, `GoodCertKept`, `PrintKept` |
| `scan` | 2 devices, 3 fingerprints, 2 bursts; 175 k states | `NothingLeftOpen`, `AnsweredIsListed`, `NeverOurselves`, `ScanEnds` |

Each run of a state machine that passes also checks the type invariant of its
module; in `receive_tool` that includes `InStep`.

**Bounds.** Three requests are the least with which a session, its replacement
and an upload into either can meet, or two uploads of one session; two file ids
make "all files" differ from "some file". A session of one file and one of two
are both among the offers. `MaxSuffix = 2` reaches the end of the suffix loop
(999 in the code) with an old file and two new ones. `MaxChunks` is enough for
a body shorter than, equal to and longer than the declared size. `Sizes` leaves
out 0, which switches the cap off (section 4). In `receive_safety` one known address and none differ as two known ones do, and none
also opens sessions bound to nobody. `MaxLost` counts broken connections of
uploads only and is one, since a call that fails without having been delivered
needs no broken connection at all; a second one would cost states and add no new
combination of a stored file and a lost answer within one session. Four pairs
are the old one and three generations: one interrupted, one complete, one after
expiry. In `receive_tool` a body is one chunk of one: shorter and longer bodies
and the cap are the subject of `store_safety`. Three uploads there are two of
the calm stem with one of the rough stem, or the reverse, or all of one; two
uploads of one name under one session are enough for one to spoil or outlive the
other. The caps of a name are 4 and 2 for 200 and 20, with
names of up to 5, so that names are below, at and above the cap with extensions
below, at and above theirs. The lengths of common names take each of the nested
lengths of a certificate across 127/128 and 255/256; first bytes of serial
numbers are 0, 127, 128 and 255, years lie on both sides of 2049/2050. Two bursts are the first and a later one. Calls of a sender are at most
a prepare, an upload per file and a cancel, by the shape of `sendFiles`;
`ASSUME`s name everything else the modules need.

**Symmetry** is used in safety runs only, over sets whose members nothing
distinguishes; in `transfer` the two senders are swapped together with their
files and addresses.

**Fairness.** `ReceiveTool!FairSpec` and `Discovery!FairSpec` assume what Node's event loop and the operating system
give: timers fire, a server whose connections are gone calls back, a file
operation ends, a handler that waits for no peer goes on. Peers, the caller's
abort and the flush of a response are not fair: whatever depends on a peer may
never happen, and `CallReturns`, `UploadsSettle` and `ScanEnds` hold all the same
because settling destroys every socket. `ReceiveTool!FairSpec` has three weak
conditions: the window itself (start, timer, close), the streams and the file
system (`Serve`), and handlers whose connection is gone (`React`). One condition
for all handlers is enough, since each has finitely many steps left to take.

## 4. What the code does not keep

The five violated properties state a sentence of the repository each; the
counterexamples are short.

1. `OneSession` (`README.md:51` "accepts exactly one session"). Two
   prepare-uploads pass the check at `receive-server.ts:210`, both wait for
   their bodies, both are told 200; the second replaces the first. This is why
   `CompletedMeansAll` and three properties of `Transfer` are about windows with
   a single session.
2. `TimeoutMeansNobodySent` (`receive-server.ts:41`). The timer is never reset,
   so it cuts off a transfer under way; the result then says "No transfer
   arrived" although files are on disk.
3. `FinishedFilesKept` (`README.md:96` "a name that collides gets a ` (2)` suffix
   rather than overwriting", `net.ts:75` "never overwriting an existing file").
   `uniquePath` looks for finished files only, and the partial file has a fixed
   name. Two uploads of one name that overlap share both; what one has stored is
   replaced or written into by the other. Nor does it take two: with `OldPaths <-
   OldPartial` in `MCStoreOverwrite.cfg` an upload of `x` truncates an `x.part`
   that was in the directory before (`receive-server.ts:103`).
4. `TroubleIsCancelled` (`send-client.ts:5`). A prepare-upload whose answer is
   lost, late or aborted leaves a session on the peer and no cancel is sent.
5. `FreshIsAccepted` (`tests/tls.test.ts:96`). Of the certificates
   `generateSelfSignedCertificate` makes, one in 512 has a serial number whose
   first byte is 00 and whose second is below 80: not a minimal INTEGER, and
   Node's own parser refuses it. `ensureTlsMaterial` writes such a pair all the
   same; the tools then fall back to http or refuse, and the next call finds the
   certificate useless and makes another. `AcceptedExactly` says what is refused
   besides: years from 2050 on, which have no UTCTime, and nothing else.

Two more sentences are not kept. They are stated beside the properties that hold,
and TLC refutes them in a few seconds if the cfg is changed as said:

* `NeverMoreThanDeclared` (`README.md:96` "A sender that pushes more bytes than it
  declared is cut off", `receive-server.ts:92-94` "never writing more than the
  sender declared"). A declared size of 0 switches the size cap off
  (`receive-server.ts:124`), and whatever comes is written. With a positive size
  the cap holds, under every overlap (`PositiveSizeKept`). In
  `MCStoreOverwrite.cfg`: `Sizes = {0}` and `INVARIANT NeverMoreThanDeclared`.
* `ShownAliasReaches` (`formatters.ts:43` "using its alias as 'to'"). What is
  looked for is trimmed (`discovery.ts:263`, `localsend-send.ts:154`), the alias
  that a device announces is not. One that begins or ends with a blank is
  therefore never equal to it: "Phone " leads to the device called "Phone", if
  there is one, and to the first whose alias contains it otherwise. In
  `MCConversions.cfg`: `INVARIANT ShownAliasReaches`.

Observations that no sentence of the repository contradicts, and which are
therefore in the models but not findings:

* The callback of `stream.end` also runs when the last writes failed; its error
  argument is ignored and the incomplete file is renamed (`StoreUnwritten`). The
  `error` event that follows removes whatever has the partial path then
  (`LateError`), after the upload was answered with 200.
* A body shorter than declared is stored as complete (`End`).
* Two overlapping uploads of one file id are both stored and recorded.
* `done` may resolve while an upload under way still flushes or removes its
  file. Such a file is stored after the call has returned and is missing from
  the text the user was given ("Nothing survives the tool call" in
  `README.md:51` is about the server; `UploadsSettle` shows that the handlers end
  too, only later).
* Of the uploads of `a` and `a.part` that overlap, one can truncate, take or
  remove the file of the other, since one's partial file is the other's target.
  `RecordedIsOnDisk` and `StoreIsInbox` therefore assume that no name ends in
  `.part`.
* An abort before the window or the scan has set up its listener is lost.
* An abort during the scan of `localsend_send` ends the scan without an error;
  the send that follows attaches to a signal that has already fired
  (`send-client.ts:148`) and is carried out.
* `"... "` with a trailing blank is accepted as `...`, while
  `tests/net.test.ts:40` ("rejects a name that is only dots") tries the same name
  without the blank. It is an ordinary name for a file system.
* The cap of a name counts UTF-16 units, those of file systems bytes.
* A device whose alias has the form of an address is never reached by its alias,
  and the host step of `findPeer` is reached only for hosts that
  `looksLikeHost` does not take for one.
* `formatters.ts:149` says that a server only runs during `localsend_receive` or
  `localsend_devices`; `localsend_send` to an alias scans, and so runs one too.
* `updateConfig` changes the settings in memory even if saving them fails.
* `isUsableCertificate` looks at the certificate only. With `Overlap = TRUE` in
  `MCDevice.cfg` TLC finds, within seconds, two processes that leave the key of
  one beside the certificate of the other (`PairsMatch`), a good certificate
  replaced (`GoodCertKept`) and a fingerprint overwritten (`PrintKept`). With
  one process at a time all three hold, kills and failing writes included.
* Another scan that is on at the same time is listed as a device, though its
  port closes in seconds.

## 5. What is proved

Checked by TLAPS for every value of the constants (within the named
assumptions).

**`ReceiveServerProofs`**: `TypeCorrect`, `AnswersMatchRecords`,
`RecordsBelong`, `GuessesAreBounded`, `LastAnswerIsFirst`, `CancelsNeedSession`,
`CompletedIsWhole`, `OutcomeIsStable`, `SettledIsClosed`. The invariants are
not inductive by themselves; `Inv` adds, part by part,

| Part | Says | Needed for |
|---|---|---|
| `Life`, `SessionOpened` | what a handler has not done yet has not happened: before its answer a request has no status, reports no outcome and is not recorded; `session` was opened by an answer | everything |
| `Settling` | connections are open only while the window listens | `OutcomeStable`, `SettledTakesNothingNew` |
| `Belonging` | what is being written already belongs to the session it named | `RecordedBelongs` |
| `Guesses` | `pinAttempts` is the number of 401s | `GuessesBounded` |
| `Delivering` | a pending window has destroyed no connection whose answer would settle it | `LastAnswerFirst` |
| `Cancelling` | only a request that met a session will report "cancelled" | `CancelNeedsSession` |
| `Counting` | what the session counts is recorded, and while a single session was opened it is among what that session offered; a response that will report "completed" has seen all of it | `CompletedMeansAll` |
| `Telling`, `AllTold` | an answer that was flushed has settled the window as it was to do; a session that has all its files has an upload that is to report it | `TransferProofs` |

`Counting` is where the code's comparison of two *sizes* becomes "all files":
`received` is a subset of the offer, the offer is finite (`FilesAssumption`), so
equal cardinality means equality. `Staying`, an action property proved beside it,
says what no step of the window ever takes back (answers, records, what a
request asked for).

**`UploadStoreProofs`**: `StoreTypes`, `PositiveSizesAreKept`, `NothingStray`, for
any overlap and any of the disk errors of section 2. `PositiveSizesAreKept` is
about uploads that declared more than nothing, as its name says; the others have no
cap to prove. `Capped`: what an inode holds of an upload lies
within what it has put, which lies within what it declared; shared inodes do no
harm because each writer counts its own chunks. `Accounted`: every inode an
upload created is a stored file or the partial file of an upload that will still
rename or remove it. It holds under overlap since whoever shares a partial path is
responsible for it too. `SoleIsIntact` (assuming that no name ends in `.part`):
`Linked` says that every inode has one name and that a stream's inode is found
under its own upload's paths only; from it `SoleKept` follows, that an upload whose
path nobody else was given has in its file what it has written. An upload whose own
stream failed at the end is left out (`error[u]`): its file may lack the last
writes.

The last theorem there is `StoreIsInbox`, the step simulation of `Inbox`, assuming
`Plain`: no name ends in `.part`. What it promises is promised of the stems that
are not `Rough`; where uploads of one stem overlap, `FinishedFilesKept` fails, and
where last writes fail (`StoreUnwritten`), an incomplete file appears. `Tidy`
adds to `Linked`, of calm uploads: one per stem is at work and its target is free
(`Aims`), an open stream has its partial file (`Holds`), a place shows a whole
stored file or an old one as it was (`Stands`); and old partial files are where
they were (`OldParts`). `Effect` says what a step on the files does, for every
upload: it touches only the two paths of its own and what they point to, which
is why rough uploads cannot disturb calm ones. `Rename` by a calm upload is then
the one step that `Inbox` sees.

**`DeviceProofs`**: `DeviceTypes`, and assuming `~Overlap`: `KeysMatch`,
`CertKept`, `PrintIsKept`. The key is written before the certificate, so a good
certificate on disk has its key beside it (`DiskMatches`): a new key is only
written once the certificate has been found useless, and useless it stays
(`Held`). For the fingerprint: the one process that runs has in memory what the
file has (`SamePrint`).

**`DiscoveryProofs`**: `ClosesAll`, `ListsAnswered`, `NotOurselves`,
`ScanTypes`, from one invariant that says what is open in which phase and that
a device is added before it is answered.

**`TransferProofs`**: `TransferTypes`, `WindowInside`, `ReportsAreRecorded`,
`CancelsSettle`, `NothingRefused`, `WholeIsCompleted`, for any number of senders,
files and broken connections. Every step of `Transfer` is a step of the window or
leaves it alone (`WindowInside`), so `ReceiveServerProofs`, instantiated with
`Calls` for `Requests`, gives the window's whole `Inv` for nothing. What is added
relates the two ends: `Matching` (what the window let in is what the sender's
call asks), `Once` and `Within` (a sender asks for a file once, and only for
what it offered), `Ledger` (what it notes as sent or refused was answered so) and
`Covered` (no file is forgotten). `WholeMeansCompleted` then is an argument
across both ends: everything offered was sent, so recorded, so the window has
all (`AllTold`) and its answer has been flushed (`Telling`).

**`ReceiveToolProofs`**: `CallIsWindowAndStore`, `ToolTypes`, `ReceivedWhole`,
`NoPartIsLeft`, and, assuming that no name ends in `.part`, `RecordedIsOnDisk`.
The call refines both its parts; with their invariants and `InStep`, the result's
files are the stored ones, and what is proved of those holds of the result, after
any outcome and also while handlers outlive the call.

**`ConversionsProofs`** with **`CertificateProofs`**: `NamesStayInside`,
`NamesKeepExtension`, `AliasFindsDevice`, `CertificateReadsBack`,
`CertificateAcceptedExactly`, for names, texts and lists of any length. The
induction theorems of the library take an operator as a parameter and cannot be
used; induction is by a least counterexample instead (`Least`, `LeastBy`), and
that a function defined by recursion exists and has the values of its definition
is proved from that (`Recursion`, `Unrolling`).

*Names.* `NamesStayInside` is the argument the code leaves to its reader: what
`trim` leaves may be dots again, which is why the second check is there; a name
that was cut or given a suffix is too long, or has a blank and a bracket too
many, to be one of the dot names. It needs `NameCap > 2`. For the extension: the
last dot of a cut name, and of one with a suffix, is the dot the kept extension
begins with.

*Certificates.* The certificate is proved for every request that is `Permitted`:
16 bytes of serial number (`x509.ts:238`), 1 to 100 names and addresses of up to
500 bytes each (the program asks for three of up to nine, `x509.ts:220-222`), and
a validity that starts after 1970 and lasts, from the moment the certificate is
made, for two weeks at least and into the year after next at most
(`x509.ts:233-234` with the 365 days of `tls.ts:22`). `InputsAssumption` says
so, and TLC evaluates it on the requests of the run. The proof goes from the
inside out:

| Step | Lemmas |
|---|---|
| the functions by recursion (`Digits`, `Concat`, `Number`, `Parts`, `ArcsIn`) have the values they are defined by | `DigitsAre`, `ConcatIs`, `NumberIs`, `PartsIs`, `ArcsInIs` |
| the digits of a number read as that number, and the first of several is not 0, which is what a reader demands of a length | `NumberOfDigits`, `FewDigits` |
| a tagged content of less than 256^3 bytes is read as its tag and content, whatever follows | `LengthIs`, `TaggedReads` |
| parts put one after the other are read as these parts | `EncodedReads`, `SequenceReads`, `OneIn` ... `EightIn` |
| the bytes of an arc add up to it, and so an identifier to its arcs | `ArcReads`, `OidReads` |
| two digits tell the years 1950 to 2049; a serial number padded with a zero byte is that number, minimal unless it had nine leading zero bits | `TimeReads`, `SerialReads` |
| a date is in its year or on the next day, so that one of an earlier year is not two weeks after one of a later | `MinuteBounds`, `FewerLeapDays`, `YearsBefore` |
| each field has room in the next level, so that no length reaches 256^3 | `Rooms` |
| an extension is found by its identifier, since the four differ | `IdentifiersDiffer`, `ExtensionFound` |
| the reader finds all fields of a generated certificate | `CertificateReads`, `GeneratedReads` |

Both directions of `AcceptedExactly` come from the last three: with nine leading
zero bits the serial number is not minimal and nothing parses; a year from 2050
on is read a century early, and the certificate has long expired.

*Aliases.* `AliasFindsDevice` is about aliases without blanks around them, which are
what trimming leaves alone: such an alias, if nobody shares it in whatever case, is
matched by its device alone in the first of the four ways. For the others the
statement is false (`ShownAliasReaches`).

**Only model-checked:** the liveness properties (`CallReturns`,
`UploadsSettle`, `ScanEnds`), which are beyond TLAPS here, and the runs that
expect a violation. Every invariant of a passing run is proved.

## 6. What is not modelled

* `localsend_send` beyond its addressee: collecting payloads (a temporary file
  for text, a stat per path) and checking parameters happen before anything is
  opened and can only throw; what follows is `SendClient`.
* Wording (`formatters.ts` except the choice `formatReceiveResult` makes) and
  declarations (`types.ts`): no state, nothing a property could be about.
* The announcements of a window: datagrams nobody waits for. Those of a scan
  are in `Discovery`.
* The validation in `updateConfig`, which only throws before anything is
  assigned, and `resetConfig`, which no tool calls.
* PEM armour, key generation, signatures and the clock: external.
* The width of characters in names, and Windows paths beyond the backslash that
  `safeFileName` treats as a separator.
* Errors of two file operations: an `rm` that fails leaves its partial file, which no
  code could help, and a `close` that fails after everything was written.
* The contents of bodies on the sending side: a body that does not match its
  announced length is one of the ways in which a call fails (`CallFails`).

The modules were built in the order `ReceiveServer`, `UploadStore` with
`Inbox`, `SendClient` and `Transfer`, `TlsIdentity` with `ConfigStore` and
`Device`, `Discovery`, `ReceiveTool`, `Conversions`, each followed by its proofs.
