# Formal models of the Ledger FIO app

This directory holds TLA+ models of the Ledger FIO app (`src/src`, C) and of its host library
(`src/ledgerjs-fio/src`, TypeScript), with the integration tests (`src/test-integration`) as an oracle for both, TLC
configurations that check them and proofs that TLAPS checks. Paths below are relative to the repository (`src/`);
the lines each definition stands for are in `PROJECT.json`.

## 1. The system

The device executes one *instruction* at a time; an instruction may take many APDUs. The main loop (`src/main.c`)
reads an APDU, remembers the running instruction in `currentInstruction`, and calls its handler. A handler answers
at once or leaves a screen; the answer is then sent from the screen's callback. Any error answer ends the
instruction; an assertion or unexpected exception resets the device. The host library turns one call of a program
into a sequence of APDUs, among them the commands that build a transaction inside the device.

| Component | State | Operations | Interacts with |
|---|---|---|---|
| Dispatcher, IO (`main.c`, `io.c`, `handlers.c`, `state.c`) | `currentInstruction`, `io_state`, the APDU buffer | APDU exchange, error answers, reset, `ui_idle` | handlers (calls), screens (callbacks) |
| Screens (`uiHelpers.c`, `uiScreens.c`) | prompt or text on display, callback state | display, confirm, reject | step machines of the handlers |
| Transaction signing (`signTransaction.c`) | `ins_sign_transaction_context_t` | ten sub-commands | all of the next four |
| Integrity chain (`signTransactionIntegrity.c`) | hash of the constant parts of all commands so far | process, evaluate | signing |
| Counted sections (`signTransactionCountedSection.c`) | stack of remaining byte counts | begin, process, end, finalize | signing |
| Registers (`tx_value_storage_t`) | three stored values | STORE_VALUE, checks of APPEND_DATA | signing |
| Diffie-Hellman encoding (`diffieHellman.c`) | AES cache, base64 cache, HMAC | init, append, finalize | signing |
| Message decoding (`decodeDH.c`, `dh_decode`) | stage, message buffer, bytes sent | receive, decode, send rest | dispatcher, host loop |
| Public key, version, serial | one request | a single APDU each | dispatcher |
| Parsing (`signTransactionParse.c`, `fio.c`) | none | values to numbers and display strings | signing, decoding |
| Paths, policies, keys (`bip44.c`, `securityPolicy.c`, `keyDerivation.c`) | none | parse, classify, derive | signing, decoding, public key |
| Host: requests (`utils/parse.ts`, `utils/parseTxActions.ts`, `types/`) | none | validate and parse a request | templates |
| Host: templates (`interactions/transactionTemplates/`) | none | compile a parsed request to commands | device parsing, lengths, `allowedHashes` |
| Host: calls (`fio.ts`, `interactions/*.ts`) | one interaction per call, the transport's lock | version first, commands, expected lengths, retry, decode loop | device over APDUs |

What is hard in it:

* **Command order.** The host chooses it. Sections, encrypted parts, registers and the chain hash are tied
  together only by the checks of each command.
* **Streams of different lengths.** A section is counted in plain text inside an encrypted part and in cipher text
  around it; while encryption is active the two differ by a running correction in a 16-bit integer, and each
  response length passes through an 8-bit one.
* **Lengths computed twice.** The host declares the length of every section, cipher text included, before it is
  written, with code of its own; the device holds it to the last byte.
* **State between APDUs.** Up to 15 bytes of plain text and two bytes of cipher text wait in caches.
* **Failures halfway.** Handlers change the context before they validate; `countedSectionProcess` decrements
  outer counters before an inner one refuses.
* **Answers from callbacks.** Signature and final cipher text lie in the APDU buffer before the user has agreed; an
  error in a callback is handled unlike one in a handler.
* **Old state.** Abandoned sessions leave their context in memory; the next call meets `ERR_STILL_IN_CALL`.
* **Concurrency on the host.** Calls of one program share a transport and are interleaved command by command.

What makes each component correct:

* signing: a signature or a finished encrypted part leaves only for a listed chain, with everything closed, in the
  step in which the user confirms; every accepted command is answered; nothing of an old session counts.
* counted sections: a section is closed with exactly its declared length, properly nested, also across encryption.
* encoding: no byte is lost, chunking is irrelevant, host and device agree on the length, caches never overflow.
* registers: all values checked against a register since it was stored to are the stored value.
* dispatcher: one instruction at a time, one answer per command, every refusal ends the call, always back to idle.
* decoding: nothing is sent before it was authenticated and shown; host and device agree on where the message ends.
* templates: what is signed is the serialized request and nothing else, whatever the values and list lengths;
  the device refuses a command for its value only, never for its place or length.
* calls: a call ends, leaves the device free, and never receives what belongs to another.

## 2. Modules

| Module | Models |
|---|---|
| `DhLengths` | closed forms of the encoder's lengths, and the host's length formula |
| `DhEncode` | `diffieHellman.c`, one iteration of the append loop per step |
| `CountedSection` | `signTransactionCountedSection.c` as operators on its struct |
| `SignTx` | a signing session: `signTransaction.c`, integrity chain, registers, with the dispatcher and screens around it |
| `TxFraming` | abstract specification: nesting and lengths of the signed transaction, without counters |
| `Dispatcher` | abstract specification: main loop, `io_state`, screens with their callbacks, answers under way, instructions left open |
| `Device` | the instructions other than signing, in the frame of `Dispatcher`: version, serial, public key, decoding |
| `HostCalls` | calls of the library over one transport to a `Device`: decode loop, lock, calls that are given up |
| `HostTypes`, `HostParse` | `types/*.ts`, `utils/parse*.ts`: what a request may hold and what it is parsed to |
| `HostCommands`, `HostTemplates` | `transactionTemplates/`: commands, declared lengths, the 24 actions and `template_all.ts` |
| `VarUInt` | the numbers of seven-bit bytes before texts and sections, bit by bit: `varuint32_to_buf` of the host, `getNumberFromVarUInt` and `parseVarUInt32` of the device |
| `VarUIntLoop` | the device's loop over such a number, one round per step |
| `ValueParsing` | formats, validations, policies and paths of the device: which values a command accepts and shows |
| `DeviceCommands` | a compiled command as an APDU of `SignTx`, and values for the constants of `SignTx` |
| `HostSign` | `signTransaction` from request to signature: parse, compile, send to `SignTx`, compare the answers |
| `HostTests`, `DeviceTests` | the transaction tests and the command tests of `test-integration/` as data, and how they are run |
| `MCSignTx`, `MCDevice`, `MCHostCalls`, `MCHostSign`, `MCTests` | instances for TLC |
| `DhEncode_proofs` | theorems about the encoder |
| `SignTx_proofs` | theorems about types, counters and nesting of a session |
| `SignTxRelease_proofs` | theorems about what leaves the device and when, and about register checks |
| `Dispatcher_proofs` | theorems about the frame, for any instructions |
| `Device_proofs` | the device implements the frame, what follows, and what its instructions promise |
| `SignTxFraming_proofs` | a session implements `TxFraming`; when finished blocks are returned |
| `HostCalls_proofs` | the host is one that `Device` allows for; theorems about single calls and about the lock |
| `HostSign_proofs` | the shape of what the parsers let through and the templates compile; the library is a host of `SignTx`; theorems about what it signs |

**Signing.** `SignTx` has one action per sub-command, named after its handler. `Execute(p1, r, screen)` is the
frame around a handler: the result `r` is computed by an operator that follows the handler's order of checks
and assignments and ends in `Ok`, `Error` or `Crash`; `Execute` does what the main loop does with it (answer and
go on, answer with an error and end the call, reset). `ctx` is the C context without display strings and keys:
`cs` the counted sections, `storage` the registers, `integrity` the chain hash, `pathSet` whether INIT has set a
path (an unset one is denied by `policyDerivePrivateKey`), `dh`, `difference`, `responseLength`, `dhIsActive` and
`entryLevel` as in the code. `ui` is the screen whose callback will answer. `hist` and `reply` are history
variables: the length of what went into the transaction hash, where running sections began, what register checks
have let through, and the last answer. No guard of the device reads them; the bound `MaxBytes` does, and the
host of `HostSign` receives `reply`.

**Frame and device.** In `Dispatcher` a handler is one of `HandlerAnswers`, `HandlerShows`, `HandlerThrows`, a callback
one of `CallbackAnswers`, `CallbackShows`, `CallbackThrows`. `sending` is an answer inside `io_exchange`, with
what the caller does after it (`ui_idle` or `ui_displayBusy`), so everything that happens before
`io_state` becomes `EXPECT_IO` again is a state of its own. `owed` counts commands without an answer. `Device` fills in the
handlers: `flow` is the UI step machine with its head on the display, `ctx` the union of instruction contexts, `shown` the
screens confirmed (history). `DecodeReceive`, `DecodeDecode` and `DecodeSendRest` follow `decodeDH.c`. Assignments to the
context made after `io_send_buf` returns are made when the answer is started: nothing can read them in between.

**Host.** `HostSign` compiles all requests once (`Plan`) and its `host` variable is one call: version, then command
by command (`Send` is the handler of `SignTx`, `Receive` compares `expectedResponseLength` and collects cipher text),
and how it ended. `HostCalls` has several callers; `Continue` is the body of each interaction between two yields,
`Update` gives the lock up when a method ends. An error, a lost connection or an answer of the wrong length ends a call.

**Abstractions.** SHA-256 is injective: a chain hash *is* the sequence of commands, and all sequences that extend no
allowed one are a single value. A command's constant part is represented by what the model distinguishes in it
(length, check and policy in `SignTx`; format, validation, bounds and key as well in `HostCommands`). Values are known
by kind, length and the part of the content some check depends on (symbols of a name, width of a number, lengths of
packed strings). The spelling check compares whole strings: the terminated buffer is followed by undefined stack
bytes, but a value reaching into them contains the terminator, which text formats refuse. In `SignTx` parsing errors,
malformed APDUs, a locked device, another instruction and a denied path have the same effect, an error answer that
ends the call: action `BadRequest`. What a failed command leaves in the context is not followed, as nothing reads it.
A reset is possible at any time, which includes the reset after an APDU during a screen and unplugging. Builds without
`RESET_ON_CRASH` (development only, see `assert.c`) are not modelled, nor is an APDU that arrives while an answer is
under way. In `Device` a message is known by the lengths of its texts, which are unprintable, and its last byte; the
HMAC holds for exactly the cipher text its sender produced; a text of one context never reads as the other's layout.
`ERR_DATA_TOO_LARGE` is outside the range of errors answered by themselves, so a message longer than its buffer
restarts the device. `bufferLen` wraps modulo 2^16 when the padding byte exceeds the plain text; the parser's last
check then refuses (`DecodedWithinMessage`). The transport is not in the repository: `HostCalls` takes from its use
that it carries one exchange at a time and that `decorateAppAPIMethods` locks it.

## 3. Runs

| Run | Module, configuration | Question | States |
|---|---|---|---|
| `encode` | `DhEncode`, `MCDhEncode.cfg` | is the cipher text stream complete, independent of chunking, and as long as the host says? | 5.5 k |
| `framing` | `MCSignTx`, `MCSignTxFraming.cfg` | do counters stay exact and parts nested, whatever the order of commands? does the session implement `TxFraming`? | 158 k |
| `release` | `MCSignTx`, `MCSignTxRelease.cfg` | when do signatures and final cipher text leave? do registers tie? is every command answered? | 110 k |
| `device` | `MCDevice`, `MCDevice.cfg` | does the device implement its frame? what is shown before it is sent? can a call get stuck? | 68 k |
| `host_calls` | `MCHostCalls`, `MCHostCalls.cfg` | one program, three calls in a row, any of them given up: whole messages, a free device afterwards, every call ends? | 32 k |
| `host_locked` | `MCHostCalls`, `MCHostCallsLocked.cfg` | do the methods that lock the transport ever disturb one another? | 170 k |
| `host_sign` | `MCHostSign`, `MCHostSign.cfg` | for all 24 actions, every list length and every field at its limits: is the whole transaction signed, and is a refusal by the device, or a stop of the host between two commands, due to a value? | 179 k |
| `tests` | `MCTests`, `MCTests.cfg` | do the models do what the repository's 109 tests say, in any order? where these stop short: which appends return all their blocks, and does the loop over seven-bit numbers read what the host wrote and nothing else? | 24 k |
| `host_long`, `host_retry` | `MCHostSign` | findings, see below | to the violation |
| `host_shared`, `host_dropped` | `MCHostCalls` | findings, see below | to the violation |

**Bounds.** `encode`: append sizes 0, 1, 7, 15, 16, 17, 33 cover every relation to a block, 195 and 220 the limit of the
output buffer and the largest APDU; 260 bytes of plain text cover every cache state many times. `framing`: a constant
append of 17 bytes (one block and one byte over), a section of 17 bytes that just holds it and one of 108 bytes that
just holds an encrypted part with it, two levels, 142 bytes of transaction: sections inside, around and
across encrypted parts, two encrypted parts in a row, refused commands halfway through two counters. Five levels add
nothing to two for TLC, and the theorems hold for any number. The integrity check is off in this run, so that
every order of commands is tried. `release`: three chains, one with registers, one with an encrypted part, evaluated
as a whole transaction and as a prefix; four values, among them the empty one and a name with its spelling; the
host may leave the chain at any command, reject, restart. `MaxBytes` bounds the length of the transaction and of the
plain text; commands that would exceed it are not taken. It is below 2^16: the 16-bit difference would wrap only after
about 190 kB of plain text in a single encrypted part, beyond the length any listed chain can have; that wrap is
out of reach of runs and proofs.

`device`: nine messages (`MCDevice`): one and two parts, one and two chunks, a full block of padding, both optional
forms at once, an unprintable text, a text too long for its screen, a padding byte larger than the block and
one larger than the plain text, another key. The host sends any APDU at any time (`Unruly`), parts of different
messages mixed; cables are unplugged in every state. `host_calls`: three calls, as a call that was given up needs one
before and one after it; messages whose plain text is 199, 200 and 201 bytes put the chunk limit between them, which
the tests of the repository never reach. `host_locked`, `host_shared`: three callers, as the interference takes a call
that disturbs, one that is disturbed and one that profits. `host_sign`: one request per action, requests that differ
from it in one field on both sides of every limit (of host and device), every list length (0 to 6 addresses, 0 to 4
nfts, 0 to 31 producers), and eighteen that differ around the action, among them two whose data is that of
another action. Two fields never meet in one command except where
they are packed together (addresses; memo, hash and URL), and there the pairs are tried. Calls may be given up in any
state; the call after is the first request (`Again`). The constant `Allowed` is the set of chains the shipped requests
compile to. That these *are* the shipped hashes was verified outside TLA+: the SHA-256 chains of the constant parts
`HostTemplates` compiles (key, format, validation, arguments, policy and register of each command) are the 68
production entries of `allowedHashes` (`signTransactionIntegrity.c`): 66 whole sequences (1 to 5 addresses, 1 to 3
nfts, 1 to 30 producers, `setdomainpub` with both flags) and two prefixes that end with DH_END. `ListedAssumption`
keeps the number.

`tests`: 73 transaction tests and 36 command tests; each is its request or its commands, how many screens it presses
through, how it ends, and the lengths it compares. Two scripts that change a byte of a constant part and no length
(`signTransactionCommandsBasic.js:121`, `signTransactionCommandsDH.js:230`) are left out. That no test gets stuck is
the deadlock check. Two checks come before the tests. One number is parsed: the host's next to every power of two at
which another byte is needed, and other bytes, all sequences of up to four over 0, 1, 127, 128 and 255 and longer ones
of up to twelve bytes around the limits of nine bytes and of 32 bits. Or an encrypted part gets up to five appends of
15, 176 and 177 bytes: 15 bytes in the cache and then 11 or 12 blocks at once, early, where an append that loses 12
blocks is refused, and late enough for it to succeed. What reading and running them showed: no test of the repository
notices when any section rather than the innermost could be closed; "Data do not match using name conversion"
(`signTransactionCommandsStorage.js:140`) is refused because its string is not printable, before the comparison it is
named for; "actor dont match" (`signTransactionTrnsfiopubky.js:232`) changes the name of the action; "VarInt32 too
many bytes" (`signTransactionCommandsCountedSection.js:180`, "more than 9 bytes") sends exactly nine, which the loop
takes, and is refused because the number exceeds 32 bits.

The host's own size check (`signTransaction.ts:29`) counts the constant part in hexadecimal digits, throws between two
commands and leaves the device in its call. No constant part and no list gets there (`HostStopsForAValue`); long values
do, also some that the device would show: with a key of 17 characters, a text of 178 characters and its two length bytes.

**Fairness.** On the device (`FairSpec` of `SignTx` and `Device`): the transport takes an answer that is ready, and somebody
who has been asked eventually pages through the text or decides. The callbacks are run by the event loop as part
of that step. The host owes the device nothing. On the host (`FairHostSpec`): code that may send its next command does, and
an answer that has arrived is delivered; nobody is obliged to start a call, and the device must end calls by itself when
one is given up. All of it is weak fairness. Deadlock is checked except in `encode`, where the encoder stops for good
at its assertion (the device resets).

**Mutants.** Each property is paired with a plausible slip in the code (a cache not emptied, the IV not counted, an
off-by-one in nesting, a context not cleared, a prompt shown as a plain text, a chunk loop that ends early, a method
missing from the lock's list, ...) that makes TLC find it violated. They are the operators marked `mutant:`.

**Findings.**

* `host_long`: an append inside an encrypted part that completes exactly 12 AES blocks produces 256 characters of
  cipher text, and `uint8_t responseLength` (`signTransaction.h:55`) becomes 0: none of them is hashed or returned,
  contrary to `doc/ins_sign_tx.md:357`. The check after the append notices only if few characters came out before. A
  shipped sequence gets there: hash and URL of a `recordobt` are one append (`template_recordobt.ts:45`), and with 100
  and 95 bytes it has 200. Every value is accepted, and the device refuses the transaction in the middle. With 105 and
  103 bytes, the longest pair the host's size check lets through, the append completes 13 blocks, the assertion on the
  260-byte output buffer (`diffieHellman.c:37`) fails, and the device restarts. `host_sign` tries both pairs and shows
  that nothing but a value, the actor or such an append is ever refused (`RefusedForAValue`). With appends of at most
  176 bytes it cannot happen (15 cached bytes and 176 are 11 blocks, 252 characters at most): `FinishedBlocksReturned` says so
  of every encrypted part up to its first longer append. The limit is sharp: in the `tests` run appends of 176, 15, 176,
  176 and 177 bytes all succeed on the device, and the last one returns none of its 256 characters.
* `host_retry`: `wrapRetryStillInCall` (`fio.ts:77`) tests `e.statusCode`; the error it meets is a
  `DeviceStatusError`, which has a `code`. The promised retry never happens. The second attempt by hand succeeds
  (`StillInCallOnce`).
* `host_shared`: `decodeMessage` is not among the methods that lock the transport (`fio.ts:121`). A version request
  ends a decoding in progress, another call starts its own, and the first caller fetches and returns the other's
  message.
* `host_dropped`: a decoded text that cannot be displayed throws `ERR_INVALID_DATA` in a screen's callback, where
  nothing answers it: the device restarts, and the host sees a lost connection (`uiHelpers.h:151`).

## 4. Proofs

`DhEncode_proofs`: for every set of append sizes and every bound, `TypeOK`, `CipherTextConserved`,
`ChunkingIrrelevant`, `NeverBehindPlainText` and `HostLengthAgrees` are invariants. Conservation is a linear equation
between output, caches and input; it is inductive with the bounds of the caches, `toRead <= plain`, and
`HostLengthAgrees` itself, whose state ("done") is reached in one step from a conserving one. That chunking is
irrelevant follows from it: the equation and the cache bounds have a single solution. `NeverBehindPlainText` speaks of the
characters the encoder reports; the device compares what 8 bits keep of them.

`SignTx_proofs`: for every nesting limit, set of values, sections, checks and policies, every list of allowed
chains, with and without the integrity check, `TypeOK`, `SectionsExact` and `ProperNesting` are invariants of `Spec`.
The inductive invariant is `FramingInv`: types, and for a live session `Nested`, `Exact` and `Small`. The
last is the strengthening: during encryption the difference never exceeds the transaction length, so it
stays below `MaxBytes < 2^16` and does not wrap; without it `DH_END` could count a wrapped
difference. The proof has one lemma per handler about its result, one about `Execute`, and one for the
user's steps. `AppendedExact` and `ProcessTakes` are the heart: processing n bytes takes n from every running
section, writing them restores the equation, and inside an encrypted part the outer sections' debt
is exactly the difference. `Exact` holds even when `responseLength` was truncated, as then the hash received as
little as was counted: framing and `FinishedBlocksReturned` are independent.

`SignTxRelease_proofs`: for the same constants, `ReleaseJustified` (in builds with the integrity check),
`ConfirmationNeeded` and `RegistersTie` (in all builds). An answer leaves in a later step than the checks that
justify it, so `ReleaseJustified` is not inductive. `ReleaseInv` says that the context is `Ripe` (listed chain, ending
with this command, nothing open) from the moment the question is put, and which screens can belong to which
command: a text shown by another command can never answer for DH_END or FINISH. That a listed chain ends with the
command just received is `ChainEnds`. `RegistersTie` follows from the stronger `TieInv`: what has passed the checks
against a register is exactly the stored value. The spelling check needs that no two names are spelled alike.

`SignTxFraming_proofs`: for the same constants, a session implements `TxFraming` (`FramingKept`): sections are opened,
filled and closed in a transaction that knows positions and lengths only. Each handler's result is one of its moves
(`Moves`), and `Execute` makes it a step; the counters have gone, so `CsCanEnd` has to mean "filled exactly" and
`CsCanProcess` "no section overfull", which is `Exact` of `FramingInv`, read in both directions across an encrypted part.
A signature needs more: between the check of FINISH and its confirmation nothing may open, `ClosedInv`, which together with
`ReleaseInv` is the invariant of the mapping. `FinishedBlocksReturned` is proved
with no hypothesis; the limit is in the property, as `hist.long` remembers an append of more than 176 bytes in the current
encrypted part. What follows such an append is not claimed (`host_long`).

`Dispatcher_proofs`: for every set of instructions, `OneAnswerEach`, `StateTold`, `ButtonsExpected`, `MenuMeansIdle` and
`InstructionKept`. One inductive invariant, `FrameInv`, is behind all of them; what it adds is that an answer under way
is the answer to the one command owed, that only an open call leaves the busy screen behind, and that a screen
waiting for the user belongs to an open call and to no answer. Without the last, a callback could start a second answer.

`Device_proofs`: for every set of messages satisfying `MessageAssumption`, any host and any user, `Spec => FrameSpec`:
each handler is one of the ways to end that the frame knows (`Framed`), each user step one of the callback's ways.
What is proved of the frame therefore holds of the device without a second invariant (`DeviceAnswersOnce`,
`DeviceStateTold`, `DeviceButtonsExpected`, `DeviceMenuMeansIdle`, `DeviceInstructionKept`). The assertion in the
button handlers is covered as far as it is about `io_state`; the locked screen is the operating system's.

The instructions' own promises (`TypeOK`, `ShownBeforeSent`, `KeyShownAsAsked`, `DecodedWithinMessage`,
`OpenCallContinues`, `ErrorEndsCall`) rest on one more invariant, `DeviceInv`. Nothing records that something will be shown,
so the invariant says what *has been or will be*: the texts confirmed (`shown`) and those still in `flow` together
are all that the message, or the key under its policy, calls for (`Asking`), and in the stage that sends, the texts
confirmed alone (`Open`, `Answerable`). That the message in the buffer is one somebody sent, read in its own layout, and
`bufferLen` its length (`Parsed`) follows from `DECODE`: the buffer is the whole cipher text or the HMAC fails
(`OpenedFits`), and when the padding byte exceeds the plain text the 16-bit length wraps above anything that a
message can fill (`ParsedWithin`).

`HostCalls_proofs`: `HostImplementsDevice` says that the library's host is one of those that `Device` allows for, with
any number of callers at once and calls given up anywhere; so every theorem on the device holds under it. It is
stated for `Unruly`, as a command sent while the device is busy restarts it. Then, for a program whose calls do not overlap
(one caller), `DecodesItsOwnMessage`, `RefusedForAReason` and `CallFreesDevice`. The invariant, `CallsInv`, says where the
device is at each step of the call: before a command (`Awaits`) in the menu, or with exactly the first parts of this
message in its buffer (`Holds`), or ready to send from where the host's chunks end (`SendsFrom`); between a
command and its answer (`Midway`) with an error the call may end with, the answer of that very command, the next chunk,
or screens of this message. Only a call made after one that was given up may find the device
anywhere, and then its version request ends that old call or restarts the device. Several callers that decode do violate
these properties (`host_shared`). `LockedCallsComplete` is proved for any number of callers, if none gives a call up (a new
transport has a new lock) and each caller decodes in all its calls or in none (`Steady`). The property excuses calls
while a caller decodes; without `Steady` that caller may have gone on to ask for the version, and the
call that it disturbed is still there to see.

`HostSign_proofs`: for every sequence of requests of the types of `public.ts`, every list of allowed chains, with and
without the integrity check. `Host_Implements` says that a signing call of the library is a session of `SignTx`, with
calls given up and cables unplugged anywhere, so what is proved of sessions holds under the library (`Host_Sessions`,
`Host_Releases`). The rest is about the commands that a request is compiled to, in four layers.

* *Parsers.* Data is read by property names, whatever action it belongs to (`Properties`): whatever a program passes,
  each property is a scalar or a list of its kind (`TypesOfData`), and each parser returns a value of its type in
  `internal.ts` or refuses (`ParsedARequest`). This gives `HostTypeOK`, and that the list of producers a template
  runs over is the whole list.
* *Templates.* `Planned` is what all compiled transactions have in common: INIT first, FINISH last, the authorizer
  stored in register 1 by the sixth command and no other STORE_VALUE, an expected length for the start of an encrypted
  part and for FINISH only, and, after the sixth, a command with the action's actor that is checked against register 1
  (`TiedTo`). Each of the 24 templates has a lemma (`Shape_...`) and `PlanShape` puts them together. A sequence of
  commands is taken over the set of its own elements (`Elements`), which avoids a common set of all commands.
* *Handlers.* One that is not refused lets the chain grow by the entry of its command, leaves the registers alone
  unless it stores, and has let a tied command through only if the value matched (`CommandTaken`).
* *Calls.* `SessionInv` is the inductive invariant: between commands the device has handled exactly the first
  `next - 1` commands of *this* request (`Done`: the chain is theirs or unlisted, register 1 holds the authorizer, every
  tied value matched), the screen is free, and the session is open except before the first command; while an answer
  is awaited it is to the command sent, with the length its screen will give it. It is stated with `CallInv` (the next
  command exists) and `ReleaseInv` (which screen belongs to which command).

From it: `LengthsAsExpected`; `SignsForTheActor`, as a signature is the answer to FINISH, which is the last command, so all
tied ones were handled; and `SignsItsOwnSequence`, the first part of `SignsAListedSequence`, in builds with the
integrity check, where the chain is not the unlisted one. `StillInCallOnce` needs the steps alone.
`ProvidedAssumption` is what these proofs ask of an instance: the sets of values, sizes and sections of `SignTx` contain
what the accepted commands carry. The bound `MaxBytes` remains: a device that took more would have to be followed beyond
the 16-bit difference.

Assumptions: `SignAssumption` and `NestedAssumption` (sizes of values and registers, `MAX_NESTED` positive, `MaxBytes`
below 2^16), `EncodeAssumption`, `ListAssumption` (allowed chains are sequences, and the value that stands for
everything unlisted is neither one of them nor the beginning of one), `NamesAssumption` (spellings are injective),
`FrameAssumption` (no instruction is `INS_NONE`), `HandlersAssumption`, `MessageAssumption`, `RequestsAssumption`,
`ProvidedAssumption`. TLC evaluates them on every run whose module extends theirs.

`NeverBehindPlainText`, `MenuMeansIdle`, `InstructionKept`, `ErrorEndsCall`, `LengthsAsExpected` and
`SignsItsOwnSequence` are proved and not among the properties of a run. `ReleaseJustified` says of FINISH that no
section is open; the `release` run has no sections, so of that part only the theorem and `FramingKept` say something.
Only model-checked, and why:

* `SignsTheWholeTransaction`, `CipherTextReturned` and `RefusedForAValue` add up the lengths of all commands of a sequence
  and compare the sum with the lengths the host declares, level by level: induction over data.
* `HostNumbersArrive` and `LoopParses`: `varuint32` and the loop recurse over the bytes (induction over data).
* `HostStopsForAValue` compares lengths of constant parts in the templates with the size of an APDU, list by list.
* The second part of `SignsAListedSequence` compares whole constant parts, of which the chain of `SignTx` keeps what its
  handlers tell apart; it is a fact about the one list that ships.
* `EndsAsTested`, `ScriptsPass` and `AnsweredAsTested` are about given tests.
* `Answered` and `CallsEnd` need fairness, which is outside the prover's reach.

No module that is proved about declares a `RECURSIVE` operator.

## 5. Not modelled

* the cryptography itself, key derivation and signature canonicalisation (vendor SDK and arithmetic without state);
* the characters of what is displayed (amounts, hexadecimal, names): `ValueParsing` models which values are accepted
  and which show nothing;
* `hash.c` and other thin wrappers, menus and screen layout, the assertion macro beyond its effect;
* versions of the app other than the compatible one: a call then ends after its first answer;
* the unit tests on the device and the fuzzing harness; of the integration tests those of decoding and public keys
  (their cases are among those of `device` and `host_calls`) and the two named above.
