-------------------------------- MODULE SignTx --------------------------------
(***************************************************************************)
(* Signing a transaction on the device: signTransaction.c with the parts   *)
(* it is built from (integrity chain, counted sections, registers,         *)
(* encryption) and the call logic of main.c and uiHelpers.c around it.     *)
(*                                                                         *)
(* A session is a sequence of commands under one instruction.  Each        *)
(* command is one atomic handler; it either answers at once or leaves a    *)
(* screen on which the user acts, and the answer is sent from the screen's *)
(* callback.  An error answer ends the session; an assertion restarts the  *)
(* device.                                                                 *)
(***************************************************************************)
EXTENDS CountedSection, DhLengths, Sequences, FiniteSets

CONSTANTS
  Values,          \* values of APPEND_DATA and STORE_VALUE
  Empty,           \* the value of length 0, held by a register never stored to
  Size,            \* length of a value
  NameOf,          \* 8-byte names of at most 12 characters -> their spelling
  ConstLens,       \* sizes of APPEND_CONST_DATA
  Sections,        \* <<declared length, bytes of its encoding>> of sections
  Checks,          \* storage checks APPEND_DATA may ask for
  Policies,        \* policies APPEND_DATA may ask for
  Allowed,         \* allowedHashes: the command chains the device accepts
  IntegrityCheck,  \* FALSE in a build with NO_INTEGRITY_CHECK
  MaxBytes         \* bound on the bytes of a transaction and on plain text

Registers == 1..3
RegisterSize == [r \in Registers |-> IF r = 3 THEN 64 ELSE 8]
MAX_APPEND == 220                    \* MAX_TX_APPEND_IN_SINGLE_APDU
CHAIN_ID_LENGTH == 32
SIGNATURE_LENGTH == 65 + 32          \* PUBKEY_LENGTH + SHA_256_SIZE
U8  == 256                           \* responseLength
\* The longest append whose characters always fit responseLength: with 15 bytes
\* in the cache 176 more make 11 blocks, 236 characters; one more makes 12, and
\* the 256 characters of these are reported as none.
LONGEST_RETURNED == 176
U16 == 65536                         \* countedSectionDifference

ASSUME SignAssumption ==
  /\ Size \in [Values -> 0..MAX_APPEND]
  /\ Empty \in Values /\ Size[Empty] = 0
  /\ DOMAIN NameOf \subseteq {v \in Values : Size[v] = 8}
  /\ \A v \in DOMAIN NameOf : NameOf[v] \in Values
  /\ ConstLens \subseteq 0..MAX_APPEND - 1
  /\ Sections \subseteq Nat \X (0..MAX_APPEND)
  /\ Checks \subseteq {"NO", "R1", "R2", "R3", "R1_DECODE_NAME"}
  /\ Policies \subseteq {"ALLOW", "SHOW", "SHOW_IF_NONEMPTY", "OTHER"}
  /\ IntegrityCheck \in BOOLEAN
  /\ MaxBytes \in 0..U16 - 1         \* below it, no difference wraps

\* No two names are spelled alike.
ASSUME NamesAssumption ==
  \A m, n \in DOMAIN NameOf : NameOf[m] = NameOf[n] => m = n

VARIABLES
  instr,   \* currentInstruction: "NONE" or "SIGN_TX"
  ctx,     \* ins_sign_transaction_context_t
  hist,    \* history: the transaction as it went into the hash
  ui,      \* the screen the user is looking at, "none" while awaiting an APDU
  reply    \* history: the last answer to the host

vars == <<instr, ctx, hist, ui, reply>>

Screens == {"none", "details", "dhStart", "dhConfirm", "finishDetails", "finishConfirm"}

-----------------------------------------------------------------------------
(* Integrity chain: SHA-256 is taken to be injective, so the hash is the   *)
(* sequence of commands it was computed from; one that is no prefix of an  *)
(* allowed sequence has no allowed extension, and all such are one value.  *)

OffList == << <<"NOT LISTED", 0, 0>> >>
Prefixes == UNION {{SubSeq(a, 1, k) : k \in 0..Len(a)} : a \in Allowed}
ASSUME ListAssumption ==
  /\ \A a \in Allowed : a \in Seq(UNION {{b[i] : i \in DOMAIN b} : b \in Allowed})
  /\ OffList \notin Allowed \cup Prefixes
Hashes == Prefixes \cup {<<>>, OffList}

\* integrityCheckProcessInstruction
ChainAfter(h, p1, p2, const) ==
  LET chain == Append(h, <<p1, p2, const>>)
  IN  IF chain \in Prefixes THEN chain ELSE OffList

\* integrityCheckEvaluate
IntegrityOk(h) == ~IntegrityCheck \/ h \in Allowed

-----------------------------------------------------------------------------
(* The context of a session and its history.                               *)

\* The initialisation done for a new call.
FreshCtx ==
  [integrity |-> <<>>,
   cs |-> CsInit, storage |-> [r \in Registers |-> Empty], pathSet |-> FALSE,
   dhIsActive |-> FALSE, entryLevel |-> 0, dh |-> [cacheLength |-> 0, base64Len |-> 0],
   difference |-> 0, responseLength |-> 0]

\* out: bytes appended to the transaction hash.  In the current encrypted
\* part, plain: bytes of plain text, made: characters the encoder produced,
\* long: whether an append was longer than LONGEST_RETURNED.
\* start, declared, inDh: of each running section, where it began in its own
\* stream, its length, and whether it began inside an encrypted part.
\* tied: what the checks against a register have let through since it was
\* last stored to.
FreshHist ==
  [out |-> 0, plain |-> 0, made |-> 0, long |-> FALSE,
   start |-> [i \in Levels |-> 0], declared |-> [i \in Levels |-> 0],
   inDh |-> [i \in Levels |-> FALSE], tied |-> [r \in Registers |-> {Empty}]]

\* What a command starts from (isNewCall).
StaleCtx == ctx                 \* mutant: the context is not cleared
Ctx  == IF instr = "NONE" THEN FreshCtx ELSE ctx
Hist == IF instr = "NONE" THEN FreshHist ELSE hist

Received(p1, p2, const) == [Ctx EXCEPT !.integrity = ChainAfter(@, p1, p2, const)]

\* How a handler ends.  What an error leaves in the context is never read: the
\* session is over, and a new one clears the context.
Ok(c, h)    == [status |-> "ok", c |-> c, h |-> h]
Error(c, h) == [status |-> "error", c |-> c, h |-> h]
Crash(c, h) == [status |-> "crash", c |-> c, h |-> h]

\* processShaAndPosibleDHAndPrepareResponse for n bytes.
Appended(c, h, n) ==
  LET w == AppendWritten(c.dh, n)
      r == w % U8
  IN  CASE ~c.dhIsActive ->
             Ok([c EXCEPT !.responseLength = 0], [h EXCEPT !.out = @ + n])
        [] c.dhIsActive /\ w > APDU_BUFFER_SIZE -> Crash(c, h)
        [] c.dhIsActive /\ w <= APDU_BUFFER_SIZE /\ c.difference + r < n -> Error(c, h)
        [] OTHER ->
             Ok([c EXCEPT !.dh = AfterAppend(@, n), !.responseLength = r,
                          !.difference = (@ + r - n) % U16],
                [h EXCEPT !.out = @ + r, !.plain = @ + n, !.made = @ + w,
                          !.long = @ \/ n > LONGEST_RETURNED])

\* Counting n bytes against the running sections, then appending them.
CountedAppend(c, h, n) ==
  LET counted == [c EXCEPT !.cs = CsProcess(@, n)]
  IN  IF CsCanProcess(c.cs, n) THEN Appended(counted, h, n) ELSE Error(counted, h)

-----------------------------------------------------------------------------
(* The commands.                                                           *)

\* A command whose handler ended with r and, if all went well, goes on at
\* screen: handler_fn_t, the CATCH clauses of the main loop, io_send_buf.
Execute(p1, r, screen) ==
  /\ ui = "none"
  /\ \/ /\ r.status = "ok"
        /\ r.h.out <= MaxBytes /\ r.h.plain <= MaxBytes
        /\ instr' = "SIGN_TX" /\ ctx' = r.c /\ hist' = r.h
        /\ ui' = screen
        /\ reply' = [to |-> p1,
                     status |-> IF screen = "none" THEN "success" ELSE "pending",
                     length |-> IF screen = "none" THEN r.c.responseLength ELSE 0]
     \/ /\ r.status = "error"
        /\ instr' = "NONE" /\ ctx' = r.c /\ hist' = r.h
        /\ reply' = [to |-> p1, status |-> "error", length |-> 0]
        /\ UNCHANGED ui
     \/ /\ r.status = "crash"
        /\ instr' = "NONE" /\ ctx' = FreshCtx /\ hist' = FreshHist
        /\ reply' = [to |-> p1, status |-> "reset", length |-> 0]
        /\ UNCHANGED ui

InitResult(c, h) ==
  LET r == CountedAppend([c EXCEPT !.pathSet = TRUE], h, CHAIN_ID_LENGTH)
  IN  IF c.dhIsActive THEN Error(c, h) ELSE r
HandleInit == Execute("INIT", InitResult(Received("INIT", 0, 0), Hist), "details")

HandleAppendConstData(n) ==
  Execute("APPEND_CONST_DATA",
          CountedAppend(Received("APPEND_CONST_DATA", 0, n), Hist, n), "none")

HandleShowMessage ==
  Execute("SHOW_MESSAGE",
          Ok([Received("SHOW_MESSAGE", 0, 0) EXCEPT !.responseLength = 0], Hist), "details")

\* The storage switch of APPEND_DATA: register compared with, value it holds
\* for the comparison.
RegisterOf(check) == CASE check = "R2" -> 2 [] check = "R3" -> 3 [] OTHER -> 1
CheckFails(c, check, v) ==
  CASE check = "NO" -> "ok"
    [] check = "R1_DECODE_NAME" ->
         IF c.storage[1] \notin DOMAIN NameOf THEN "crash"
         ELSE IF NameOf[c.storage[1]] = v THEN "ok" ELSE "error"
    [] OTHER -> IF c.storage[RegisterOf(check)] = v THEN "ok" ELSE "error"

\* History of a passed check; a spelling stands for the name it spells.
Tie(h, c, check, v) ==
  CASE check = "NO" -> h
    [] check = "R1_DECODE_NAME" ->
         [h EXCEPT !.tied[1] = @ \cup {n \in DOMAIN NameOf : NameOf[n] = v}]
    [] OTHER -> [h EXCEPT !.tied[RegisterOf(check)] = @ \cup {v}]

AppendDataResult(c, h, v, check, policy) ==
  LET verdict == CheckFails(c, check, v)
      r == CountedAppend(c, Tie(h, c, check, v), Size[v])
  IN  CASE verdict = "crash" -> Crash(c, h)
        [] verdict = "error" -> Error(c, h)
        [] verdict = "ok" /\ r.status = "ok" /\ policy = "OTHER" -> Crash(c, h)
        [] OTHER -> r

\* blank: the value is displayed as an empty string.
HandleAppendData(v, check, policy, blank) ==
  Execute("APPEND_DATA",
          AppendDataResult(Received("APPEND_DATA", 0, <<check, policy>>), Hist, v, check, policy),
          IF policy = "ALLOW" \/ (policy = "SHOW_IF_NONEMPTY" /\ blank)
          THEN "none" ELSE "details")

\* The number's own encoding counts for the sections around, not for itself.
StartSectionResult(c, h, declared, n) ==
  LET level   == c.cs.currentLevel + 1
      counted == [c EXCEPT !.cs = CsProcess(@, n)]
      r == Appended([counted EXCEPT !.cs = CsBegin(@, declared)], h, n)
  IN  CASE ~CsCanProcess(c.cs, n) -> Error(counted, h)
        [] CsCanProcess(c.cs, n) /\ ~CsCanBegin(c.cs) -> Error(counted, h)
        [] OTHER ->
             [r EXCEPT !.h.start[level] = IF c.dhIsActive THEN r.h.plain ELSE r.h.out,
                       !.h.declared[level] = declared,
                       !.h.inDh[level] = c.dhIsActive]
HandleStartCountedSection(declared, n) ==
  Execute("START_COUNTED_SECTION",
          StartSectionResult(Received("START_COUNTED_SECTION", 0, 0), Hist, declared, n), "none")

\* mutant: a section from before encryption may end within it.
EndAnySection(c, h) ==
  LET level == c.cs.currentLevel
  IN  IF CsCanEnd(c.cs)
      THEN Ok([c EXCEPT !.cs = CsEnd(@), !.responseLength = 0],
              [h EXCEPT !.start[level] = 0, !.declared[level] = 0, !.inDh[level] = FALSE])
      ELSE Error(c, h)

\* A section that started before encryption cannot end within it.
EndSectionResult(c, h) ==
  LET level == c.cs.currentLevel
  IN  IF (c.dhIsActive => c.entryLevel < level) /\ CsCanEnd(c.cs)
      THEN Ok([c EXCEPT !.cs = CsEnd(@), !.responseLength = 0],
              [h EXCEPT !.start[level] = 0, !.declared[level] = 0, !.inDh[level] = FALSE])
      ELSE Error(c, h)
HandleEndCountedSection ==
  Execute("END_COUNTED_SECTION",
          EndSectionResult(Received("END_COUNTED_SECTION", 0, 0), Hist), "none")

StoreResult(c, h, r, v) ==
  IF Size[v] <= RegisterSize[r]
  THEN Ok([c EXCEPT !.storage[r] = v, !.responseLength = 0], [h EXCEPT !.tied[r] = {v}])
  ELSE Error(c, h)
HandleStoreValue(r, v) ==
  Execute("STORE_VALUE", StoreResult(Received("STORE_VALUE", r, 0), Hist, r, v), "none")

\* mutant: the difference of the sections around does not start at the IV.
StartDhWithoutDifference(c, h) ==
  IF ~c.dhIsActive /\ c.pathSet
  THEN Ok([c EXCEPT !.dhIsActive = TRUE, !.entryLevel = c.cs.currentLevel, !.dh = InitDh,
                    !.responseLength = InitWritten, !.difference = 0],
          [h EXCEPT !.out = @ + InitWritten, !.plain = 0, !.made = InitWritten, !.long = FALSE])
  ELSE Error(c, h)

\* Deriving a key is refused while no path has been given.
StartDhResult(c, h) ==
  IF ~c.dhIsActive /\ c.pathSet
  THEN Ok([c EXCEPT !.dhIsActive = TRUE, !.entryLevel = c.cs.currentLevel, !.dh = InitDh,
                    !.responseLength = InitWritten, !.difference = InitWritten],
          [h EXCEPT !.out = @ + InitWritten, !.plain = 0, !.made = InitWritten, !.long = FALSE])
  ELSE Error(c, h)
HandleStartDHEncoding ==
  Execute("DH_START", StartDhResult(Received("DH_START", 0, 0), Hist), "dhStart")

\* mutant: only the last characters are counted, not the whole difference.
EndDhUncorrected(c, h) ==
  LET w == FinalWritten(c.dh)
      counted == [c EXCEPT !.cs = CsProcess(@, w), !.responseLength = w]
  IN  IF /\ c.pathSet /\ IntegrityOk(c.integrity) /\ c.dhIsActive
         /\ c.entryLevel = c.cs.currentLevel /\ CsCanProcess(c.cs, w)
      THEN Ok([counted EXCEPT !.dhIsActive = FALSE], [h EXCEPT !.out = @ + w, !.made = @ + w])
      ELSE Error(counted, h)

\* The sections around learn only now what encryption added to the length.
EndDhResult(c, h) ==
  LET w == FinalWritten(c.dh)
      d == (c.difference + w) % U16
      counted == [c EXCEPT !.cs = CsProcess(@, d), !.difference = d, !.responseLength = w]
  IN  CASE \/ ~c.pathSet \/ ~IntegrityOk(c.integrity) \/ ~c.dhIsActive
           \/ c.entryLevel # c.cs.currentLevel -> Error(c, h)
        [] OTHER ->
             IF CsCanProcess(c.cs, d)
             THEN Ok([counted EXCEPT !.dhIsActive = FALSE],
                     [h EXCEPT !.out = @ + w, !.made = @ + w])
             ELSE Error(counted, h)
EndDhMerelyShown ==                   \* mutant: shown instead of prompted
  Execute("DH_END", EndDhResult(Received("DH_END", 0, 0), Hist), "details")
HandleEndDHEncoding ==
  Execute("DH_END", EndDhResult(Received("DH_END", 0, 0), Hist), "dhConfirm")

FinishUnchecked(c, h) ==              \* mutant: the integrity check is left out
  IF c.pathSet /\ ~c.dhIsActive /\ CsFinal(c.cs) THEN Ok(c, h) ELSE Error(c, h)
FinishResult(c, h) ==
  IF c.pathSet /\ ~c.dhIsActive /\ IntegrityOk(c.integrity) /\ CsFinal(c.cs)
  THEN Ok(c, h) ELSE Error(c, h)
HandleFinish ==
  Execute("FINISH", FinishResult(Received("FINISH", 0, 0), Hist), "finishDetails")

\* Anything that is answered with an error before it had an effect: malformed
\* or unknown commands, invalid values, a locked device, another instruction
\* (ERR_STILL_IN_CALL), a path the policy denies.
BadRequest ==
  Execute("BAD_REQUEST", Error(Ctx, Hist), "none")

-----------------------------------------------------------------------------
(* The user, the transport.                                                *)

EndSession(status, length) ==
  /\ instr' = "NONE"
  /\ ui' = "none"
  /\ reply' = [reply EXCEPT !.status = status, !.length = length]
  /\ UNCHANGED <<ctx, hist>>

Respond ==
  /\ ui' = "none"
  /\ reply' = [reply EXCEPT !.status = "success", !.length = ctx.responseLength]
  /\ UNCHANGED <<instr, ctx, hist>>

\* mutant: the screen of DH_START has no response step.
UserReadsUnanswered ==
  \/ ui = "details" /\ Respond
  \/ ui = "finishDetails" /\ ui' = "finishConfirm" /\ UNCHANGED <<instr, ctx, hist, reply>>

\* Paging through a text to its end.
UserReads ==
  \/ ui \in {"details", "dhStart"} /\ Respond
  \/ ui = "finishDetails" /\ ui' = "finishConfirm" /\ UNCHANGED <<instr, ctx, hist, reply>>

UserConfirms ==
  \/ ui = "dhConfirm" /\ Respond
  \/ ui = "finishConfirm" /\ EndSession("success", SIGNATURE_LENGTH)

UserRejects ==
  /\ ui \in {"dhConfirm", "finishConfirm"}
  /\ EndSession("error", 0)

\* An APDU while a screen is up fails the assertion of the main loop; the
\* device may be unplugged, or reset, at any time.
Restart ==
  /\ instr' = "NONE" /\ ctx' = FreshCtx /\ hist' = FreshHist
  /\ ui' = "none"
  /\ reply' = [to |-> "NOTHING", status |-> "reset", length |-> 0]

Init ==
  /\ instr = "NONE" /\ ctx = FreshCtx /\ hist = FreshHist
  /\ ui = "none"
  /\ reply = [to |-> "NOTHING", status |-> "reset", length |-> 0]

Command ==
  \/ HandleInit
  \/ \E n \in ConstLens : HandleAppendConstData(n)
  \/ HandleShowMessage
  \/ \E v \in Values, check \in Checks, policy \in Policies, blank \in BOOLEAN :
       HandleAppendData(v, check, policy, blank)
  \/ \E s \in Sections : HandleStartCountedSection(s[1], s[2])
  \/ HandleEndCountedSection
  \/ \E r \in Registers, v \in Values : HandleStoreValue(r, v)
  \/ HandleStartDHEncoding
  \/ HandleEndDHEncoding
  \/ HandleFinish
  \/ BadRequest

User == UserReads \/ UserConfirms \/ UserRejects

Next == Command \/ User \/ Restart

Spec == Init /\ [][Next]_vars

\* The user eventually pages through or decides what a screen asks; the host
\* owes the device nothing.
FairSpec == Spec /\ WF_vars(User)

-----------------------------------------------------------------------------
(* Properties.                                                             *)

Live == instr = "SIGN_TX"

Encoders == [cacheLength : 0..AES_BLOCK_SIZE - 1, base64Len : 0..B64_IN - 1]
Contexts ==
  [integrity : Hashes, cs : CountedSections, storage : [Registers -> Values],
   pathSet : BOOLEAN, dhIsActive : BOOLEAN, entryLevel : 0..MAX_NESTED,
   dh : Encoders,
   difference : 0..U16 - 1, responseLength : 0..U8 - 1]
Histories ==
  [out : Nat, plain : Nat, made : Nat, long : BOOLEAN,
   start : [Levels -> Nat], declared : [Levels -> Nat], inDh : [Levels -> BOOLEAN],
   tied : [Registers -> SUBSET Values]]
Commands ==
  {"INIT", "APPEND_CONST_DATA", "SHOW_MESSAGE", "APPEND_DATA", "START_COUNTED_SECTION",
   "END_COUNTED_SECTION", "STORE_VALUE", "DH_START", "DH_END", "FINISH", "BAD_REQUEST"}
Replies == [to : Commands \cup {"NOTHING"},
            status : {"success", "pending", "error", "reset"}, length : Nat]

TypeOK ==
  /\ instr \in {"NONE", "SIGN_TX"}
  /\ ctx \in Contexts
  /\ hist \in Histories
  /\ ui \in Screens
  /\ reply \in Replies

\* Bytes section i holds, in the stream it was opened in.
Held(i) == (IF hist.inDh[i] THEN hist.plain ELSE hist.out) - hist.start[i]

\* What a running section still expects and what it holds make up its declared
\* length; around an encrypted part the two are off by exactly the length
\* correction that DH_END will apply.
SectionsExact ==
  Live => \A i \in 1..ctx.cs.currentLevel :
    ctx.cs.count[i] + Held(i) =
      hist.declared[i] + (IF ctx.dhIsActive /\ ~hist.inDh[i] THEN ctx.difference ELSE 0)

\* Sections and encrypted parts nest: the sections opened inside the current
\* encrypted part are exactly those above the level at which it began, and
\* outside encrypted parts no section of an encrypted part is left running.
ProperNesting ==
  Live =>
    /\ ctx.dhIsActive => ctx.entryLevel <= ctx.cs.currentLevel
    /\ \A i \in 1..ctx.cs.currentLevel :
         hist.inDh[i] <=> ctx.dhIsActive /\ i > ctx.entryLevel

\* In an encrypted part without a long append every finished cipher text block
\* has been appended to the transaction and returned: difference is the sum of
\* all responses minus the plain text.  It holds up to 176 bytes an append, of
\* the 220 that the device accepts.
FinishedBlocksReturned ==
  Live /\ ctx.dhIsActive /\ ~hist.long => ctx.difference + hist.plain = hist.made

\* Values checked against a register since it was last stored to in this
\* session are all one value, the stored one (or the empty one).
RegistersTie == Live => \A r \in Registers : Cardinality(hist.tied[r]) = 1

\* A signature, and the blocks that complete an encrypted part, have left the
\* device only for a listed chain of commands that ends with the command
\* answered, in a session with nothing open.
ReleaseJustified ==
  reply.status = "success" /\ reply.to \in {"DH_END", "FINISH"} =>
    /\ ctx.integrity \in Allowed
    /\ ctx.integrity[Len(ctx.integrity)][1] = reply.to
    /\ ~ctx.dhIsActive
    /\ reply.to = "FINISH" => ctx.cs.currentLevel = 0

\* They leave in the very step in which the user confirms the prompt for it.
ConfirmationNeeded ==
  [][ reply'.status = "success" /\ reply'.to \in {"DH_END", "FINISH"} /\ reply' # reply
      => UserConfirms /\ reply.to = reply'.to ]_vars

\* Every accepted command is answered.
Answered == (reply.status = "pending") ~> (reply.status # "pending")

\* The framing of the transaction under construction; between sessions there
\* is none.
FramingOf(c, h) ==
  [out |-> h.out, plain |-> h.plain, enc |-> c.dhIsActive, level |-> c.cs.currentLevel,
   start |-> h.start, declared |-> h.declared, inEnc |-> h.inDh]
Tx == IF Live THEN FramingOf(ctx, hist) ELSE FramingOf(FreshCtx, FreshHist)
Signed == reply.to = "FINISH" /\ reply.status = "success"

\* The framing the device promises.
Framing == INSTANCE TxFraming WITH MaxLevel <- MAX_NESTED, tx <- Tx, signed <- Signed

FramingKept == Framing!Spec
=============================================================================
