------------------------------- MODULE DhEncode -------------------------------
(***************************************************************************)
(* The streaming encoder of diffieHellman.c, one loop iteration per step.  *)
(* dh_encode_init, any number of dh_encode_append calls of any sizes, and  *)
(* dh_encode_finalize.                                                     *)
(***************************************************************************)
EXTENDS DhLengths

CONSTANTS AppendLens,   \* sizes a single dh_encode_append may be given
          MaxPlain      \* bound on the plain text of one encrypted part

ASSUME EncodeAssumption == AppendLens \subseteq Nat /\ MaxPlain \in Nat

VARIABLES
  pc,           \* "off", "idle" between calls, "append" in the loop, "done", "assert"
  cacheLength,  \* bytes in the AES cache
  base64Len,    \* base64EncodingCacheLen
  toRead,       \* inSize - processedInput of the running append
  written,      \* characters the running append has produced
  plain,        \* history: plain text handed over since init
  made          \* history: characters returned by completed calls since init

vars == <<pc, cacheLength, base64Len, toRead, written, plain, made>>

TypeOK ==
  /\ pc \in {"off", "idle", "append", "done", "assert"}
  /\ cacheLength \in 0..AES_BLOCK_SIZE - 1
  /\ base64Len \in 0..B64_IN - 1
  /\ toRead \in Nat
  /\ written \in Nat
  /\ plain \in 0..MaxPlain
  /\ made \in Nat

Init ==
  /\ pc = "off"
  /\ cacheLength = 0 /\ base64Len = 0 /\ toRead = 0 /\ written = 0
  /\ plain = 0 /\ made = 0

EncodeInit ==
  /\ pc \in {"off", "idle", "done"}   \* "idle": the earlier call was abandoned
  /\ pc' = "idle"
  /\ cacheLength' = 0
  /\ base64Len' = WholeBlocksLeft(IV_SIZE)
  /\ made' = InitWritten
  /\ plain' = 0
  /\ UNCHANGED <<toRead, written>>

EncodeAppend(n) ==
  /\ pc = "idle"
  /\ plain + n <= MaxPlain
  /\ pc' = "append"
  /\ toRead' = n
  /\ written' = 0
  /\ plain' = plain + n
  /\ UNCHANGED <<cacheLength, base64Len, made>>

\* to_read of one loop iteration.
Take == IF AES_BLOCK_SIZE - cacheLength <= toRead
        THEN AES_BLOCK_SIZE - cacheLength ELSE toRead

\* mutant: the cache is overwritten from its start.
AppendOverwrites ==
  /\ pc = "append"
  /\ cacheLength + Take < AES_BLOCK_SIZE
  /\ cacheLength' = Take
  /\ toRead' = toRead - Take
  /\ pc' = "idle"
  /\ made' = made + written
  /\ UNCHANGED <<base64Len, written, plain>>

\* The block stays partial: the loop ends and the call returns `written`.
AppendReturns ==
  /\ pc = "append"
  /\ cacheLength + Take < AES_BLOCK_SIZE
  /\ cacheLength' = cacheLength + Take
  /\ toRead' = toRead - Take
  /\ pc' = "idle"
  /\ made' = made + written
  /\ UNCHANGED <<base64Len, written, plain>>

\* The block is full: encrypt it and base64-encode what is complete.
AppendBlock ==
  LET waiting == base64Len + AES_BLOCK_SIZE
      fits    == WholeBlocksOut(waiting) <= APDU_BUFFER_SIZE - written
  IN  /\ pc = "append"
      /\ cacheLength + Take = AES_BLOCK_SIZE
      /\ \/ /\ fits
            /\ cacheLength' = 0
            /\ toRead' = toRead - Take
            /\ base64Len' = WholeBlocksLeft(waiting)
            /\ written' = written + WholeBlocksOut(waiting)
            /\ pc' = "append"
         \/ /\ ~fits                      \* ASSERT(outSize >= ...)
            /\ pc' = "assert"
            /\ UNCHANGED <<cacheLength, toRead, base64Len, written>>
      /\ UNCHANGED <<plain, made>>

\* mutant: no block of padding after whole blocks of plain text.
FinalizeUnpadded ==
  LET waiting == base64Len + (IF cacheLength = 0 THEN 0 ELSE AES_BLOCK_SIZE)
      tail    == WholeBlocksLeft(waiting) + HMAC_SIZE
  IN  /\ pc = "idle"
      /\ pc' = "done"
      /\ made' = made + WholeBlocksOut(waiting) + WholeBlocksOut(tail)
                      + (IF WholeBlocksLeft(tail) = 0 THEN 0 ELSE B64_OUT)
      /\ cacheLength' = 0
      /\ base64Len' = WholeBlocksLeft(tail)
      /\ UNCHANGED <<toRead, written, plain>>

EncodeFinalize ==
  LET waiting == base64Len + AES_BLOCK_SIZE          \* the padded block
      tail    == WholeBlocksLeft(waiting) + HMAC_SIZE
  IN  /\ pc = "idle"
      /\ pc' = "done"
      /\ made' = made + WholeBlocksOut(waiting) + WholeBlocksOut(tail)
                      + (IF WholeBlocksLeft(tail) = 0 THEN 0 ELSE B64_OUT)
      /\ cacheLength' = 0
      /\ base64Len' = WholeBlocksLeft(tail)
      /\ UNCHANGED <<toRead, written, plain>>

Next ==
  \/ EncodeInit
  \/ \E n \in AppendLens : EncodeAppend(n)
  \/ AppendReturns
  \/ AppendBlock
  \/ EncodeFinalize

Spec == Init /\ [][Next]_vars

-----------------------------------------------------------------------------
\* Plain text that has left the caller's buffer.
Consumed == plain - toRead

\* Every byte is somewhere: written characters, scaled by 3/4, plus the bytes
\* in the two caches are the IV plus the plain text read so far
\* (the two caches of dh_encode_append and processDHOneBlockFromCache).
CipherTextConserved ==
  pc \in {"idle", "append"} =>
    /\ B64_IN * (made + (IF pc = "append" THEN written ELSE 0))
         + B64_OUT * (base64Len + cacheLength) = B64_OUT * (IV_SIZE + Consumed)
    /\ (Consumed - cacheLength) % AES_BLOCK_SIZE = 0

\* However the plain text is cut into appends, between calls the encoder has
\* returned what one append of the whole text returns, and holds the same
\* caches (the closed form used by the signing model).
ChunkingIrrelevant ==
  pc = "idle" =>
    /\ made = InitWritten + AppendWritten(InitDh, plain)
    /\ [cacheLength |-> cacheLength, base64Len |-> base64Len] = AfterAppend(InitDh, plain)

\* The characters the encoder has returned never lag behind the plain text it was
\* given, although up to 17 bytes wait in its caches.  It is what the VALIDATE
\* of signTransaction.c:60 presumes; that one sees the characters of an append
\* cut to 8 bits, and can fail where these do not fit.
NeverBehindPlainText == pc = "idle" => made >= plain

\* The finished cipher text has exactly the length the host library declared
\* for it in the counted section around it, for every chunking.
HostLengthAgrees == pc = "done" => made = HostEncodedLength(plain)
=============================================================================
