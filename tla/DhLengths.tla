------------------------------ MODULE DhLengths ------------------------------
(***************************************************************************)
(* Lengths of the Diffie-Hellman cipher text.  diffieHellman.c produces    *)
(* base64(IV . AES-CBC(padded plain text) . HMAC) piece by piece: plain    *)
(* text waits in a 16-byte AES cache, cipher text in a base64 cache of at  *)
(* most two bytes between calls.  The contents are irrelevant here, only   *)
(* how many bytes wait and how many characters come out.                   *)
(***************************************************************************)
EXTENDS Integers

AES_BLOCK_SIZE == 16          \* CX_AES_BLOCK_SIZE
IV_SIZE        == 16          \* DH_AES_IV_SIZE
HMAC_SIZE      == 32          \* DH_HMAC_SIZE
B64_IN         == 3           \* BASE64_IN_BLOCK_SIZE
B64_OUT        == 4           \* BASE64_OUT_BLOCK_SIZE

\* sizeof(G_io_apdu_buffer): the output buffer of every encoder call.
APDU_BUFFER_SIZE == 260

\* base64EncWholeBlocks: characters written for len waiting bytes, and the
\* bytes that remain waiting.
WholeBlocksOut(len)  == B64_OUT * (len \div B64_IN)
NothingTaken(len) == len                 \* mutant: encoded bytes stay in the cache
RestDropped(len)  == 0                   \* mutant: the incomplete group is lost
WholeBlocksLeft(len) == len % B64_IN

\* dh_encode_init: the IV goes straight to the base64 cache.
InitWritten == WholeBlocksOut(IV_SIZE)
InitDh == [cacheLength |-> 0, base64Len |-> WholeBlocksLeft(IV_SIZE)]

\* dh_encode_append of n bytes as a whole: full AES blocks, what it writes,
\* and the encoder state it leaves.
BlocksOf(d, n) == (d.cacheLength + n) \div AES_BLOCK_SIZE
AppendWritten(d, n) ==
  WholeBlocksOut(d.base64Len + AES_BLOCK_SIZE * BlocksOf(d, n))
AfterAppend(d, n) ==
  [cacheLength |-> (d.cacheLength + n) % AES_BLOCK_SIZE,
   base64Len   |-> WholeBlocksLeft(d.base64Len + AES_BLOCK_SIZE * BlocksOf(d, n))]

\* dh_encode_finalize: one padded block, the HMAC, and a padded base64 tail.
PaddedOut(len) == B64_OUT * ((len + B64_IN - 1) \div B64_IN)
FinalWritten(d) == PaddedOut(d.base64Len + AES_BLOCK_SIZE + HMAC_SIZE)

-----------------------------------------------------------------------------
\* getCommandVarLength in the host library: the length the host declares for
\* an encrypted part with n bytes of plain text.
HostEncodedLength(n) ==
  LET encLen == 48 + n
      blocks == (encLen + 16) \div 16
  IN  4 * ((16 * blocks + 2) \div 3)
=============================================================================
