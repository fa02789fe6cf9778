--------------------------- MODULE DhEncode_proofs ---------------------------
(***************************************************************************)
(* Proofs about the streaming encoder, for every set of append sizes and   *)
(* every bound on the plain text.                                          *)
(***************************************************************************)
EXTENDS DhEncode, TLAPS

\* TypeOK alone is inductive up to toRead <= plain, which Consumed needs.
IInv == TypeOK /\ toRead <= plain /\ (pc \in {"off", "idle", "done"} => toRead = 0)
               /\ CipherTextConserved /\ HostLengthAgrees

\* The encoder starts with nothing read and nothing made.
LEMMA InitHolds == Init => IInv
  BY EncodeAssumption DEF Init, IInv, TypeOK, CipherTextConserved, HostLengthAgrees,
     AES_BLOCK_SIZE, B64_IN

\* dh_encode_init: the IV is split between characters and base64 cache.
LEMMA InitKeeps == IInv /\ EncodeInit => IInv'
  BY EncodeAssumption DEF EncodeInit, IInv, TypeOK, CipherTextConserved, HostLengthAgrees, Consumed,
     InitWritten, WholeBlocksOut, WholeBlocksLeft, AES_BLOCK_SIZE, B64_IN, B64_OUT, IV_SIZE

\* A call of dh_encode_append starts with all its input unread.
LEMMA AppendKeeps == ASSUME IInv, NEW n \in AppendLens, EncodeAppend(n) PROVE IInv'
  BY EncodeAssumption DEF EncodeAppend, IInv, TypeOK, CipherTextConserved,
     HostLengthAgrees, Consumed, AES_BLOCK_SIZE, B64_IN, B64_OUT, IV_SIZE

\* The last, partial block of a call waits in the AES cache.
LEMMA ReturnsKeeps == IInv /\ AppendReturns => IInv'
  BY DEF AppendReturns, Take, IInv, TypeOK, CipherTextConserved, HostLengthAgrees,
     Consumed, AES_BLOCK_SIZE, B64_IN, B64_OUT, IV_SIZE

\* A full block moves through the base64 cache, three bytes to four characters.
LEMMA BlockKeeps == IInv /\ AppendBlock => IInv'
  BY DEF AppendBlock, Take, IInv, TypeOK, CipherTextConserved, HostLengthAgrees,
     Consumed, WholeBlocksOut, WholeBlocksLeft, APDU_BUFFER_SIZE,
     AES_BLOCK_SIZE, B64_IN, B64_OUT, IV_SIZE

\* dh_encode_finalize adds the padded block, the HMAC and a padded tail.
LEMMA FinalizeKeeps == IInv /\ EncodeFinalize => IInv'
  BY DEF EncodeFinalize, IInv, TypeOK, CipherTextConserved, HostLengthAgrees,
     HostEncodedLength, Consumed, WholeBlocksOut, WholeBlocksLeft, HMAC_SIZE,
     AES_BLOCK_SIZE, B64_IN, B64_OUT, IV_SIZE

\* Conservation, with the bounds of the caches, is an inductive invariant.
LEMMA IInvHolds == Spec => []IInv
  <1>1. IInv /\ [Next]_vars => IInv'
    <2> SUFFICES ASSUME IInv, [Next]_vars PROVE IInv'
      OBVIOUS
    <2>1. CASE UNCHANGED vars
      BY <2>1 DEF vars, IInv, TypeOK, CipherTextConserved, HostLengthAgrees, Consumed
    <2>2. CASE Next
      BY <2>2, InitKeeps, AppendKeeps, ReturnsKeeps, BlockKeeps, FinalizeKeeps DEF Next
    <2>3. QED  BY <2>1, <2>2
  <1>2. QED  BY <1>1, InitHolds, PTL DEF Spec

-----------------------------------------------------------------------------
\* The two caches never hold a whole block or a whole triple between calls
\* (dh_aes_cbc_append's and base64_append's buffers are of exactly that size).
THEOREM CachesBounded == Spec => []TypeOK
  <1>1. IInv => TypeOK  BY DEF IInv
  <1>2. QED  BY <1>1, IInvHolds, PTL

\* No byte is lost or duplicated on the way through the two caches.
THEOREM Conservation == Spec => []CipherTextConserved
  <1>1. IInv => CipherTextConserved  BY DEF IInv
  <1>2. QED  BY <1>1, IInvHolds, PTL

\* Host and device agree on the length of every encrypted part.
THEOREM HostLength == Spec => []HostLengthAgrees
  <1>1. IInv => HostLengthAgrees  BY DEF IInv
  <1>2. QED  BY <1>1, IInvHolds, PTL

\* What has been returned between calls is a function of the plain text alone.
THEOREM Chunking == Spec => []ChunkingIrrelevant
  <1>1. IInv => ChunkingIrrelevant
    BY DEF IInv, TypeOK, CipherTextConserved, ChunkingIrrelevant, Consumed, InitDh,
       InitWritten, AppendWritten, AfterAppend, BlocksOf, WholeBlocksOut, WholeBlocksLeft,
       AES_BLOCK_SIZE, B64_IN, B64_OUT, IV_SIZE
  <1>2. QED  BY <1>1, IInvHolds, PTL

\* The correction of the surrounding sections stays non-negative.
THEOREM NeverBehind == Spec => []NeverBehindPlainText
  <1>1. IInv => NeverBehindPlainText
    BY DEF IInv, TypeOK, CipherTextConserved, NeverBehindPlainText, Consumed,
       AES_BLOCK_SIZE, B64_IN, B64_OUT, IV_SIZE
  <1>2. QED  BY <1>1, IInvHolds, PTL
=============================================================================
