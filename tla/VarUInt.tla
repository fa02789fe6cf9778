-------------------------------- MODULE VarUInt --------------------------------
(***************************************************************************)
(* The variable-length numbers before texts and sections: seven bits in a  *)
(* byte, the lowest first, and a bit that tells whether another one        *)
(* follows.  serialize.ts writes them, signTransactionParse.c reads them.  *)
(*                                                                         *)
(* A number is the set of the positions of its ones: machine words are     *)
(* wider than the integers of TLC.                                         *)
(***************************************************************************)
EXTENDS Integers, Sequences
LOCAL INSTANCE FiniteSetsExt

Word(bits) == SUBSET (0..bits - 1)

BitsOf(n)  == {i \in 0..30 : (n \div 2^i) % 2 = 1}
ValueOf(x) == MapThenSumSet(LAMBDA i : 2^i, x)

Above(x, n)   == {i - n : i \in {j \in x : j >= n}}              \* x >>> n
Below(x, n)   == x \cap (0..n - 1)                               \* x & (2^n - 1)
Shifted(x, n) == {i \in {j + n : j \in x} : i < 64}              \* (uint64_t) x << n

-----------------------------------------------------------------------------
(* The host.                                                               *)

\* The loop of varuint32_to_buf goes on while a bit above the lowest seven is
\* set: bytes that another one follows, and the last.  mutant: while one above
\* the lowest eight is, and a last byte of 128 or more is sent as it is.
MoreThanEightBits(x) == Above(x, 8) # {}
MoreToCome(x) == Above(x, 7) # {}
varuint32[x \in Word(32)] ==
  IF MoreToCome(x) THEN <<128 + ValueOf(Below(x, 7))>> \o varuint32[Above(x, 7)]
  ELSE <<ValueOf(x)>>

-----------------------------------------------------------------------------
(* The device.                                                             *)

Continues(byte) == byte >= 128              \* nextByte & 0x80
Digit(byte)     == Below(BitsOf(byte), 7)   \* nextByte & 0x7f

MAX_READ == 9       \* bytes of seven bits that an uint64_t has room for

\* What the loop of getNumberFromVarUInt returns and leaves in *number: how
\* many bytes the number takes, none if it does not end within nine bytes and
\* within the value, and the digits of these bytes side by side.
NumberEnds(bytes) == {i \in DOMAIN bytes : i <= MAX_READ /\ ~Continues(bytes[i])}
BytesRead(bytes)  == IF NumberEnds(bytes) = {} THEN 0 ELSE Min(NumberEnds(bytes))
NumberIn(bytes) ==
  UNION {Shifted(Digit(bytes[i]), 7 * (i - 1)) : i \in 1..BytesRead(bytes)}

\* The validations of parseVarUInt32: the number is all of the value, and it
\* is at most UINT32_MAX.
IsVarUInt32(bytes) ==
  /\ BytesRead(bytes) # 0 /\ BytesRead(bytes) = Len(bytes)
  /\ NumberIn(bytes) \in Word(32)
=============================================================================
