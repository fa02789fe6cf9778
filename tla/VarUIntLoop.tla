------------------------------ MODULE VarUIntLoop ------------------------------
(***************************************************************************)
(* getNumberFromVarUInt, one round of its loop per step, and what its      *)
(* caller parseVarUInt32 makes of the result, for values that the host     *)
(* made of a number and for any others.                                    *)
(***************************************************************************)
EXTENDS ValueParsing

CONSTANTS
  Numbers,    \* numbers of 32 bits the host sends
  Given       \* byte sequences of other origin

ASSUME NumbersAssumption == Numbers \subseteq Word(32)
ASSUME GivenAssumption == \A bytes \in Given : bytes \in Seq(0..255) /\ Len(bytes) <= 255

VARIABLES
  valueBytes,     \* value; valueLen is its length
  numberSent,     \* history: the number the host made it of, if it did
  numberRead,     \* *number
  bitShift, readPosition,
  pc              \* "reading", "read", "accepted", "refused"

loopVars == <<valueBytes, numberSent, numberRead, bitShift, readPosition, pc>>

LoopInit ==
  /\ \/ \E n \in Numbers : numberSent = {n} /\ valueBytes = varuint32[n]
     \/ numberSent = {} /\ valueBytes \in Given
  /\ numberRead = {} /\ bitShift = 0 /\ readPosition = 0
  /\ pc = "reading"

\* VALIDATE(readPosition < 9) before another byte; mutant: a tenth is read.
UpToTen(position)  == position < 10
UpToNine(position) == position < 9

\* One round of the loop.
ReadByte ==
  /\ pc = "reading" /\ readPosition < Len(valueBytes)
  /\ LET nextByte == valueBytes[readPosition + 1]
     IN  /\ numberRead' = numberRead \cup Shifted(Digit(nextByte), bitShift)
         /\ pc' = CASE ~Continues(nextByte) -> "read"
                    [] UpToNine(readPosition + 1) -> "reading"
                    [] OTHER -> "refused"
  /\ bitShift' = bitShift + 7
  /\ readPosition' = readPosition + 1
  /\ UNCHANGED <<valueBytes, numberSent>>

ValueEnds ==
  /\ pc = "reading" /\ readPosition = Len(valueBytes)
  /\ pc' = "refused"
  /\ UNCHANGED <<valueBytes, numberSent, numberRead, bitShift, readPosition>>

\* The rest of parseVarUInt32.
Checked ==
  /\ pc = "read"
  /\ pc' = IF readPosition = Len(valueBytes) /\ numberRead \in Word(32)
             THEN "accepted" ELSE "refused"
  /\ UNCHANGED <<valueBytes, numberSent, numberRead, bitShift, readPosition>>

LoopNext == ReadByte \/ ValueEnds \/ Checked

-----------------------------------------------------------------------------
(* Properties.                                                             *)

\* A number of 32 bits that the host encodes is the number the device parses,
\* and takes as many bytes as lenlen counts for it in commands.ts.
HostNumbersArrive ==
  \A n \in numberSent :
    /\ pc # "refused"
    /\ pc = "accepted" => numberRead = n
    /\ n \in Word(31) => Len(valueBytes) = lenlen(ValueOf(n))

\* Whatever the bytes, overlong and unfinished numbers included, no digit is
\* shifted by more than 56 bits, and the loop comes to what the operators of
\* VarUInt say of the bytes, on which the models of the commands rest.
LoopParses ==
  /\ pc = "reading" => bitShift <= 56
  /\ pc = "accepted" => IsVarUInt32(valueBytes) /\ numberRead = NumberIn(valueBytes)
  /\ pc = "refused" => ~IsVarUInt32(valueBytes)
=============================================================================
