------------------------------ MODULE DeviceTests ------------------------------
(***************************************************************************)
(* The command tests of test-integration/ run against SignTx: each sends   *)
(* APDUs to a device with the DEVEL list of sequences, presses the buttons *)
(* and compares the answers, the hash and the cipher text with its own.    *)
(*                                                                         *)
(* Tests follow one another on one device, in any order.  Two tests that   *)
(* change a byte of a constant part, and no length, are left out.          *)
(***************************************************************************)
EXTENDS DeviceCommands

VARIABLE
  test     \* its number, the next step, how far that is, cipher text so far

scriptVars == <<instr, ctx, hist, ui, reply, test>>

\* A step sends a command and is answered, refused, or rejected by the user.
Answers(c) == [command |-> c, expected |-> "success"]
Refused(c)   == [command |-> c, expected |-> "error"]
Rejected(c)  == [command |-> c, expected |-> "rejected"]

\* A test signs so many bytes, so many of them cipher text; or fails, after
\* INIT, with its last step.
Signing(bytes, cipher, steps) == [steps |-> steps, bytes |-> bytes, cipher |-> cipher]
ScriptPath == FioPrefix \o <<Index(1, 0)>>
Initialized == Answers(COMMAND_INIT(Chain(TRUE), ScriptPath))
Failing(steps) == Signing(0, 0, <<Initialized>> \o steps)
Finished == Answers(COMMAND_FINISH)

-----------------------------------------------------------------------------
(* signTransactionCommandsBasic.js                                         *)

Const(n) == Answers(COMMAND_APPEND_CONST_DATA(n, 0))
Message(key, value) == COMMAND_SHOW_MESSAGE(key, value)

SignMinimal ==
  Signing(32 + 5, 0, <<Initialized, Const(5), Answers(Message("Test Key", "Test Value")), Finished>>)
IncorrectChain == Signing(0, 0, <<Refused(COMMAND_INIT(Chain(FALSE), ScriptPath))>>)
IncorrectLengths == Failing(<<Refused([COMMAND_APPEND_CONST_DATA(5, 0) EXCEPT !.var = Text(1)])>>)
NonAsciiMessage == Failing(<<Refused(Message("Test Key", "\t"))>>)
IncorrectPath ==
  Signing(0, 0, <<Refused(COMMAND_INIT(Chain(TRUE), [ScriptPath EXCEPT ![1] = Index(30, 44)]))>>)

-----------------------------------------------------------------------------
(* signTransactionCommandsCountedSection.js                                *)

SectionOf(v, validation, max) ==
  [defaultCommand EXCEPT !.command = "START_COUNTED_SECTION", !.var = v,
     !.const = constDataStartCountedSection("VARUINT32", validation, 0, max)]
Section(n) == Answers(SectionOf(varuint32_to_buf(n), "NONE", 0))
EndCommand == [defaultCommand EXCEPT !.command = "END_COUNTED_SECTION"]
End        == Answers(EndCommand)
OfBytes(bytes) == SectionOf(Value("varuint32", Len(bytes), bytes), "NONE", 0)
Continued(n)   == [i \in 1..n |-> 128]

SignSections ==
  Signing(32 + 2 + 32 + 1 + 1 + 32 + 31 + 31, 0,
    <<Initialized, Section(128), Const(32), Section(64), Section(32), Const(32), End,
      Const(31), End, Const(31), End, Finished>>)
ValidationFailure == Failing(<<Refused(SectionOf(varuint32_to_buf(128), "NUMBER", 127))>>)
IncorrectVarInt   == Failing(<<Refused(OfBytes(Continued(2)))>>)
VarIntTooLong     == Failing(<<Refused(OfBytes(Continued(8) \o <<1>>))>>)
TooBigForUInt32   == Failing(<<Refused(OfBytes(Continued(7) \o <<1>>))>>)
TooMuchNesting ==
  Failing([i \in 1..5 |-> Section(128)] \o <<Refused(Section(128).command)>>)
UnexpectedEnd  == Failing(<<Refused(EndCommand)>>)
LengthMismatch == Failing(<<Section(128), Refused(EndCommand)>>)

-----------------------------------------------------------------------------
(* signTransactionCommandsDH.js, signTransactionCommandsDHAndCountedSections.js *)

StartDhCommand ==
  [defaultCommand EXCEPT !.command = "START_DH_ENCRYPTION", !.var = Hex(PUBLIC_KEY_LENGTH)]
EndDhCommand == [defaultCommand EXCEPT !.command = "END_DH_ENCRYPTION"]
StartDh == Answers(StartDhCommand)
EndDh   == Answers(EndDhCommand)

\* checkEncrypt: base64 of IV, padded plain text and HMAC, as a library does it.
Encrypted(n) == 4 * ((16 + 16 * (n \div 16 + 1) + 32 + 2) \div 3)
DataOf(format, policy, key, v) ==
  AppendData(constDataAppendData(format, "NONE", 0, 0, policy, key), v)
NiceString == DataOf("ASCII_STRING", "SHOW", "String", Text(35))

SignEncrypted ==
  Signing(32 + Encrypted(5 + 35), Encrypted(5 + 35),
    <<Initialized, StartDh, Const(5), Answers(NiceString), EndDh, Finished>>)
EndNotStarted == Failing(<<Refused(EndDhCommand)>>)
NestedDh == Failing(<<StartDh, Refused(StartDhCommand)>>)
RestartedDh == Failing(<<StartDh, EndDh, StartDh, Refused(COMMAND_FINISH)>>)
RejectedDh == Failing(<<StartDh, Rejected(EndDhCommand)>>)
SignEncryptedSection ==
  Signing(32 + 1 + 88, Encrypted(1 + 5),
    <<Initialized, Section(88), StartDh, Section(5), Const(5), End, EndDh, End, Finished>>)
EndAcross == Failing(<<Section(64), StartDh, Refused(EndCommand)>>)
SectionLeftOpen == Failing(<<StartDh, Section(5), Refused(EndDhCommand)>>)

-----------------------------------------------------------------------------
(* signTransactionCommandsStorage.js                                       *)

Store(r, v) == Answers(COMMAND_STORE_VALUE(r, v))
ShownHex(v) == DataOf("BUFFER_SHOW_AS_HEX", "SHOW", "HexString", v)

SignStored ==
  Signing(32 + 6 + 11, 0,
    <<Initialized, Store(1, Hex(6)), Store(3, Hex(11)),
      Answers(ADD_STORAGE_CHECK("R1", ShownHex(Hex(6)))),
      Answers(ADD_STORAGE_CHECK("R3", ShownHex(Hex(11)))), Finished>>)
StoredTooLong == Failing(<<Refused(COMMAND_STORE_VALUE(1, Hex(10)))>>)
NoMatch ==
  Failing(<<Store(1, Hex(6)), Refused(ADD_STORAGE_CHECK("R1", ShownHex(Value("hex", 6, <<1>>))))>>)
Bytes8 == Value("other", 8, <<>>)
NoMatchOfName ==
  Failing(<<Store(1, Bytes8),
            Refused(ADD_STORAGE_CHECK("R1_DECODE_NAME",
                                      DataOf("ASCII_STRING", "SHOW", "HexString", Bytes8)))>>)

-----------------------------------------------------------------------------
(* signTransactionCommandsShowData.js                                      *)

BufferOf(format, key, n) ==
  AppendData(constDataAppendData(format, "INBUFFER_LENGTH", 0, 8, "SHOW", key), Hex(n))
UInt64(i) == Value("uint64", 8, <<i>>)
FioToken  == Value("name", 8, <<11, 14, 20, 0, 25, 20, 16, 10, 19>>)
IfNonEmpty(v) == DataOf("ASCII_STRING", "SHOW_IF_NONEMPTY", "String", v)

SignShown ==
  Signing(32 + 8 + 35 + 8 + 8 + 8 + 8, 0,
    <<Initialized, Answers(BufferOf("BUFFER_SHOW_AS_HEX", "HexString", 8)),
      Answers(NiceString), Answers(DataOf("NAME", "SHOW", "NameString", FioToken)),
      Answers(DataOf("FIO_AMOUNT", "SHOW", "Amount", UInt64(1))),
      Answers(DataOf("UINT64", "SHOW", "Number", UInt64(2))),
      Answers(DataOf("UINT64", "DO_NOT_SHOW", "Number", UInt64(3))), Finished>>)
UnknownType == Failing(<<Refused(BufferOf("UNKNOWN", "HexString", 8))>>)
BufferTooLong == Failing(<<Refused(BufferOf("BUFFER_SHOW_AS_HEX", "HexString", 9))>>)
KeyLengthMismatch ==
  Failing(<<Refused([BufferOf("BUFFER_SHOW_AS_HEX", "HexStrin", 8) EXCEPT !.const.bytes = @ + 1])>>)
KeyInvalid == Failing(<<Refused(BufferOf("BUFFER_SHOW_AS_HEX", "\t", 8))>>)
KeyTooLong == Failing(<<Refused(BufferOf("BUFFER_SHOW_AS_HEX", "01234567890123456789", 8))>>)
NonReadable ==
  Failing(<<Refused(DataOf("ASCII_STRING", "SHOW", "String", Value("other", 35, <<>>)))>>)
NameLength   == Failing(<<Refused(DataOf("NAME", "SHOW", "NameString", Hex(7)))>>)
AmountLength == Failing(<<Refused(DataOf("FIO_AMOUNT", "SHOW", "Amount", Hex(9)))>>)
UInt64Length == Failing(<<Refused(DataOf("UINT64", "SHOW", "Number", Hex(7)))>>)
ShowIfNonEmpty ==
  Failing(<<Answers(IfNonEmpty(Text(0))), Answers(IfNonEmpty(Text(1))),
            Refused(IfNonEmpty(Value("other", 1, <<>>)))>>)

Scripts ==
  <<SignMinimal, IncorrectChain, IncorrectLengths, NonAsciiMessage, IncorrectPath,
    SignSections, ValidationFailure, IncorrectVarInt, VarIntTooLong, TooBigForUInt32,
    TooMuchNesting, UnexpectedEnd, LengthMismatch, SignEncrypted, EndNotStarted, NestedDh,
    RestartedDh, RejectedDh, SignEncryptedSection, EndAcross, SectionLeftOpen, SignStored,
    StoredTooLong, NoMatch, NoMatchOfName, SignShown, UnknownType, BufferTooLong,
    KeyLengthMismatch, KeyInvalid, KeyTooLong, NonReadable, NameLength, AmountLength,
    UInt64Length, ShowIfNonEmpty>>

-----------------------------------------------------------------------------
(* Running them.                                                           *)

CommandsOf(t) == [i \in DOMAIN t.steps |-> t.steps[i].command]

\* The DEVEL list: the sequences up to each DH_END and FINISH that is accepted.
AcceptedOf(t) ==
  SubSeq(CommandsOf(t), 1,
         Len(t.steps) - (IF t.steps[Len(t.steps)].expected = "error" THEN 1 ELSE 0))
ChainsOfTests(tests) == UNION {Asked(AcceptedOf(tests[id])) : id \in DOMAIN tests}
DevelChains == ChainsOfTests(Scripts)

Step == Scripts[test.id].steps[test.step]

Begin(id) ==
  /\ test.state \in {"idle", "passed"}
  /\ test' = [id |-> id, step |-> 1, state |-> "sending", cipher |-> 0]
  /\ UNCHANGED vars

SendStep ==
  /\ test.state = "sending"
  /\ DeviceHandles(Step.command)
  /\ test' = [test EXCEPT !.state = "awaiting"]

PressButtons ==
  /\ test.state = "awaiting"
  /\ IF Step.expected = "rejected" THEN UserRejects ELSE UserReads \/ UserConfirms
  /\ UNCHANGED test

AsTested ==
  IF Step.expected = "success" THEN reply.status = "success" ELSE reply.status = "error"
Compare ==
  /\ test.state = "awaiting" /\ reply.status # "pending"
  /\ LET last == test.step = Len(Scripts[test.id].steps)
         cipher == IF Step.command.command = "FINISH" THEN 0 ELSE reply.length
     IN  test' = [test EXCEPT
                    !.state = CASE ~AsTested -> "failed" [] AsTested /\ last -> "passed"
                                [] OTHER -> "sending",
                    !.step = IF last THEN @ ELSE @ + 1,
                    !.cipher = @ + cipher]
  /\ UNCHANGED vars

TestInit == Init /\ test = [id |-> 1, step |-> 1, state |-> "idle", cipher |-> 0]
RunStep  == SendStep \/ PressButtons \/ Compare
TestNext == RunStep \/ \E id \in DOMAIN Scripts : Begin(id)
TestSpec == TestInit /\ [][TestNext]_scriptVars

-----------------------------------------------------------------------------
(* Properties.                                                             *)

\* Every script passes, whichever ran before: each answer is the one the test
\* asserts, and what was hashed and what was returned of an encrypted part are
\* as long as the message and the cipher text that the test computes.
AnsweredAsTested ==
  /\ test.state # "failed"
  /\ test.state = "passed" /\ Scripts[test.id].bytes > 0 =>
       /\ hist.out = Scripts[test.id].bytes
       /\ test.cipher = Scripts[test.id].cipher
=============================================================================
