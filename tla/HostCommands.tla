------------------------------ MODULE HostCommands ------------------------------
(***************************************************************************)
(* transactionTemplates/commands.ts: the commands of a transaction.        *)
(*                                                                         *)
(* A command has a constant part, which the device takes into its          *)
(* integrity chain, and a value.  txLen is what it adds to the serialized  *)
(* transaction, which counted sections sum up; commands inside an          *)
(* encrypted part are summed through the length of the cipher text.        *)
(***************************************************************************)
EXTENDS HostTypes, DhLengths, VarUInt, FiniteSets
LOCAL INSTANCE FiniteSetsExt

\* Upper bounds that no length and no number of 63 bits exceeds: 0xFFFFFFFF
\* of lengths, 0x7FFFFFFFFFFFFFFF of amounts; larger numbers are not told apart.
NO_MAX == 2^30 - 1

\* constDataAppendData, constDataShowMessage, constDataStartCountedSection and
\* the bytes of COMMAND_APPEND_CONST_DATA; bytes is the length of each.
NoConst == [bytes |-> 0]
constDataAppendData(format, validation, arg1, arg2, policy, key) ==
  [bytes |-> 20 + Len(key), format |-> format, validation |-> validation,
   arg1 |-> arg1, arg2 |-> arg2, policy |-> policy, storage |-> "NO", key |-> key]
constDataShowMessage(key, value) ==
  [bytes |-> 2 + Len(key) + Len(value), key |-> key, value |-> value]
constDataStartCountedSection(format, validation, arg1, arg2) ==
  [bytes |-> 18, format |-> format, validation |-> validation, arg1 |-> arg1, arg2 |-> arg2]

NoExpectation == -1       \* expectedResponseLength is optional

defaultCommand ==
  [command |-> "NONE", p2 |-> 0, const |-> NoConst, var |-> Text(0), txLen |-> 0,
   expectedResponseLength |-> NoExpectation]

lenlen(n) == 1 + Cardinality({k \in {128, 16384, 2097152, 268435456} : n >= k})
varuint32_to_buf(n) ==
  LET bytes == varuint32[BitsOf(n)] IN Value("varuint32", Len(bytes), bytes)

-----------------------------------------------------------------------------

\* The commands of the encrypted part that begins with command s.
EncryptedPart(commands, s) ==
  {i \in s + 1..Len(commands) :
     \A j \in s + 1..i : commands[j].command # "END_DH_ENCRYPTION"}

HeadersForgotten(commands) ==          \* mutant: cipher text as long as plain text
  MapThenSumSet(LAMBDA i : commands[i].txLen, DOMAIN commands)
Total(commands, I) == MapThenSumSet(LAMBDA i : commands[i].txLen, I)
DhStarts(commands) == {s \in DOMAIN commands : commands[s].command = "START_DH_ENCRYPTION"}
getCommandVarLength(commands) ==
  MapThenSumSet(LAMBDA i :
    IF i \in DhStarts(commands)
    THEN HostEncodedLength(Total(commands, EncryptedPart(commands, i)))
    ELSE commands[i].txLen,
    DOMAIN commands \ UNION {EncryptedPart(commands, s) : s \in DhStarts(commands)})

COMMAND_INIT(chainId, path) ==
  LET varData == Value("init", chainId.len + 1 + 4 * Len(path), <<chainId, path>>)
  IN  [defaultCommand EXCEPT !.command = "INIT", !.var = varData, !.txLen = varData.len]

COMMAND_APPEND_CONST_DATA(n, data) ==
  [defaultCommand EXCEPT !.command = "APPEND_CONST_DATA",
     !.const = [bytes |-> n, data |-> data], !.txLen = n]

COMMAND_SHOW_MESSAGE(key, value) ==
  [defaultCommand EXCEPT !.command = "SHOW_MESSAGE", !.const = constDataShowMessage(key, value)]

\* The APPEND_DATA commands have this in common.
AppendData(const, varData) ==
  [defaultCommand EXCEPT !.command = "APPEND_DATA", !.const = const, !.var = varData,
                         !.txLen = varData.len]

COMMAND_APPEND_DATA_BUFFER_DO_NOT_SHOW(v, min, max) ==
  AppendData(constDataAppendData("BUFFER_SHOW_AS_HEX", "INBUFFER_LENGTH", min, max,
                                 "DO_NOT_SHOW", ""), v)
COMMAND_APPEND_DATA_STRING_DO_NOT_SHOW(v, min, max) ==
  AppendData(constDataAppendData("ASCII_STRING", "INBUFFER_LENGTH", min, max,
                                 "DO_NOT_SHOW", ""), v)
COMMAND_APPEND_DATA_STRING_SHOW(key, v, min, max) ==
  AppendData(constDataAppendData("ASCII_STRING", "INBUFFER_LENGTH", min, max,
                                 "SHOW", key), v)

\* A text after its length; the bounds of the text become bounds of the whole.
WithLength(v) == Value("with_length", lenlen(v.len) + v.len, <<v.len>>)
constDataWithLength(min, max, policy, key) ==
  constDataAppendData("ASCII_STRING_WITH_LENGTH", "INBUFFER_LENGTH",
                      min + lenlen(min), max + lenlen(max), policy, key)
COMMAND_APPEND_DATA_STRING_WITH_LENGTH_DO_NOT_SHOW(v, min, max) ==
  AppendData(constDataWithLength(min, max, "DO_NOT_SHOW", ""), WithLength(v))
\* mutant: bounded by the very text.
BoundedByItself(key, v, min, max) ==
  AppendData(constDataWithLength(min, v.len, "SHOW", key), WithLength(v))
COMMAND_APPEND_DATA_STRING_WITH_LENGTH_SHOW(key, v, min, max) ==
  AppendData(constDataWithLength(min, max, "SHOW", key), WithLength(v))
\* mutant: shown even if empty.
ShownEvenEmpty(key, v, min, max) ==
  AppendData(constDataWithLength(min, max, "SHOW", key), WithLength(v))
COMMAND_APPEND_DATA_STRING_WITH_LENGTH_SHOW_IF_NON_EMPTY(key, v, min, max) ==
  AppendData(constDataWithLength(min, max, "SHOW_IF_NONEMPTY", key), WithLength(v))

COMMAND_APPEND_DATA_NAME_SHOW(key, name) ==
  AppendData(constDataAppendData("NAME", "NONE", 0, 0, "SHOW", key), name)

\* Numbers of the bytes of a parsed amount, all of the format's bounds.
COMMAND_APPEND_DATA_FIO_AMOUNT_SHOW(key, v) ==
  AppendData(constDataAppendData("FIO_AMOUNT", "NUMBER", 0, NO_MAX, "SHOW", key), v)
COMMAND_APPEND_DATA_UINT64_SHOW(key, v) ==
  AppendData(constDataAppendData("UINT64", "NUMBER", 0, NO_MAX, "SHOW", key), v)

StartCountedSection(varData, min, max) ==
  [defaultCommand EXCEPT
     !.command = "START_COUNTED_SECTION", !.var = varData, !.txLen = varData.len,
     !.const = constDataStartCountedSection("VARUINT32", "NUMBER", min, max)]
COMMANDS_COUNTED_SECTION(commands, min, max) ==
  <<StartCountedSection(varuint32_to_buf(getCommandVarLength(commands)), min, max)>>
  \o commands
  \o <<[defaultCommand EXCEPT !.command = "END_COUNTED_SECTION"]>>

COMMAND_STORE_VALUE(register, v) ==
  [defaultCommand EXCEPT !.command = "STORE_VALUE", !.p2 = register, !.var = v]

\* The IV is 16 bytes: one waits, fifteen are twenty characters.
COMMANDS_DH_ENCODE(other_public_key, commands) ==
  <<[defaultCommand EXCEPT !.command = "START_DH_ENCRYPTION", !.var = other_public_key,
                           !.expectedResponseLength = 20]>>
  \o commands
  \o <<[defaultCommand EXCEPT !.command = "END_DH_ENCRYPTION"]>>

COMMAND_FINISH ==
  [defaultCommand EXCEPT !.command = "FINISH", !.expectedResponseLength = 65 + 32]

CheckForgotten(check, c) == c            \* mutant: the value is not tied
ADD_STORAGE_CHECK(check, c) == [c EXCEPT !.const.storage = check]

\* A memo, or a hash and the url of it; with a memo a url is not looked at.
COMMAND_APPEND_DATA_MEMO_HASH(memo, hash, offline_url) ==
  LET const == constDataAppendData("MEMO_HASH", "NONE", 0, 0, "DO_NOT_SHOW", "")
      Packed(v) == lenlen(v.len) + v.len
  IN  CASE memo = Undefined /\ hash # Undefined /\ offline_url # Undefined ->
             AppendData(const, Value("hash", 2 + Packed(hash) + 1 + Packed(offline_url),
                                     <<hash.len, offline_url.len>>))
        [] memo # Undefined /\ hash = Undefined ->
             AppendData(const, Value("memo", 1 + Packed(memo) + 2, <<memo.len>>))
        [] OTHER -> Invalid

COMMAND_APPEND_DATA_CHAIN_CODE_TOKEN_CODE_PUBLIC_ADDR_SHOW(key, chainCode, tokenCode, publicAddr) ==
  LET Packed(v) == lenlen(v.len) + v.len
  IN  AppendData(constDataAppendData("CHAIN_CODE_TOKEN_CODE_PUBLIC_ADDR", "NONE", 0, 0,
                                     "SHOW", key),
                 Value("address", Packed(tokenCode) + Packed(chainCode) + Packed(publicAddr),
                       <<tokenCode.len, chainCode.len, publicAddr.len>>))

\* templateAlternative: the commands of the first template that matches.
templateAlternative(alternatives) ==
  LET matching == {i \in DOMAIN alternatives : alternatives[i] # <<>>}
  IN  IF matching = {} THEN <<>>
      ELSE alternatives[CHOOSE i \in matching : \A j \in matching : i <= j]
=============================================================================
