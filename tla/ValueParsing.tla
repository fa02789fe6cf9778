------------------------------ MODULE ValueParsing ------------------------------
(***************************************************************************)
(* What the device lets into a command: the checks that the handlers of    *)
(* signTransaction.c make before they touch the context, with the parsing  *)
(* of signTransactionParse.c and the path policy of securityPolicy.c.      *)
(* Commands and values are those of HostCommands.                          *)
(***************************************************************************)
EXTENDS HostCommands

MAX_DISPLAY_VALUE_LENGTH == 220
MAX_DISPLAY_KEY_LENGTH   == 20
MAX_VALUE                == 220      \* MAX_TX_APPEND_IN_SINGLE_APDU

\* str_validateTextBuffer: of the values, "other" is not printable; of the
\* keys, the tabulator.
Printable(v)      == v.kind # "other"
PrintableKey(key) == key # "\t"

\* The formats; a value of another kind does not have the bytes to be parsed.
displayBufferShowAsHex(v) == 2 * v.len < MAX_DISPLAY_VALUE_LENGTH
displayASCIIString(v)     == v.len < MAX_DISPLAY_VALUE_LENGTH /\ Printable(v)
displayName(v)            == v.len = 8
displayASCIIStringWithLength(v) ==
  /\ v.kind = "with_length"
  /\ v.content[1] < MAX_DISPLAY_VALUE_LENGTH
  /\ v.len = lenlen(v.content[1]) + v.content[1]
displayMemoHash(v) ==
  \/ v.kind = "memo" /\ v.content[1] < 127 /\ v.len = v.content[1] + 4
  \/ /\ v.kind = "hash" /\ v.content[1] < 127 /\ v.content[2] < 127
     /\ v.len = v.content[1] + v.content[2] + 5
displayChainCodeTokenCodePublicAddr(v) ==
  /\ v.kind = "address"
  /\ v.content[1] \in 1..10 /\ v.content[2] \in 1..10 /\ v.content[3] \in 1..128

\* A number of more than 63 bits is above every bound of the templates.
parseUInt64(v)    == IF v.len # 8 THEN {} ELSE IF v.content[1] <= 63 THEN {0} ELSE {NO_MAX + 1}
parseVarUInt32(v) ==
  IF v.kind # "varuint32" \/ ~IsVarUInt32(v.content) THEN {}
  ELSE IF NumberIn(v.content) \in Word(30) THEN {ValueOf(NumberIn(v.content))} ELSE {NO_MAX}

\* bufferValidation, validateNumber; numbers has the value, if there is one.
NumberFormats == {"FIO_AMOUNT", "UINT64", "VARUINT32"}
Validated(const, v) ==
  CASE const.validation = "NONE" -> const.arg1 = 0 /\ const.arg2 = 0
    [] const.validation = "INBUFFER_LENGTH" -> const.arg1 <= v.len /\ v.len <= const.arg2
    [] const.validation = "NUMBER" -> const.format \in NumberFormats
    [] OTHER -> FALSE
NumberAccepted(const, numbers) ==
  \E n \in numbers : const.validation = "NUMBER" => const.arg1 <= n /\ n <= const.arg2

parseValueToUInt64(const, v) ==
  /\ Validated(const, v)
  /\ CASE const.format \in {"FIO_AMOUNT", "UINT64"} -> NumberAccepted(const, parseUInt64(v))
       [] const.format = "VARUINT32" -> NumberAccepted(const, parseVarUInt32(v))
       [] OTHER -> FALSE

parseValueToDisplay(const, v) ==
  CASE const.format \in NumberFormats -> parseValueToUInt64(const, v)
    [] OTHER ->
         /\ Validated(const, v)
         /\ CASE const.format = "BUFFER_SHOW_AS_HEX" -> displayBufferShowAsHex(v)
              [] const.format = "ASCII_STRING" -> displayASCIIString(v)
              [] const.format = "NAME" -> displayName(v)
              [] const.format = "ASCII_STRING_WITH_LENGTH" -> displayASCIIStringWithLength(v)
              [] const.format = "MEMO_HASH" -> displayMemoHash(v)
              [] const.format = "CHAIN_CODE_TOKEN_CODE_PUBLIC_ADDR" ->
                   displayChainCodeTokenCodePublicAddr(v)
              [] OTHER -> FALSE

\* The value is displayed as the empty string.
Blank(const, v) ==
  \/ const.format \in {"BUFFER_SHOW_AS_HEX", "ASCII_STRING"} /\ v.len = 0
  \/ const.format = "ASCII_STRING_WITH_LENGTH" /\ v.content[1] = 0
  \/ const.format = "NAME" /\ \A i \in DOMAIN v.content : v.content[i] = 0

-----------------------------------------------------------------------------

\* A chain id the device knows, and an index of a path: w bits wide, value i.
Chain(known) == Value("hex", 32, <<IF known THEN 1 ELSE 0>>)
Index(w, i)  == Value("number", 8, <<w, i>>)
\* getNetworkByChainId, policyForSignTxInit: 44'/235'/0'/0/i and nothing more.
FioPrefix == <<Index(32, 44), Index(32, 235), Index(32, 0), Index(1, 0)>>
policyForSignTxInit(path) == Len(path) = 5 /\ SubSeq(path, 1, 4) = FioPrefix

\* Layout of the command and validity of its value.
Accepted(c) ==
  CASE c.command = "INIT" ->
         /\ c.const.bytes = 0 /\ c.var.kind = "init"
         /\ c.var.content[1] = Chain(TRUE) /\ policyForSignTxInit(c.var.content[2])
    [] c.command = "APPEND_CONST_DATA" -> c.const.bytes < MAX_VALUE /\ c.var.len = 0
    [] c.command = "SHOW_MESSAGE" ->
         /\ Len(c.const.key) < MAX_DISPLAY_KEY_LENGTH - 1
         /\ Len(c.const.value) < MAX_DISPLAY_VALUE_LENGTH - 1
         /\ c.const.bytes = 2 + Len(c.const.key) + Len(c.const.value)
         /\ c.var.len = 0 /\ PrintableKey(c.const.key) /\ PrintableKey(c.const.value)
    [] c.command = "APPEND_DATA" ->
         /\ Len(c.const.key) <= MAX_DISPLAY_KEY_LENGTH - 1
         /\ c.const.bytes = 20 + Len(c.const.key)
         /\ c.var.len <= MAX_VALUE
         /\ PrintableKey(c.const.key)
         /\ parseValueToDisplay(c.const, c.var)
    [] c.command = "START_COUNTED_SECTION" ->
         c.const.bytes = 18 /\ parseValueToUInt64(c.const, c.var)
    [] c.command = "STORE_VALUE" -> c.p2 \in 1..3 /\ c.const.bytes = 0
    [] c.command = "START_DH_ENCRYPTION" ->
         c.const.bytes = 0 /\ c.var.len = PUBLIC_KEY_LENGTH
    [] c.command \in {"END_COUNTED_SECTION", "END_DH_ENCRYPTION", "FINISH"} ->
         c.const.bytes = 0 /\ c.var.len = 0
    [] OTHER -> FALSE
=============================================================================
