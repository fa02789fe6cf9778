---------------------------- MODULE DeviceCommands ----------------------------
(***************************************************************************)
(* Commands of HostCommands as APDUs for SignTx: which handler takes one,  *)
(* with which arguments, after the checks of ValueParsing; and values for  *)
(* the constants of SignTx from the commands that a model sends.           *)
(***************************************************************************)
EXTENDS SignTx, ValueParsing
LOCAL INSTANCE FiniteSetsExt

DeviceName(command) ==
  CASE command = "START_DH_ENCRYPTION" -> "DH_START"
    [] command = "END_DH_ENCRYPTION" -> "DH_END"
    [] OTHER -> command
DevicePolicy(c) == IF c.const.policy = "DO_NOT_SHOW" THEN "ALLOW" ELSE c.const.policy

\* The number that parseValueToUInt64 leaves for a section.
SectionLength(v) == CHOOSE n \in parseVarUInt32(v) : TRUE

\* SignTx has been given what the command carries.
Provided(c) ==
  /\ c.command = "APPEND_CONST_DATA" => c.const.bytes \in ConstLens
  /\ c.command = "APPEND_DATA" =>
       c.var \in Values /\ c.const.storage \in Checks /\ DevicePolicy(c) \in Policies
  /\ c.command = "START_COUNTED_SECTION" =>
       <<SectionLength(c.var), c.var.len>> \in Sections
  /\ c.command = "STORE_VALUE" => c.var \in Values

\* A command arrives at the device.
DeviceHandles(c) ==
  \/ ~Accepted(c) /\ BadRequest
  \/ /\ Accepted(c)
     /\ \/ c.command = "INIT" /\ HandleInit
        \/ c.command = "APPEND_CONST_DATA" /\ HandleAppendConstData(c.const.bytes)
        \/ c.command = "SHOW_MESSAGE" /\ HandleShowMessage
        \/ /\ c.command = "APPEND_DATA"
           /\ HandleAppendData(c.var, c.const.storage, DevicePolicy(c), Blank(c.const, c.var))
        \/ /\ c.command = "START_COUNTED_SECTION"
           /\ HandleStartCountedSection(SectionLength(c.var), c.var.len)
        \/ c.command = "END_COUNTED_SECTION" /\ HandleEndCountedSection
        \/ c.command = "STORE_VALUE" /\ HandleStoreValue(c.p2, c.var)
        \/ c.command = "START_DH_ENCRYPTION" /\ HandleStartDHEncoding
        \/ c.command = "END_DH_ENCRYPTION" /\ HandleEndDHEncoding
        \/ c.command = "FINISH" /\ HandleFinish

\* What of a command the chain of SignTx tells apart.
Entry(c) ==
  <<DeviceName(c.command), c.p2,
    CASE c.command = "APPEND_CONST_DATA" -> c.const.bytes
      [] c.command = "APPEND_DATA" -> <<c.const.storage, DevicePolicy(c)>>
      [] OTHER -> 0>>
EntriesOf(plan) == [i \in DOMAIN plan |-> Entry(plan[i])]

\* The chains the device is asked about: at DH_END and at FINISH.
Asked(plan) ==
  {SubSeq(EntriesOf(plan), 1, i) :
     i \in {i \in DOMAIN plan : plan[i].command \in {"END_DH_ENCRYPTION", "FINISH"}}}

\* The values that plans hand over, and the spelling of the names in them.
ValuesOf(plans) ==
  LET appended == UNION {{p[i].var : i \in DOMAIN p} : p \in plans}
  IN  {Text(0)} \cup {v \in appended : v.kind \notin {"init", "varuint32"} /\ v.len <= MAX_VALUE}
Trimmed(s) == SubSeq(s, 1, Max({0} \cup {i \in DOMAIN s : s[i] # 0}))
SpellingsOf(values) ==
  [v \in {v \in values : v.kind = "name"} |-> Spelled(Trimmed(v.content))]
WithSpellings(values) ==
  LET spelling == SpellingsOf(values) IN values \cup {spelling[v] : v \in DOMAIN spelling}
SizesOf(values) == [v \in values |-> v.len]

\* The other constants of SignTx, for commands whose sections are shorter than bound.
AllConstLens == 0..MAX_VALUE - 1
SectionsBelow(bound) == (0..bound) \X (1..5)
AllChecks   == {"NO", "R1", "R2", "R3", "R1_DECODE_NAME"}
AllPolicies == {"ALLOW", "SHOW", "SHOW_IF_NONEMPTY"}
=============================================================================
