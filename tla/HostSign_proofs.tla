---------------------------- MODULE HostSign_proofs ----------------------------
(***************************************************************************)
(* Signing through the library, for every sequence of requests and every   *)
(* list of allowed sequences: what the templates compile is, for any       *)
(* transaction, a sequence of one shape; what the library sends of it is   *)
(* a session of SignTx; and the actor whose name a signed action carries   *)
(* is the one who authorizes it.                                           *)
(***************************************************************************)
EXTENDS HostSign, SignTxFraming_proofs

-----------------------------------------------------------------------------
(* Sequences, whatever they hold.                                          *)

Elements(s) == {s[i] : i \in DOMAIN s}
IsSeq(s) == s \in Seq(Elements(s))

\* A sequence over some set is one over its own elements.
LEMMA SeqOfElements ==
  ASSUME NEW S, NEW s \in Seq(S)
  PROVE  IsSeq(s) /\ DOMAIN s = 1..Len(s) /\ Len(s) \in Nat
  <1>1. DOMAIN s = 1..Len(s) /\ Len(s) \in Nat
    OBVIOUS
  <1>2. s = [i \in 1..Len(s) |-> s[i]]
    OBVIOUS
  <1>3. \A i \in 1..Len(s) : s[i] \in Elements(s)
    BY <1>1 DEF Elements
  <1>4. QED  BY <1>1, <1>2, <1>3 DEF IsSeq

\* A function on 1..n is a sequence.
LEMMA FunctionIsSeq ==
  ASSUME NEW n \in Nat, NEW f, f = [i \in 1..n |-> f[i]]
  PROVE  IsSeq(f) /\ Len(f) = n
  <1>1. DOMAIN f = 1..n
    OBVIOUS
  <1>2. \A i \in 1..n : f[i] \in Elements(f)
    BY <1>1 DEF Elements
  <1>3. f \in Seq(Elements(f))
    BY <1>2
  <1>4. QED  BY <1>1, <1>3 DEF IsSeq

\* Concatenation puts the second sequence after the first.
LEMMA Concatenated ==
  ASSUME NEW s, NEW t, IsSeq(s), IsSeq(t)
  PROVE  /\ IsSeq(s \o t)
         /\ Len(s) \in Nat /\ Len(t) \in Nat
         /\ Len(s \o t) = Len(s) + Len(t)
         /\ DOMAIN s = 1..Len(s) /\ DOMAIN t = 1..Len(t)
         /\ DOMAIN (s \o t) = 1..Len(s) + Len(t)
         /\ \A i \in 1..Len(s) : (s \o t)[i] = s[i]
         /\ \A i \in 1..Len(t) : (s \o t)[Len(s) + i] = t[i]
         /\ \A i \in 1..Len(s) + Len(t) :
              i \in 1..Len(s) \/ (i - Len(s) \in 1..Len(t) /\ (s \o t)[i] = t[i - Len(s)])
  <1> DEFINE S == Elements(s) \cup Elements(t)
  <1>1. /\ Len(s) \in Nat /\ Len(t) \in Nat
        /\ DOMAIN s = 1..Len(s) /\ DOMAIN t = 1..Len(t)
    BY SeqOfElements DEF IsSeq
  <1>2. s \in Seq(S) /\ t \in Seq(S)
    <2>1. s \in Seq(S)
      BY <1>1 DEF IsSeq
    <2>2. t \in Seq(S)
      BY <1>1 DEF IsSeq
    <2>3. QED  BY <2>1, <2>2
  <1> HIDE DEF S
  <1>3. s \o t \in Seq(S)
    BY <1>2
  <1>4. IsSeq(s \o t)
    BY <1>3, SeqOfElements
  <1>5. /\ Len(s \o t) = Len(s) + Len(t)
        /\ \A i \in 1..Len(s) : (s \o t)[i] = s[i]
        /\ \A i \in 1..Len(t) : (s \o t)[Len(s) + i] = t[i]
    BY <1>1, <1>2
  <1>6. DOMAIN (s \o t) = 1..Len(s) + Len(t)
    BY <1>1, <1>2, <1>3, <1>5
  <1>7. ASSUME NEW i \in 1..Len(s) + Len(t)
        PROVE  i \in 1..Len(s) \/ (i - Len(s) \in 1..Len(t) /\ (s \o t)[i] = t[i - Len(s)])
    <2>1. i \in 1..Len(s) \/ (i - Len(s) \in 1..Len(t) /\ Len(s) + (i - Len(s)) = i)
      BY <1>1
    <2>2. QED  BY <1>5, <2>1
  <1>8. QED  BY <1>1, <1>4, <1>5, <1>6, <1>7

-----------------------------------------------------------------------------
(* Commands of a template.                                                 *)

InnerCommands ==
  {"APPEND_CONST_DATA", "SHOW_MESSAGE", "APPEND_DATA", "START_COUNTED_SECTION",
   "END_COUNTED_SECTION", "START_DH_ENCRYPTION", "END_DH_ENCRYPTION"}
Inner(c) ==
  /\ c.command \in InnerCommands
  /\ c.p2 = 0
  /\ c.expectedResponseLength =
       IF c.command = "START_DH_ENCRYPTION" THEN 20 ELSE NoExpectation
Commanding(s) == IsSeq(s) /\ \A i \in DOMAIN s : Inner(s[i])

\* The device compares the value of the command with what register 1 holds.
TiedTo(c, actor) ==
  c.command = "APPEND_DATA" /\ c.const.storage \in {"R1", "R1_DECODE_NAME"} /\ c.var = actor
Ties(s, actor) == \E i \in DOMAIN s : TiedTo(s[i], actor)

\* A few commands in a row.
LEMMA Commanding1 ==
  ASSUME NEW a,
         Inner(a)
  PROVE  /\ Commanding(<<a>>)
         /\ \A x : TiedTo(a, x)
                     => Ties(<<a>>, x)
  <1> DEFINE s == <<a>>
  <1>1. s \in Seq({a}) /\ DOMAIN s = 1..1
        /\ s[1] = a
    OBVIOUS
  <1> HIDE DEF s
  <1>2. IsSeq(s)
    BY <1>1, SeqOfElements
  <1>3. Commanding(s)
    BY <1>1, <1>2 DEF Commanding
  <1>4. ASSUME NEW x, TiedTo(a, x)
        PROVE  Ties(s, x)
    BY <1>1, <1>4 DEF Ties
  <1>5. QED  BY <1>3, <1>4 DEF s

\* Two commands in a row.
LEMMA Commanding2 ==
  ASSUME NEW a, NEW b,
         Inner(a), Inner(b)
  PROVE  Commanding(<<a, b>>)
  <1> DEFINE s == <<a, b>>
  <1>1. s \in Seq({a, b}) /\ DOMAIN s = 1..2
        /\ s[1] = a /\ s[2] = b
    OBVIOUS
  <1> HIDE DEF s
  <1>2. IsSeq(s)
    BY <1>1, SeqOfElements
  <1>3. Commanding(s)
    BY <1>1, <1>2 DEF Commanding
  <1>4. QED  BY <1>3 DEF s

\* Three commands in a row.
LEMMA Commanding3 ==
  ASSUME NEW a, NEW b, NEW c,
         Inner(a), Inner(b), Inner(c)
  PROVE  /\ Commanding(<<a, b, c>>)
         /\ \A x : TiedTo(a, x) \/ TiedTo(b, x) \/ TiedTo(c, x)
                     => Ties(<<a, b, c>>, x)
  <1> DEFINE s == <<a, b, c>>
  <1>1. s \in Seq({a, b, c}) /\ DOMAIN s = 1..3
        /\ s[1] = a /\ s[2] = b /\ s[3] = c
    OBVIOUS
  <1> HIDE DEF s
  <1>2. IsSeq(s)
    BY <1>1, SeqOfElements
  <1>3. Commanding(s)
    BY <1>1, <1>2 DEF Commanding
  <1>4. ASSUME NEW x, TiedTo(a, x) \/ TiedTo(b, x) \/ TiedTo(c, x)
        PROVE  Ties(s, x)
    BY <1>1, <1>4 DEF Ties
  <1>5. QED  BY <1>3, <1>4 DEF s

\* Four commands in a row.
LEMMA Commanding4 ==
  ASSUME NEW a, NEW b, NEW c, NEW d,
         Inner(a), Inner(b), Inner(c), Inner(d)
  PROVE  /\ Commanding(<<a, b, c, d>>)
         /\ \A x : TiedTo(a, x) \/ TiedTo(b, x) \/ TiedTo(c, x) \/ TiedTo(d, x)
                     => Ties(<<a, b, c, d>>, x)
  <1> DEFINE s == <<a, b, c, d>>
  <1>1. s \in Seq({a, b, c, d}) /\ DOMAIN s = 1..4
        /\ s[1] = a /\ s[2] = b /\ s[3] = c /\ s[4] = d
    OBVIOUS
  <1> HIDE DEF s
  <1>2. IsSeq(s)
    BY <1>1, SeqOfElements
  <1>3. Commanding(s)
    BY <1>1, <1>2 DEF Commanding
  <1>4. ASSUME NEW x, TiedTo(a, x) \/ TiedTo(b, x) \/ TiedTo(c, x) \/ TiedTo(d, x)
        PROVE  Ties(s, x)
    BY <1>1, <1>4 DEF Ties
  <1>5. QED  BY <1>3, <1>4 DEF s

\* Five commands in a row.
LEMMA Commanding5 ==
  ASSUME NEW a, NEW b, NEW c, NEW d, NEW e,
         Inner(a), Inner(b), Inner(c), Inner(d), Inner(e)
  PROVE  /\ Commanding(<<a, b, c, d, e>>)
         /\ \A x : TiedTo(a, x) \/ TiedTo(b, x) \/ TiedTo(c, x) \/ TiedTo(d, x) \/ TiedTo(e, x)
                     => Ties(<<a, b, c, d, e>>, x)
  <1> DEFINE s == <<a, b, c, d, e>>
  <1>1. s \in Seq({a, b, c, d, e}) /\ DOMAIN s = 1..5
        /\ s[1] = a /\ s[2] = b /\ s[3] = c /\ s[4] = d /\ s[5] = e
    OBVIOUS
  <1> HIDE DEF s
  <1>2. IsSeq(s)
    BY <1>1, SeqOfElements
  <1>3. Commanding(s)
    BY <1>1, <1>2 DEF Commanding
  <1>4. ASSUME NEW x, TiedTo(a, x) \/ TiedTo(b, x) \/ TiedTo(c, x) \/ TiedTo(d, x) \/ TiedTo(e, x)
        PROVE  Ties(s, x)
    BY <1>1, <1>4 DEF Ties
  <1>5. QED  BY <1>3, <1>4 DEF s

\* Seven commands in a row.
LEMMA Commanding7 ==
  ASSUME NEW a, NEW b, NEW c, NEW d, NEW e, NEW f, NEW g,
         Inner(a), Inner(b), Inner(c), Inner(d), Inner(e), Inner(f), Inner(g)
  PROVE  /\ Commanding(<<a, b, c, d, e, f, g>>)
         /\ \A x : TiedTo(a, x) \/ TiedTo(b, x) \/ TiedTo(c, x) \/ TiedTo(d, x)
             \/ TiedTo(e, x) \/ TiedTo(f, x) \/ TiedTo(g, x)
                     => Ties(<<a, b, c, d, e, f, g>>, x)
  <1> DEFINE s == <<a, b, c, d, e, f, g>>
  <1>1. s \in Seq({a, b, c, d, e, f, g}) /\ DOMAIN s = 1..7
        /\ s[1] = a /\ s[2] = b /\ s[3] = c /\ s[4] = d /\ s[5] = e /\ s[6] = f /\ s[7] = g
    OBVIOUS
  <1> HIDE DEF s
  <1>2. IsSeq(s)
    BY <1>1, SeqOfElements
  <1>3. Commanding(s)
    BY <1>1, <1>2 DEF Commanding
  <1>4. ASSUME NEW x, TiedTo(a, x) \/ TiedTo(b, x) \/ TiedTo(c, x) \/ TiedTo(d, x)
             \/ TiedTo(e, x) \/ TiedTo(f, x) \/ TiedTo(g, x)
        PROVE  Ties(s, x)
    BY <1>1, <1>4 DEF Ties
  <1>5. QED  BY <1>3, <1>4 DEF s

\* One sequence of commands after another.
LEMMA CommandingConcat ==
  ASSUME NEW s, NEW t, Commanding(s), Commanding(t)
  PROVE  /\ Commanding(s \o t)
         /\ \A x : Ties(s, x) \/ Ties(t, x) => Ties(s \o t, x)
  <1> DEFINE r == s \o t
  <1>1. /\ IsSeq(s) /\ IsSeq(t) /\ IsSeq(r) /\ Len(s) \in Nat /\ Len(t) \in Nat
        /\ DOMAIN s = 1..Len(s) /\ DOMAIN t = 1..Len(t) /\ DOMAIN r = 1..Len(s) + Len(t)
        /\ \A i \in 1..Len(s) : r[i] = s[i]
        /\ \A i \in 1..Len(t) : r[Len(s) + i] = t[i]
        /\ \A i \in 1..Len(s) + Len(t) :
             i \in 1..Len(s) \/ (i - Len(s) \in 1..Len(t) /\ r[i] = t[i - Len(s)])
    BY Concatenated DEF Commanding
  <1> HIDE DEF r
  <1>2. Commanding(r)
    BY <1>1 DEF Commanding
  <1>3. ASSUME NEW x, NEW i \in DOMAIN s, TiedTo(s[i], x) PROVE Ties(r, x)
    <2>1. i \in DOMAIN r /\ r[i] = s[i]
      BY <1>1
    <2>2. QED  BY <1>3, <2>1 DEF Ties
  <1>4. ASSUME NEW x, NEW i \in DOMAIN t, TiedTo(t[i], x) PROVE Ties(r, x)
    <2>1. Len(s) + i \in DOMAIN r /\ r[Len(s) + i] = t[i]
      BY <1>1
    <2>2. QED  BY <1>4, <2>1 DEF Ties
  <1>5. QED  BY <1>2, <1>3, <1>4 DEF Ties, r

\* No commands.
LEMMA CommandingNone == Commanding(<<>>)
  <1>1. IsSeq(<<>>)
    BY SeqOfElements, EmptySeq
  <1>2. QED  BY <1>1 DEF Commanding

-----------------------------------------------------------------------------
(* The commands of commands.ts.                                            *)

\* Every command that appends a value is an inner one, tied to a register or not.
LEMMA InnerData ==
  ASSUME NEW const, NEW v
  PROVE  Inner(AppendData(const, v))
  BY DEF Inner, InnerCommands, AppendData, defaultCommand

\* A check of the value against a register, as added by ADD_STORAGE_CHECK.
LEMMA InnerChecked ==
  ASSUME NEW const, NEW v, NEW check
  PROVE  Inner(ADD_STORAGE_CHECK(check, AppendData(const, v)))
  BY DEF Inner, InnerCommands, ADD_STORAGE_CHECK, AppendData, defaultCommand

\* Such a check ties the command to the value it carries.
LEMMA TiedChecked ==
  ASSUME NEW f, NEW w, NEW m, NEW n, NEW p, NEW k, NEW v, NEW check \in {"R1", "R1_DECODE_NAME"}
  PROVE  TiedTo(ADD_STORAGE_CHECK(check, AppendData(constDataAppendData(f, w, m, n, p, k), v)), v)
  BY DEF TiedTo, ADD_STORAGE_CHECK, AppendData, constDataAppendData, defaultCommand

\* Constant data.
LEMMA InnerConst == \A n, data : Inner(COMMAND_APPEND_CONST_DATA(n, data))
  BY DEF Inner, InnerCommands, COMMAND_APPEND_CONST_DATA, defaultCommand

\* A message to show.
LEMMA InnerMessage == \A key, value : Inner(COMMAND_SHOW_MESSAGE(key, value))
  BY DEF Inner, InnerCommands, COMMAND_SHOW_MESSAGE, defaultCommand

\* The fields that templates are made of.
LEMMA InnerFields ==
  /\ \A key, v, min, max : Inner(Shown(key, v, min, max))
  /\ \A key, v : Inner(ShownAny(key, v))
  /\ \A key, v : Inner(Amount(key, v))
  /\ \A key, v : Inner(COMMAND_APPEND_DATA_UINT64_SHOW(key, v))
  /\ \A v, min, max : Inner(COMMAND_APPEND_DATA_BUFFER_DO_NOT_SHOW(v, min, max))
  /\ \A v, min, max : Inner(COMMAND_APPEND_DATA_STRING_WITH_LENGTH_DO_NOT_SHOW(v, min, max))
  /\ \A key, v, min, max :
       Inner(COMMAND_APPEND_DATA_STRING_WITH_LENGTH_SHOW_IF_NON_EMPTY(key, v, min, max))
  /\ \A key, x, y, z :
       Inner(COMMAND_APPEND_DATA_CHAIN_CODE_TOKEN_CODE_PUBLIC_ADDR_SHOW(key, x, y, z))
  BY InnerData
  DEF Shown, ShownAny, Amount, COMMAND_APPEND_DATA_STRING_WITH_LENGTH_SHOW,
      COMMAND_APPEND_DATA_FIO_AMOUNT_SHOW, COMMAND_APPEND_DATA_UINT64_SHOW,
      COMMAND_APPEND_DATA_BUFFER_DO_NOT_SHOW,
      COMMAND_APPEND_DATA_STRING_WITH_LENGTH_DO_NOT_SHOW,
      COMMAND_APPEND_DATA_STRING_WITH_LENGTH_SHOW_IF_NON_EMPTY,
      COMMAND_APPEND_DATA_CHAIN_CODE_TOKEN_CODE_PUBLIC_ADDR_SHOW

\* Those that are named after a property of the data.
LEMMA InnerOfData ==
  ASSUME NEW d
  PROVE  /\ Inner(FioHandle(d)) /\ Inner(FioDomain(d)) /\ Inner(MaxFee(d)) /\ Inner(Tpid(d))
         /\ Inner(Actor(d)) /\ TiedTo(Actor(d), d.actor)
  <1>1. Inner(FioHandle(d)) /\ Inner(FioDomain(d)) /\ Inner(MaxFee(d)) /\ Inner(Tpid(d))
    BY InnerFields DEF FioHandle, FioDomain, MaxFee, Tpid
  <1>2. Inner(Actor(d)) /\ TiedTo(Actor(d), d.actor)
    BY InnerChecked, TiedChecked DEF Actor, COMMAND_APPEND_DATA_BUFFER_DO_NOT_SHOW
  <1>3. QED  BY <1>1, <1>2

\* A counted section and an encrypted part put inner commands around commands.
LEMMA CommandingBetween ==
  ASSUME NEW a, NEW b, NEW s, Inner(a), Inner(b), Commanding(s)
  PROVE  /\ Commanding(<<a>> \o s \o <<b>>)
         /\ \A x : Ties(s, x) => Ties(<<a>> \o s \o <<b>>, x)
  <1>1. Commanding(<<a>>) /\ Commanding(<<b>>)
    BY Commanding1
  <1>2. Commanding(<<a>> \o s) /\ \A x : Ties(s, x) => Ties(<<a>> \o s, x)
    BY <1>1, CommandingConcat
  <1>3. QED  BY <1>1, <1>2, CommandingConcat

\* A counted section around commands.
LEMMA CommandingSection ==
  ASSUME NEW s, NEW min, NEW max, Commanding(s)
  PROVE  /\ Commanding(COMMANDS_COUNTED_SECTION(s, min, max))
         /\ \A x : Ties(s, x) => Ties(COMMANDS_COUNTED_SECTION(s, min, max), x)
  <1> DEFINE a == StartCountedSection(varuint32_to_buf(getCommandVarLength(s)), min, max)
             b == [defaultCommand EXCEPT !.command = "END_COUNTED_SECTION"]
  <1>1. Inner(a) /\ Inner(b)
    BY DEF StartCountedSection, Inner, InnerCommands, defaultCommand
  <1>2. COMMANDS_COUNTED_SECTION(s, min, max) = <<a>> \o s \o <<b>>
    BY DEF COMMANDS_COUNTED_SECTION
  <1> HIDE DEF a, b
  <1>3. QED  BY <1>1, <1>2, CommandingBetween

\* An encrypted part around commands.
LEMMA CommandingDhEncode ==
  ASSUME NEW s, NEW key, Commanding(s)
  PROVE  Commanding(COMMANDS_DH_ENCODE(key, s))
  <1> DEFINE a == [defaultCommand EXCEPT !.command = "START_DH_ENCRYPTION", !.var = key,
                                         !.expectedResponseLength = 20]
             b == [defaultCommand EXCEPT !.command = "END_DH_ENCRYPTION"]
  <1>1. Inner(a) /\ Inner(b)
    BY DEF Inner, InnerCommands, defaultCommand
  <1>2. COMMANDS_DH_ENCODE(key, s) = <<a>> \o s \o <<b>>
    BY DEF COMMANDS_DH_ENCODE
  <1> HIDE DEF a, b
  <1>3. QED  BY <1>1, <1>2, CommandingBetween

\* The first of the alternatives that is not empty, if there is one.
LEMMA Alternative ==
  ASSUME NEW n \in Nat, NEW alternatives, DOMAIN alternatives = 1..n
  PROVE  \/ templateAlternative(alternatives) = <<>>
         \/ \E i \in 1..n : templateAlternative(alternatives) = alternatives[i]
  <1> DEFINE matching == {i \in DOMAIN alternatives : alternatives[i] # <<>>}
             first == CHOOSE i \in matching : \A j \in matching : i <= j
  <1>1. CASE matching = {}
    BY <1>1 DEF templateAlternative
  <1>2. CASE matching # {}
    <2>1. \E i \in matching : \A j \in matching : i <= j
      <3> DEFINE R == OpToRel(<, Nat)
      <3>1. \A i, j \in Nat : i < j => <<i, j>> \in R
        BY DEF OpToRel
      <3>2. IsWellFoundedOn(R, Nat)
        BY NatLessThanWellFounded
      <3> HIDE DEF R
      <3>3. matching \subseteq Nat
        OBVIOUS
      <3> HIDE DEF matching
      <3>4. PICK i \in matching : \A j \in matching : ~(<<j, i>> \in R)
        BY <1>2, <3>2, <3>3, WFMin
      <3>5. ASSUME NEW j \in matching PROVE i <= j
        <4>1. i \in Nat /\ j \in Nat /\ ~(j < i)
          BY <3>1, <3>3, <3>4
        <4>2. QED  BY <4>1
      <3>6. QED  BY <3>5
    <2>2. first \in matching
      BY <2>1
    <2>3. templateAlternative(alternatives) = alternatives[first]
      BY <1>2 DEF templateAlternative
    <2>4. QED  BY <2>2, <2>3
  <1>3. QED  BY <1>1, <1>2

-----------------------------------------------------------------------------
(* The templates.                                                          *)

\* The commands of an action: the authorizer goes into register 1, and nothing
\* else goes into a register; some command is tied to the actor of the data.
ActionOf(A, action) ==
  /\ IsSeq(A) /\ Len(A) >= 5
  /\ \A i \in DOMAIN A : i = 3 \/ Inner(A[i])
  /\ A[3] = COMMAND_STORE_VALUE(1, action.authorization[1].actor)
  /\ \E i \in DOMAIN A : i >= 4 /\ TiedTo(A[i], action.data.actor)
Shaped(A, tx) == A \in {<<>>, Invalid} \/ ActionOf(A, tx.actions[1])

\* Fields of an action that do for this.
ActionFields(s, actor) == s = Invalid \/ (Commanding(s) /\ Ties(s, actor))

\* The commands of an action, as laid out by COMMANDS_COUNTED_SECTION of the template.
LEMMA ActionShape ==
  ASSUME NEW tx, NEW account, NEW name, NEW title, NEW fields,
         ActionFields(fields, tx.actions[1].data.actor)
  PROVE  Shaped(ActionCommands(account, name, title, tx.actions[1].authorization[1], fields), tx)
  <1> DEFINE auth == tx.actions[1].authorization[1]
             actor == tx.actions[1].data.actor
             a == COMMAND_APPEND_CONST_DATA(17, <<account, name>>)
             b == COMMAND_SHOW_MESSAGE("Action", title)
             c == COMMAND_STORE_VALUE(1, auth.actor)
             d == Actor(auth)
             e == COMMAND_APPEND_DATA_BUFFER_DO_NOT_SHOW(auth.permission, 8, 8)
             head == <<a, b, c, d, e>>
             section == COMMANDS_COUNTED_SECTION(fields, 0, NO_MAX)
             A == head \o section
  <1>1. CASE fields = Invalid
    BY <1>1 DEF ActionCommands, Shaped
  <1>2. CASE Commanding(fields) /\ Ties(fields, actor)
    <2>1. ActionCommands(account, name, title, auth, fields) \in {Invalid, A}
      BY DEF ActionCommands
    <2>2. Inner(a) /\ Inner(b) /\ Inner(d) /\ Inner(e)
      BY InnerConst, InnerMessage, InnerOfData, InnerFields
    <2>3. Commanding(section) /\ Ties(section, actor)
      <3>1. Commanding(section) /\ \A x : Ties(fields, x) => Ties(section, x)
        BY <1>2, CommandingSection
      <3>2. QED  BY <1>2, <3>1
    <2> HIDE DEF a, b, d, e, section
    <2>4. /\ head \in Seq({a, b, c, d, e}) /\ DOMAIN head = 1..5 /\ Len(head) = 5
          /\ head[1] = a /\ head[2] = b /\ head[3] = c /\ head[4] = d /\ head[5] = e
      OBVIOUS
    <2> HIDE DEF head, c
    <2>5. IsSeq(head)
      BY <2>4, SeqOfElements
    <2>6. IsSeq(section)
      BY <2>3 DEF Commanding
    <2>7. /\ IsSeq(A) /\ Len(section) \in Nat /\ Len(A) = Len(head) + Len(section)
          /\ DOMAIN section = 1..Len(section) /\ DOMAIN A = 1..Len(head) + Len(section)
          /\ \A i \in 1..Len(head) : A[i] = head[i]
          /\ \A i \in 1..Len(section) : A[Len(head) + i] = section[i]
          /\ \A i \in 1..Len(head) + Len(section) :
               i \in 1..Len(head) \/ (i - Len(head) \in 1..Len(section)
                                        /\ A[i] = section[i - Len(head)])
      BY <2>5, <2>6, Concatenated
    <2> HIDE DEF A
    <2>8. A[3] = c
      BY <2>4, <2>7
    <2>9. \A i \in DOMAIN A : i = 3 \/ Inner(A[i])
      <3> TAKE i \in DOMAIN A
      <3>1. CASE i \in 1..5
        BY <2>2, <2>4, <2>7, <3>1
      <3>2. CASE i \notin 1..5
        BY <2>3, <2>4, <2>7, <3>2 DEF Commanding
      <3>3. QED  BY <3>1, <3>2
    <2>10. \E i \in DOMAIN A : i >= 4 /\ TiedTo(A[i], actor)
      <3>1. PICK i \in DOMAIN section : TiedTo(section[i], actor)
        BY <2>3 DEF Ties
      <3>2. 5 + i \in DOMAIN A /\ 5 + i >= 4 /\ A[5 + i] = section[i]
        BY <2>4, <2>7
      <3>3. QED  BY <3>1, <3>2
    <2>11. Len(A) >= 5
      BY <2>4, <2>7
    <2>12. ActionOf(A, tx.actions[1])
      BY <2>7, <2>8, <2>9, <2>10, <2>11 DEF ActionOf, c
    <2>13. QED  BY <2>1, <2>12 DEF Shaped
  <1>3. QED  BY <1>1, <1>2 DEF ActionFields

\* A template asks whether the action is the one it is for.
LEMMA TemplateShape ==
  ASSUME NEW tx, NEW account, NEW name, NEW title, NEW fields, NEW T,
         ActionFields(fields, tx.actions[1].data.actor),
         T \in {<<>>, ActionCommands(account, name, title,
                                     tx.actions[1].authorization[1], fields)}
  PROVE  Shaped(T, tx)
  <1>1. CASE T = <<>>
    BY <1>1 DEF Shaped
  <1>2. CASE T # <<>>
    BY <1>2, ActionShape
  <1>3. QED  BY <1>1, <1>2

-----------------------------------------------------------------------------
(* The fields of the templates.                                            *)

\* An encrypted part of a request.
LEMMA CommandingContent ==
  ASSUME NEW d, NEW parts, NEW max, Commanding(parts)
  PROVE  LET content == Content(d, parts, max)
         IN  content = Invalid \/ Commanding(content)
  <1> DEFINE m == COMMAND_APPEND_DATA_MEMO_HASH(d.memo, d.hash, d.offline_url)
             plain == Append(parts, m)
             encoded == COMMANDS_DH_ENCODE(d.other_public_key, plain)
             content == Content(d, parts, max)
  <1>1. m = Invalid \/ Inner(m)
    BY InnerData DEF COMMAND_APPEND_DATA_MEMO_HASH
  <1>2. content \in {Invalid, COMMANDS_COUNTED_SECTION(encoded, 64, max)}
        /\ (m = Invalid => content = Invalid)
    BY DEF Content, EncryptedContent
  <1> HIDE DEF m
  <1>3. CASE m = Invalid
    BY <1>2, <1>3
  <1>4. CASE Inner(m)
    <2>1. plain = parts \o <<m>>
      <3>1. IsSeq(parts)
        BY DEF Commanding
      <3> DEFINE S == Elements(parts) \cup {m}
      <3>2. parts \in Seq(S) /\ m \in S
        BY <3>1, SeqOfElements DEF IsSeq
      <3> HIDE DEF S
      <3>3. QED  BY <3>2
    <2>2. Commanding(<<m>>)
      BY <1>4, Commanding1
    <2>3. Commanding(plain)
      BY <2>1, <2>2, CommandingConcat
    <2> HIDE DEF plain
    <2>4. Commanding(encoded)
      BY <2>3, CommandingDhEncode
    <2> HIDE DEF encoded
    <2>5. Commanding(COMMANDS_COUNTED_SECTION(encoded, 64, max))
      BY <2>4, CommandingSection
    <2>6. QED  BY <1>2, <2>5
  <1>5. QED  BY <1>1, <1>3, <1>4

\* The actor as spelled is compared with the name in register 1.
LEMMA SpelledActorTied ==
  ASSUME NEW d
  PROVE  Commanding(SpelledActor(d)) /\ Ties(SpelledActor(d), d.actor)
  <1> DEFINE c == ADD_STORAGE_CHECK("R1_DECODE_NAME",
                                    COMMAND_APPEND_DATA_STRING_DO_NOT_SHOW(d.actor, 0, 14))
  <1>1. Inner(c) /\ TiedTo(c, d.actor)
    BY InnerChecked, TiedChecked DEF COMMAND_APPEND_DATA_STRING_DO_NOT_SHOW
  <1>2. SpelledActor(d) = COMMANDS_COUNTED_SECTION(<<c>>, 0, NO_MAX)
    BY DEF SpelledActor
  <1> HIDE DEF c
  <1>3. Commanding(<<c>>) /\ Ties(<<c>>, d.actor)
    BY <1>1, Commanding1
  <1>4. QED  BY <1>2, <1>3, CommandingSection

\* The fields around an encrypted part; the actor is among those in the clear.
LEMMA FieldsOfRequest ==
  ASSUME NEW d, NEW content, content = Invalid \/ Commanding(content)
  PROVE  ActionFields(RequestFields(d, content), d.actor)
  <1> DEFINE a == <<Shown("Payer FIO Handle", d.payer_fio_address, 3, 64),
                    Shown("Payee FIO Handle", d.payee_fio_address, 3, 64)>>
             b == <<MaxFee(d)>>
             c == <<Tpid(d)>>
             actor == SpelledActor(d)
  <1>1. RequestFields(d, content) \in {Invalid, a \o content \o b \o actor \o c}
        /\ (content = Invalid => RequestFields(d, content) = Invalid)
    BY DEF RequestFields
  <1>2. Commanding(a) /\ Commanding(b) /\ Commanding(c)
    <2>1. Commanding(a)
      BY InnerFields, Commanding2
    <2>2. Commanding(b) /\ Commanding(c)
      BY InnerOfData, Commanding1
    <2>3. QED  BY <2>1, <2>2
  <1>3. Commanding(actor) /\ Ties(actor, d.actor)
    BY SpelledActorTied
  <1> HIDE DEF a, b, c, actor
  <1>4. ASSUME Commanding(content)
        PROVE  /\ Commanding(a \o content \o b \o actor \o c)
               /\ Ties(a \o content \o b \o actor \o c, d.actor)
    <2>1. Commanding(a \o content)
      BY <1>2, <1>4, CommandingConcat
    <2>2. Commanding(a \o content \o b)
      BY <1>2, <2>1, CommandingConcat
    <2>3. Commanding(a \o content \o b \o actor) /\ Ties(a \o content \o b \o actor, d.actor)
      BY <1>3, <2>2, CommandingConcat
    <2>4. QED  BY <1>2, <2>3, CommandingConcat
  <1>5. QED  BY <1>1, <1>4 DEF ActionFields

\* A field before, and the fee, the actor and the tpid after some commands.
LEMMA FieldsAround ==
  ASSUME NEW d, NEW a, NEW s, Inner(a), Commanding(s)
  PROVE  ActionFields(<<a>> \o s \o <<MaxFee(d), Actor(d), Tpid(d)>>, d.actor)
  <1> DEFINE rest == <<MaxFee(d), Actor(d), Tpid(d)>>
  <1>1. Commanding(rest) /\ Ties(rest, d.actor)
    BY InnerOfData, Commanding3
  <1> HIDE DEF rest
  <1>2. Commanding(<<a>>)
    BY Commanding1
  <1>3. Commanding(<<a>> \o s)
    BY <1>2, CommandingConcat
  <1>4. Commanding(<<a>> \o s \o rest) /\ Ties(<<a>> \o s \o rest, d.actor)
    BY <1>1, <1>3, CommandingConcat
  <1>5. QED  BY <1>4 DEF ActionFields, rest

\* Commands for the elements of a list: none, or the number of them and the
\* commands for each.
LEMMA CommandingCounted ==
  ASSUME NEW n, NEW s, Commanding(s)
  PROVE  Commanding(<<COMMAND_APPEND_CONST_DATA(1, n)>> \o s)
  <1>1. Commanding(<<COMMAND_APPEND_CONST_DATA(1, n)>>)
    BY InnerConst, Commanding1
  <1>2. QED  BY <1>1, CommandingConcat

\* Commands given by their index.
LEMMA CommandingFunction ==
  ASSUME NEW n \in Nat, NEW s, s = [k \in 1..n |-> s[k]], \A k \in 1..n : Inner(s[k])
  PROVE  Commanding(s)
  <1>1. IsSeq(s)
    BY FunctionIsSeq
  <1>2. DOMAIN s = 1..n
    OBVIOUS
  <1>3. QED  BY <1>1, <1>2 DEF Commanding

\* The public addresses of a list.
LEMMA CommandingAddresses ==
  ASSUME NEW d, NEW n \in Nat
  PROVE  Commanding(AddressTemplate(d, n))
  <1> DEFINE s == [k \in 1..n |->
                     COMMAND_APPEND_DATA_CHAIN_CODE_TOKEN_CODE_PUBLIC_ADDR_SHOW(
                       MappingKey(k), d.public_addresses[k].chain_code,
                       d.public_addresses[k].token_code, d.public_addresses[k].public_address)]
  <1>1. AddressTemplate(d, n) \in {<<>>, <<COMMAND_APPEND_CONST_DATA(1, n)>> \o s}
    BY DEF AddressTemplate
  <1>2. s = [k \in 1..n |-> s[k]] /\ \A k \in 1..n : Inner(s[k])
    BY InnerFields
  <1> HIDE DEF s
  <1>3. Commanding(s)
    BY <1>2, CommandingFunction
  <1>4. QED  BY <1>1, <1>3, CommandingNone, CommandingCounted

\* The producers of a list.
LEMMA CommandingProducers ==
  ASSUME NEW d, NEW n \in Nat
  PROVE  Commanding(ProducerTemplate(d, n))
  <1> DEFINE s == [k \in 1..n |-> Shown(ProducerKey(k), d.producers[k], 3, 64)]
  <1>1. ProducerTemplate(d, n) \in {<<>>, <<COMMAND_APPEND_CONST_DATA(1, n)>> \o s}
    BY DEF ProducerTemplate
  <1>2. s = [k \in 1..n |-> s[k]] /\ \A k \in 1..n : Inner(s[k])
    BY InnerFields
  <1> HIDE DEF s
  <1>3. Commanding(s)
    BY <1>2, CommandingFunction
  <1>4. QED  BY <1>1, <1>3, CommandingNone, CommandingCounted

\* The commands of an NFT.
LEMMA CommandingNft ==
  ASSUME NEW k, NEW nft
  PROVE  Commanding(SmallNftCommands(k, nft)) /\ Commanding(NftCommands(k, nft))
  <1> DEFINE s == SmallNftCommands(k, nft)
             t == <<COMMAND_APPEND_DATA_STRING_WITH_LENGTH_DO_NOT_SHOW(nft.url, 0, 128),
                    COMMAND_APPEND_DATA_STRING_WITH_LENGTH_DO_NOT_SHOW(nft.hash, 0, 64),
                    COMMAND_APPEND_DATA_STRING_WITH_LENGTH_DO_NOT_SHOW(nft.metadata, 0, 128)>>
  <1>1. Commanding(s)
    BY InnerFields, InnerMessage, Commanding4 DEF SmallNftCommands
  <1>2. Commanding(t)
    BY InnerFields, Commanding3
  <1>3. NftCommands(k, nft) = s \o t
    BY DEF NftCommands
  <1> HIDE DEF s, t
  <1>4. Commanding(s \o t)
    BY <1>1, <1>2, CommandingConcat
  <1>5. QED  BY <1>1, <1>3, <1>4 DEF s

\* Up to three groups of commands, one for each list element.
LEMMA CommandingThree ==
  ASSUME NEW n, NEW a, NEW b, NEW c, Commanding(a), Commanding(b), Commanding(c)
  PROVE  Commanding(a \o (IF n >= 2 THEN b ELSE <<>>) \o (IF n >= 3 THEN c ELSE <<>>))
  <1> DEFINE s == IF n >= 2 THEN b ELSE <<>>
             t == IF n >= 3 THEN c ELSE <<>>
  <1>1. Commanding(s) /\ Commanding(t)
    BY CommandingNone
  <1> HIDE DEF s, t
  <1>2. Commanding(a \o s)
    BY <1>1, CommandingConcat
  <1>3. Commanding(a \o s \o t)
    BY <1>1, <1>2, CommandingConcat
  <1>4. QED  BY <1>3 DEF s, t

\* The NFTs of a list.
LEMMA CommandingNfts ==
  ASSUME NEW d, NEW n
  PROVE  Commanding(AddnftTemplate(d, n)) /\ Commanding(RemnftTemplate(d, n))
  <1> DEFINE s == UpTo3(n, LAMBDA k : NftCommands(k, d.nfts[k]))
             t == UpTo3(n, LAMBDA k : SmallNftCommands(k, d.nfts[k]))
  <1>1. Commanding(s)
    BY CommandingNft, CommandingThree DEF UpTo3
  <1>2. Commanding(t)
    BY CommandingNft, CommandingThree DEF UpTo3
  <1>3. /\ AddnftTemplate(d, n) \in {<<>>, <<COMMAND_APPEND_CONST_DATA(1, n)>> \o s}
        /\ RemnftTemplate(d, n) \in {<<>>, <<COMMAND_APPEND_CONST_DATA(1, n)>> \o t}
    BY DEF AddnftTemplate, RemnftTemplate
  <1> HIDE DEF s, t
  <1>4. QED  BY <1>1, <1>2, <1>3, CommandingNone, CommandingCounted

\* The alternative that is taken is made of commands if all are.
LEMMA CommandingAlternative ==
  ASSUME NEW n \in Nat, NEW alternatives, DOMAIN alternatives = 1..n,
         \A i \in 1..n : Commanding(alternatives[i])
  PROVE  Commanding(templateAlternative(alternatives))
  <1>1. \/ templateAlternative(alternatives) = <<>>
        \/ \E i \in 1..n : templateAlternative(alternatives) = alternatives[i]
    BY Alternative
  <1>2. QED  BY <1>1, CommandingNone

-----------------------------------------------------------------------------
(* The templates one by one.                                               *)

\* The template of trnsfiopubky.
LEMMA Shape_trnsfiopubky == \A tx : Shaped(template_trnsfiopubky(tx), tx)
  <1> TAKE tx
  <1> DEFINE d == tx.actions[1].data
             auth == tx.actions[1].authorization[1]
             fields == <<ShownAny("Payee Pubkey", d.payee_public_key), Amount("Amount", d.amount),
                         MaxFee(d), Actor(d), Tpid(d)>>
  <1>1. ActionFields(fields, d.actor)
    BY Commanding5, InnerOfData, InnerFields DEF ActionFields
  <1>2. template_trnsfiopubky(tx)
          \in {<<>>, ActionCommands("fio.token", "trnsfiopubky", "Transfer FIO tokens", auth, fields)}
    BY DEF template_trnsfiopubky, Template
  <1> HIDE DEF fields
  <1>3. QED  BY <1>1, <1>2, TemplateShape

\* The template of remalladdr.
LEMMA Shape_remalladdr == \A tx : Shaped(template_remalladdr(tx), tx)
  <1> TAKE tx
  <1> DEFINE d == tx.actions[1].data
             auth == tx.actions[1].authorization[1]
             fields == <<FioHandle(d), MaxFee(d), Actor(d), Tpid(d)>>
  <1>1. ActionFields(fields, d.actor)
    BY Commanding4, InnerOfData, InnerFields DEF ActionFields
  <1>2. template_remalladdr(tx)
          \in {<<>>, ActionCommands("fio.address", "remalladdr", "Remove all public address mappings", auth, fields)}
    BY DEF template_remalladdr, Template
  <1> HIDE DEF fields
  <1>3. QED  BY <1>1, <1>2, TemplateShape

\* The template of addbundles.
LEMMA Shape_addbundles == \A tx : Shaped(template_addbundles(tx), tx)
  <1> TAKE tx
  <1> DEFINE d == tx.actions[1].data
             auth == tx.actions[1].authorization[1]
             fields == <<FioHandle(d), COMMAND_APPEND_DATA_UINT64_SHOW("Bundle sets", d.bundle_sets),
                         MaxFee(d), Tpid(d), Actor(d)>>
  <1>1. ActionFields(fields, d.actor)
    BY Commanding5, InnerOfData, InnerFields DEF ActionFields
  <1>2. template_addbundles(tx)
          \in {<<>>, ActionCommands("fio.address", "addbundles", "Add Bundles", auth, fields)}
    BY DEF template_addbundles, Template
  <1> HIDE DEF fields
  <1>3. QED  BY <1>1, <1>2, TemplateShape

\* The template of regaddress.
LEMMA Shape_regaddress == \A tx : Shaped(template_regaddress(tx), tx)
  <1> TAKE tx
  <1> DEFINE d == tx.actions[1].data
             auth == tx.actions[1].authorization[1]
             fields == <<FioHandle(d), ShownAny("Owner Pubkey", d.owner_fio_public_key), MaxFee(d),
                         Actor(d), Tpid(d)>>
  <1>1. ActionFields(fields, d.actor)
    BY Commanding5, InnerOfData, InnerFields DEF ActionFields
  <1>2. template_regaddress(tx)
          \in {<<>>, ActionCommands("fio.address", "regaddress", "Register FIO Crypto Handle", auth, fields)}
    BY DEF template_regaddress, Template
  <1> HIDE DEF fields
  <1>3. QED  BY <1>1, <1>2, TemplateShape

\* The template of xferaddress.
LEMMA Shape_xferaddress == \A tx : Shaped(template_xferaddress(tx), tx)
  <1> TAKE tx
  <1> DEFINE d == tx.actions[1].data
             auth == tx.actions[1].authorization[1]
             fields == <<FioHandle(d), ShownAny("Owner Pubkey", d.new_owner_fio_public_key), MaxFee(d),
                         Actor(d), Tpid(d)>>
  <1>1. ActionFields(fields, d.actor)
    BY Commanding5, InnerOfData, InnerFields DEF ActionFields
  <1>2. template_xferaddress(tx)
          \in {<<>>, ActionCommands("fio.address", "xferaddress", "Transfer FIO Crypto Handle", auth, fields)}
    BY DEF template_xferaddress, Template
  <1> HIDE DEF fields
  <1>3. QED  BY <1>1, <1>2, TemplateShape

\* The template of regdomain.
LEMMA Shape_regdomain == \A tx : Shaped(template_regdomain(tx), tx)
  <1> TAKE tx
  <1> DEFINE d == tx.actions[1].data
             auth == tx.actions[1].authorization[1]
             fields == <<FioDomain(d), ShownAny("Owner Pubkey", d.owner_fio_public_key), MaxFee(d),
                         Actor(d), Tpid(d)>>
  <1>1. ActionFields(fields, d.actor)
    BY Commanding5, InnerOfData, InnerFields DEF ActionFields
  <1>2. template_regdomain(tx)
          \in {<<>>, ActionCommands("fio.address", "regdomain", "Register FIO Domain", auth, fields)}
    BY DEF template_regdomain, Template
  <1> HIDE DEF fields
  <1>3. QED  BY <1>1, <1>2, TemplateShape

\* The template of renewdomain.
LEMMA Shape_renewdomain == \A tx : Shaped(template_renewdomain(tx), tx)
  <1> TAKE tx
  <1> DEFINE d == tx.actions[1].data
             auth == tx.actions[1].authorization[1]
             fields == <<FioDomain(d), MaxFee(d), Tpid(d), Actor(d)>>
  <1>1. ActionFields(fields, d.actor)
    BY Commanding4, InnerOfData, InnerFields DEF ActionFields
  <1>2. template_renewdomain(tx)
          \in {<<>>, ActionCommands("fio.address", "renewdomain", "Renew FIO domain", auth, fields)}
    BY DEF template_renewdomain, Template
  <1> HIDE DEF fields
  <1>3. QED  BY <1>1, <1>2, TemplateShape

\* The template of xferdomain.
LEMMA Shape_xferdomain == \A tx : Shaped(template_xferdomain(tx), tx)
  <1> TAKE tx
  <1> DEFINE d == tx.actions[1].data
             auth == tx.actions[1].authorization[1]
             fields == <<FioDomain(d), ShownAny("New owner Pubkey", d.new_owner_fio_public_key), MaxFee(d),
                         Actor(d), Tpid(d)>>
  <1>1. ActionFields(fields, d.actor)
    BY Commanding5, InnerOfData, InnerFields DEF ActionFields
  <1>2. template_xferdomain(tx)
          \in {<<>>, ActionCommands("fio.address", "xferdomain", "Transfer FIO Domain", auth, fields)}
    BY DEF template_xferdomain, Template
  <1> HIDE DEF fields
  <1>3. QED  BY <1>1, <1>2, TemplateShape

\* The template of remallnfts.
LEMMA Shape_remallnfts == \A tx : Shaped(template_remallnfts(tx), tx)
  <1> TAKE tx
  <1> DEFINE d == tx.actions[1].data
             auth == tx.actions[1].authorization[1]
             fields == <<FioHandle(d), MaxFee(d), Actor(d), Tpid(d)>>
  <1>1. ActionFields(fields, d.actor)
    BY Commanding4, InnerOfData, InnerFields DEF ActionFields
  <1>2. template_remallnfts(tx)
          \in {<<>>, ActionCommands("fio.address", "remallnfts", "Remove all nft mappings", auth, fields)}
    BY DEF template_remallnfts, Template
  <1> HIDE DEF fields
  <1>3. QED  BY <1>1, <1>2, TemplateShape

\* The template of stakefio.
LEMMA Shape_stakefio == \A tx : Shaped(template_stakefio(tx), tx)
  <1> TAKE tx
  <1> DEFINE d == tx.actions[1].data
             auth == tx.actions[1].authorization[1]
             fields == <<FioHandle(d), Amount("Amount", d.amount), MaxFee(d), Tpid(d), Actor(d)>>
  <1>1. ActionFields(fields, d.actor)
    BY Commanding5, InnerOfData, InnerFields DEF ActionFields
  <1>2. template_stakefio(tx)
          \in {<<>>, ActionCommands("fio.staking", "stakefio", "Stake FIO Tokens", auth, fields)}
    BY DEF template_stakefio, Template
  <1> HIDE DEF fields
  <1>3. QED  BY <1>1, <1>2, TemplateShape

\* The template of unstakefio.
LEMMA Shape_unstakefio == \A tx : Shaped(template_unstakefio(tx), tx)
  <1> TAKE tx
  <1> DEFINE d == tx.actions[1].data
             auth == tx.actions[1].authorization[1]
             fields == <<FioHandle(d), Amount("Amount", d.amount), MaxFee(d), Tpid(d), Actor(d)>>
  <1>1. ActionFields(fields, d.actor)
    BY Commanding5, InnerOfData, InnerFields DEF ActionFields
  <1>2. template_unstakefio(tx)
          \in {<<>>, ActionCommands("fio.staking", "unstakefio", "Unstake FIO Tokens", auth, fields)}
    BY DEF template_unstakefio, Template
  <1> HIDE DEF fields
  <1>3. QED  BY <1>1, <1>2, TemplateShape

\* The template of voteproxy.
LEMMA Shape_voteproxy == \A tx : Shaped(template_voteproxy(tx), tx)
  <1> TAKE tx
  <1> DEFINE d == tx.actions[1].data
             auth == tx.actions[1].authorization[1]
             fields == <<Shown("Proxy", d.proxy, 3, 64), FioHandle(d), Actor(d), MaxFee(d)>>
  <1>1. ActionFields(fields, d.actor)
    BY Commanding4, InnerOfData, InnerFields DEF ActionFields
  <1>2. template_voteproxy(tx)
          \in {<<>>, ActionCommands("eosio", "voteproxy", "Proxy votes", auth, fields)}
    BY DEF template_voteproxy, Template
  <1> HIDE DEF fields
  <1>3. QED  BY <1>1, <1>2, TemplateShape

\* The template of wrapdomain.
LEMMA Shape_wrapdomain == \A tx : Shaped(template_wrapdomain(tx), tx)
  <1> TAKE tx
  <1> DEFINE d == tx.actions[1].data
             auth == tx.actions[1].authorization[1]
             fields == <<FioDomain(d), Shown("Chain code", d.chain_code, 1, 10),
                         ShownAny("Public Address", d.public_address), Amount("Max oracle fee", d.max_oracle_fee),
                         MaxFee(d), Tpid(d), Actor(d)>>
  <1>1. ActionFields(fields, d.actor)
    BY Commanding7, InnerOfData, InnerFields DEF ActionFields
  <1>2. template_wrapdomain(tx)
          \in {<<>>, ActionCommands("fio.oracle", "wrapdomain", "Wrap FIO Domain", auth, fields)}
    BY DEF template_wrapdomain, Template
  <1> HIDE DEF fields
  <1>3. QED  BY <1>1, <1>2, TemplateShape

\* The template of wraptokens.
LEMMA Shape_wraptokens == \A tx : Shaped(template_wraptokens(tx), tx)
  <1> TAKE tx
  <1> DEFINE d == tx.actions[1].data
             auth == tx.actions[1].authorization[1]
             fields == <<Amount("Amount", d.amount), Shown("Chain code", d.chain_code, 1, 10),
                         ShownAny("Public Address", d.public_address), Amount("Max oracle fee", d.max_oracle_fee),
                         MaxFee(d), Tpid(d), Actor(d)>>
  <1>1. ActionFields(fields, d.actor)
    BY Commanding7, InnerOfData, InnerFields DEF ActionFields
  <1>2. template_wraptokens(tx)
          \in {<<>>, ActionCommands("fio.oracle", "wraptokens", "Wrap Tokens", auth, fields)}
    BY DEF template_wraptokens, Template
  <1> HIDE DEF fields
  <1>3. QED  BY <1>1, <1>2, TemplateShape

\* The template of newfundsreq.
LEMMA Shape_newfundsreq == \A tx : Shaped(template_newfundsreq(tx), tx)
  <1> TAKE tx
  <1> DEFINE d == tx.actions[1].data
             auth == tx.actions[1].authorization[1]
             parts == <<ShownAny("Payee Public Addr", d.payee_public_address),
                        ShownAny("Amount requested", d.amount), Shown("Chain code", d.chain_code, 1, 10),
                        Shown("Token code", d.token_code, 1, 10)>>
             fields == RequestFields(d, Content(d, parts, 296))
  <1>1. ActionFields(fields, d.actor)
    <2>1. Commanding(parts)
      BY InnerFields, Commanding4
    <2> HIDE DEF parts
    <2>2. QED  BY <2>1, CommandingContent, FieldsOfRequest
  <1>2. template_newfundsreq(tx)
          \in {<<>>, ActionCommands("fio.reqobt", "newfundsreq", "Request Funds", auth, fields)}
    BY DEF template_newfundsreq, Template
  <1> HIDE DEF fields
  <1>3. QED  BY <1>1, <1>2, TemplateShape

\* The template of recordopt.
LEMMA Shape_recordopt == \A tx : Shaped(template_recordopt(tx), tx)
  <1> TAKE tx
  <1> DEFINE d == tx.actions[1].data
             auth == tx.actions[1].authorization[1]
             parts == <<ShownAny("Payer Public Addr", d.payer_public_address),
                        ShownAny("Payee Public Addr", d.payee_public_address),
                        ShownAny("Amount requested", d.amount),
                        Shown("Chain code", d.chain_code, 1, 10), Shown("Token code", d.token_code, 1, 10),
                        ShownAny("Status", d.status), ShownAny("Obt ID", d.obt_id)>>
             id == <<COMMAND_APPEND_DATA_STRING_WITH_LENGTH_SHOW_IF_NON_EMPTY(
                       "Request ID", d.fio_request_id, 0, NO_MAX)>>
             request == RequestFields(d, Content(d, parts, 432))
             fields == RecordFields(d, RequestFields(d, Content(d, parts, 432)))
  <1>1. ActionFields(fields, d.actor)
    <2>1. Commanding(parts)
      BY InnerFields, Commanding7
    <2> HIDE DEF parts
    <2>2. ActionFields(request, d.actor)
      BY <2>1, CommandingContent, FieldsOfRequest
    <2> HIDE DEF request
    <2>3. Commanding(id)
      BY InnerFields, Commanding1
    <2>4. fields \in {Invalid, id \o request} /\ (request = Invalid => fields = Invalid)
      BY DEF RecordFields, request
    <2> HIDE DEF id, fields
    <2>5. CASE request = Invalid
      BY <2>4, <2>5 DEF ActionFields
    <2>6. CASE Commanding(request) /\ Ties(request, d.actor)
      <3>1. Commanding(id \o request) /\ Ties(id \o request, d.actor)
        BY <2>3, <2>6, CommandingConcat
      <3>2. QED  BY <2>4, <3>1 DEF ActionFields
    <2>7. QED  BY <2>2, <2>5, <2>6 DEF ActionFields
  <1>2. template_recordopt(tx)
          \in {<<>>, ActionCommands("fio.reqobt", "recordobt", "Record metadata", auth, fields)}
    BY DEF template_recordopt, Template
  <1> HIDE DEF fields
  <1>3. QED  BY <1>1, <1>2, TemplateShape

\* The template of addaddress.
LEMMA Shape_addaddress == \A tx : Shaped(template_addaddress(tx), tx)
  <1> TAKE tx
  <1> DEFINE d == tx.actions[1].data
             auth == tx.actions[1].authorization[1]
             alternatives == [n \in 1..5 |-> AddressTemplate(d, n)]
             chosen == templateAlternative(alternatives)
             fields == AddressFields(d, chosen)
  <1>1. ActionFields(fields, d.actor)
    <2>1. Commanding(chosen)
      <3>1. DOMAIN alternatives = 1..5 /\ \A i \in 1..5 : Commanding(alternatives[i])
        BY CommandingAddresses
      <3> HIDE DEF alternatives
      <3>2. QED  BY <3>1, CommandingAlternative
    <2> HIDE DEF chosen
    <2>2. fields \in {Invalid, <<FioHandle(d)>> \o chosen \o <<MaxFee(d), Actor(d), Tpid(d)>>}
      BY DEF AddressFields
    <2> HIDE DEF fields
    <2>3. QED  BY <2>1, <2>2, InnerOfData, FieldsAround DEF ActionFields
  <1>2. template_addaddress(tx)
          \in {<<>>, ActionCommands("fio.address", "addaddress", "Map public address", auth, fields)}
    BY DEF template_addaddress, Template
  <1> HIDE DEF fields
  <1>3. QED  BY <1>1, <1>2, TemplateShape

\* The template of remaddress.
LEMMA Shape_remaddress == \A tx : Shaped(template_remaddress(tx), tx)
  <1> TAKE tx
  <1> DEFINE d == tx.actions[1].data
             auth == tx.actions[1].authorization[1]
             alternatives == [n \in 1..5 |-> AddressTemplate(d, n)]
             chosen == templateAlternative(alternatives)
             fields == AddressFields(d, chosen)
  <1>1. ActionFields(fields, d.actor)
    <2>1. Commanding(chosen)
      <3>1. DOMAIN alternatives = 1..5 /\ \A i \in 1..5 : Commanding(alternatives[i])
        BY CommandingAddresses
      <3> HIDE DEF alternatives
      <3>2. QED  BY <3>1, CommandingAlternative
    <2> HIDE DEF chosen
    <2>2. fields \in {Invalid, <<FioHandle(d)>> \o chosen \o <<MaxFee(d), Actor(d), Tpid(d)>>}
      BY DEF AddressFields
    <2> HIDE DEF fields
    <2>3. QED  BY <2>1, <2>2, InnerOfData, FieldsAround DEF ActionFields
  <1>2. template_remaddress(tx)
          \in {<<>>, ActionCommands("fio.address", "remaddress", "Remove public address mappings", auth, fields)}
    BY DEF template_remaddress, Template
  <1> HIDE DEF fields
  <1>3. QED  BY <1>1, <1>2, TemplateShape

\* The template of addnft.
LEMMA Shape_addnft == \A tx : Shaped(template_addnft(tx), tx)
  <1> TAKE tx
  <1> DEFINE d == tx.actions[1].data
             auth == tx.actions[1].authorization[1]
             chosen == templateAlternative([n \in 1..3 |-> AddnftTemplate(d, n)])
             fields == NftFields(d, chosen)
  <1>1. ActionFields(fields, d.actor)
    <2>1. Commanding(chosen)
      BY CommandingNfts, CommandingAlternative
    <2> HIDE DEF chosen
    <2>2. fields \in {Invalid, <<FioHandle(d)>> \o chosen \o <<MaxFee(d), Actor(d), Tpid(d)>>}
      BY DEF NftFields
    <2> HIDE DEF fields
    <2>3. QED  BY <2>1, <2>2, InnerOfData, FieldsAround DEF ActionFields
  <1>2. template_addnft(tx)
          \in {<<>>, ActionCommands("fio.address", "addnft", "Map nfts", auth, fields)}
    BY DEF template_addnft, Template
  <1> HIDE DEF fields
  <1>3. QED  BY <1>1, <1>2, TemplateShape

\* The template of remnft.
LEMMA Shape_remnft == \A tx : Shaped(template_remnft(tx), tx)
  <1> TAKE tx
  <1> DEFINE d == tx.actions[1].data
             auth == tx.actions[1].authorization[1]
             chosen == templateAlternative([n \in 1..3 |-> RemnftTemplate(d, n)])
             fields == NftFields(d, chosen)
  <1>1. ActionFields(fields, d.actor)
    <2>1. Commanding(chosen)
      BY CommandingNfts, CommandingAlternative
    <2> HIDE DEF chosen
    <2>2. fields \in {Invalid, <<FioHandle(d)>> \o chosen \o <<MaxFee(d), Actor(d), Tpid(d)>>}
      BY DEF NftFields
    <2> HIDE DEF fields
    <2>3. QED  BY <2>1, <2>2, InnerOfData, FieldsAround DEF ActionFields
  <1>2. template_remnft(tx)
          \in {<<>>, ActionCommands("fio.address", "remnft", "Remove nft mappings", auth, fields)}
    BY DEF template_remnft, Template
  <1> HIDE DEF fields
  <1>3. QED  BY <1>1, <1>2, TemplateShape

\* The template of cancelfndreq.
LEMMA Shape_cancelfndreq == \A tx : Shaped(template_cancelfndreq(tx), tx)
  <1> TAKE tx
  <1> DEFINE d == tx.actions[1].data
             auth == tx.actions[1].authorization[1]
             a == <<ShownAny("Request ID", d.fio_request_id), MaxFee(d)>>
             b == <<Tpid(d)>>
             actor == SpelledActor(d)
             fields == a \o actor \o b
  <1>1. ActionFields(fields, d.actor)
    <2>1. Commanding(a)
      BY InnerFields, InnerOfData, Commanding2
    <2>2. Commanding(b)
      BY InnerOfData, Commanding1
    <2>3. Commanding(actor) /\ Ties(actor, d.actor)
      BY SpelledActorTied
    <2> HIDE DEF a, b, actor
    <2>4. Commanding(a \o actor) /\ Ties(a \o actor, d.actor)
      BY <2>1, <2>3, CommandingConcat
    <2>5. Commanding(fields) /\ Ties(fields, d.actor)
      BY <2>2, <2>4, CommandingConcat
    <2>6. QED  BY <2>5 DEF ActionFields
  <1>2. template_cancelfndreq(tx)
          \in {<<>>, ActionCommands("fio.reqobt", "cancelfndreq", "Cancel funds request", auth, fields)}
    BY DEF template_cancelfndreq, Template
  <1> HIDE DEF fields
  <1>3. QED  BY <1>1, <1>2, TemplateShape

\* The template of rejectfndreq.
LEMMA Shape_rejectfndreq == \A tx : Shaped(template_rejectfndreq(tx), tx)
  <1> TAKE tx
  <1> DEFINE d == tx.actions[1].data
             auth == tx.actions[1].authorization[1]
             a == <<ShownAny("Request ID", d.fio_request_id), MaxFee(d)>>
             b == <<Tpid(d)>>
             actor == SpelledActor(d)
             fields == a \o actor \o b
  <1>1. ActionFields(fields, d.actor)
    <2>1. Commanding(a)
      BY InnerFields, InnerOfData, Commanding2
    <2>2. Commanding(b)
      BY InnerOfData, Commanding1
    <2>3. Commanding(actor) /\ Ties(actor, d.actor)
      BY SpelledActorTied
    <2> HIDE DEF a, b, actor
    <2>4. Commanding(a \o actor) /\ Ties(a \o actor, d.actor)
      BY <2>1, <2>3, CommandingConcat
    <2>5. Commanding(fields) /\ Ties(fields, d.actor)
      BY <2>2, <2>4, CommandingConcat
    <2>6. QED  BY <2>5 DEF ActionFields
  <1>2. template_rejectfndreq(tx)
          \in {<<>>, ActionCommands("fio.reqobt", "rejectfndreq", "Reject funds request", auth, fields)}
    BY DEF template_rejectfndreq, Template
  <1> HIDE DEF fields
  <1>3. QED  BY <1>1, <1>2, TemplateShape

\* The template of setdomainpub.
LEMMA Shape_setdomainpub == \A tx : Shaped(template_setdomainpub(tx), tx)
  <1> TAKE tx
  <1> DEFINE d == tx.actions[1].data
             auth == tx.actions[1].authorization[1]
             alternatives == <<IsPublicTemplate(d, TRUE, "Public"),
                               IsPublicTemplate(d, FALSE, "Private")>>
             chosen == templateAlternative(alternatives)
             fields == <<FioDomain(d)>> \o chosen \o <<MaxFee(d), Actor(d), Tpid(d)>>
  <1>1. ActionFields(fields, d.actor)
    <2>1. Commanding(alternatives[1]) /\ Commanding(alternatives[2])
      BY InnerConst, InnerMessage, Commanding2, CommandingNone DEF IsPublicTemplate
    <2>2. DOMAIN alternatives = 1..2
      OBVIOUS
    <2> HIDE DEF alternatives
    <2>3. Commanding(chosen)
      <3>1. \A i \in 1..2 : Commanding(alternatives[i])
        BY <2>1
      <3>2. QED  BY <2>2, <3>1, CommandingAlternative
    <2> HIDE DEF chosen
    <2>4. QED  BY <2>3, InnerOfData, FieldsAround
  <1>2. template_setdomainpub(tx)
          \in {<<>>, ActionCommands("fio.address", "setdomainpub", "Set FIO Domain registration permission", auth, fields)}
    BY DEF template_setdomainpub, Template
  <1> HIDE DEF fields
  <1>3. QED  BY <1>1, <1>2, TemplateShape

\* The list of producers has to be one.
LEMMA Shape_voteproducer ==
  ASSUME NEW tx, NEW m \in Nat,
         tx.actions[1].name = ContractNameOf("voteproducer")
           => DOMAIN tx.actions[1].data.producers = 1..m
  PROVE  Shaped(template_voteproducer(tx), tx)
  <1> DEFINE d == tx.actions[1].data
             auth == tx.actions[1].authorization[1]
             chosen == templateAlternative([n \in DOMAIN d.producers |-> ProducerTemplate(d, n)])
             rest == <<FioHandle(d), Actor(d), MaxFee(d)>>
             fields == chosen \o rest
  <1>1. CASE tx.actions[1].name # ContractNameOf("voteproducer")
    <2>1. template_voteproducer(tx) = <<>>
      BY <1>1 DEF template_voteproducer, Template
    <2>2. QED  BY <2>1 DEF Shaped
  <1>2. CASE DOMAIN d.producers = 1..m
    <2>1. Commanding(chosen)
      BY <1>2, CommandingProducers, CommandingAlternative
    <2>2. Commanding(rest) /\ Ties(rest, d.actor)
      BY InnerOfData, Commanding3
    <2>3. template_voteproducer(tx)
            \in {<<>>, ActionCommands("eosio", "voteproducer", "Vote for FIO Block producers",
                                      auth, fields)}
      BY DEF template_voteproducer, Template
    <2> HIDE DEF chosen, rest
    <2>4. Commanding(fields) /\ Ties(fields, d.actor)
      BY <2>1, <2>2, CommandingConcat
    <2> HIDE DEF fields
    <2>5. QED  BY <2>3, <2>4, TemplateShape DEF ActionFields
  <1>3. QED  BY <1>1, <1>2

-----------------------------------------------------------------------------
(* The commands of a transaction.                                          *)

\* INIT first and FINISH last; the authorizer goes into register 1, and nothing
\* else goes into a register; after that some command is tied to the actor.
Opening(c) == c.command = "INIT" /\ c.p2 = 0 /\ c.expectedResponseLength = NoExpectation
Planned(P, action) ==
  /\ IsSeq(P) /\ Len(P) >= 10
  /\ Opening(P[1])
  /\ \A i \in DOMAIN P : i \in {1, 6, Len(P)} \/ Inner(P[i])
  /\ P[6] = COMMAND_STORE_VALUE(1, action.authorization[1].actor)
  /\ P[Len(P)] = COMMAND_FINISH
  /\ \E i \in DOMAIN P : i >= 7 /\ TiedTo(P[i], action.data.actor)

\* The commands around those of an action.
LEMMA AroundShape ==
  ASSUME NEW chainId, NEW path, NEW header, NEW action, NEW A,
         A \in {<<>>, Invalid} \/ ActionOf(A, action)
  PROVE  LET P == AroundAction(chainId, path, header, A)
         IN  P \in {<<>>, Invalid} \/ Planned(P, action)
  <1> DEFINE P == AroundAction(chainId, path, header, A)
             a == COMMAND_INIT(chainId, path)
             b == COMMAND_APPEND_DATA_BUFFER_DO_NOT_SHOW(header, 10, 10)
             c == COMMAND_APPEND_CONST_DATA(5, "one action")
             d == COMMAND_APPEND_CONST_DATA(33, "no extensions")
             e == COMMAND_FINISH
             head == <<a, b, c>>
             tail == <<d, e>>
             Q == head \o A
             R == Q \o tail
  <1>1. P \in {<<>>, Invalid, R} /\ (A \in {<<>>, Invalid} => P \in {<<>>, Invalid})
    BY DEF AroundAction
  <1>2. Opening(a) /\ Inner(b) /\ Inner(c) /\ Inner(d)
    <2>1. Opening(a)
      BY DEF Opening, COMMAND_INIT, defaultCommand
    <2>2. QED  BY <2>1, InnerConst, InnerFields
  <1> HIDE DEF a, b, c, d, e, P
  <1>3. /\ head \in Seq({a, b, c}) /\ DOMAIN head = 1..3 /\ Len(head) = 3
        /\ head[1] = a /\ head[2] = b /\ head[3] = c
    OBVIOUS
  <1>4. /\ tail \in Seq({d, e}) /\ DOMAIN tail = 1..2 /\ Len(tail) = 2
        /\ tail[1] = d /\ tail[2] = e
    OBVIOUS
  <1> HIDE DEF head, tail
  <1>5. IsSeq(head)
    BY <1>3, SeqOfElements
  <1>6. IsSeq(tail)
    BY <1>4, SeqOfElements
  <1>7. ASSUME ActionOf(A, action) PROVE Planned(R, action)
    <2>1. IsSeq(A)
      BY <1>7 DEF ActionOf
    <2>2. /\ IsSeq(Q) /\ Len(A) \in Nat /\ DOMAIN A = 1..Len(A)
          /\ Len(Q) = Len(head) + Len(A)
          /\ \A i \in 1..Len(head) : Q[i] = head[i]
          /\ \A i \in 1..Len(A) : Q[Len(head) + i] = A[i]
          /\ \A i \in 1..Len(head) + Len(A) :
               i \in 1..Len(head) \/ (i - Len(head) \in 1..Len(A) /\ Q[i] = A[i - Len(head)])
      BY <1>5, <2>1, Concatenated
    <2> HIDE DEF Q
    <2>3. /\ IsSeq(R) /\ Len(R) = Len(Q) + Len(tail) /\ DOMAIN R = 1..Len(Q) + Len(tail)
          /\ \A i \in 1..Len(Q) : R[i] = Q[i]
          /\ \A i \in 1..Len(tail) : R[Len(Q) + i] = tail[i]
          /\ \A i \in 1..Len(Q) + Len(tail) :
               i \in 1..Len(Q) \/ (i - Len(Q) \in 1..Len(tail) /\ R[i] = tail[i - Len(Q)])
      BY <1>6, <2>2, Concatenated
    <2> HIDE DEF R
    <2>4. /\ Len(R) = 5 + Len(A) /\ DOMAIN R = 1..Len(R) /\ Len(A) >= 5
          /\ Len(A) \in Nat /\ DOMAIN A = 1..Len(A)
      BY <1>3, <1>4, <1>7, <2>2, <2>3 DEF ActionOf
    <2>5. /\ R[1] = a /\ R[2] = b /\ R[3] = c /\ R[4 + Len(A)] = d /\ R[5 + Len(A)] = e
          /\ \A i \in 1..Len(A) : R[3 + i] = A[i]
      <3>1. Q[1] = a /\ Q[2] = b /\ Q[3] = c /\ \A i \in 1..Len(A) : Q[3 + i] = A[i]
        BY <1>3, <2>2
      <3>2. Len(Q) = 3 + Len(A) /\ \A i \in 1..3 + Len(A) : R[i] = Q[i]
        BY <1>3, <2>2, <2>3
      <3>3. R[4 + Len(A)] = d /\ R[5 + Len(A)] = e
        BY <1>4, <2>3, <2>4, <3>2
      <3>4. QED  BY <2>4, <3>1, <3>2, <3>3
    <2>6. \A i \in DOMAIN R : i \in {1, 6, Len(R)} \/ Inner(R[i])
      <3> TAKE i \in DOMAIN R
      <3>1. \/ i \in {1, 2, 3, 4 + Len(A), 5 + Len(A)}
            \/ \E j \in 1..Len(A) : i = 3 + j
        <4>1. i \in {1, 2, 3, 4 + Len(A), 5 + Len(A)} \/ i - 3 \in 1..Len(A)
          BY <2>4
        <4>2. i = 3 + (i - 3)
          BY <2>4
        <4>3. QED  BY <4>1, <4>2
      <3>2. CASE i \in {1, 2, 3, 4 + Len(A), 5 + Len(A)}
        BY <1>2, <2>4, <2>5, <3>2
      <3>3. ASSUME NEW j \in 1..Len(A), i = 3 + j PROVE i = 6 \/ Inner(R[i])
        BY <1>7, <2>4, <2>5, <3>3 DEF ActionOf
      <3>4. QED  BY <3>1, <3>2, <3>3
    <2>7. R[6] = COMMAND_STORE_VALUE(1, action.authorization[1].actor)
      <3>1. R[3 + 3] = A[3]
        BY <2>4, <2>5
      <3>2. QED  BY <1>7, <3>1 DEF ActionOf
    <2>8. \E i \in DOMAIN R : i >= 7 /\ TiedTo(R[i], action.data.actor)
      <3>1. PICK j \in DOMAIN A : j >= 4 /\ TiedTo(A[j], action.data.actor)
        BY <1>7 DEF ActionOf
      <3>2. 3 + j \in DOMAIN R /\ 3 + j >= 7 /\ R[3 + j] = A[j]
        BY <2>4, <2>5, <3>1
      <3>3. QED  BY <3>1, <3>2
    <2>9. Len(R) >= 10 /\ Opening(R[1]) /\ R[Len(R)] = COMMAND_FINISH
      BY <1>2, <2>4, <2>5 DEF e
    <2>10. QED  BY <2>3, <2>6, <2>7, <2>8, <2>9 DEF Planned
  <1>8. QED  BY <1>1, <1>7 DEF P

\* What any transaction is compiled to.
LEMMA PlanShape ==
  ASSUME NEW chainId, NEW tx, NEW path, NEW m \in Nat,
         tx.actions[1].name = ContractNameOf("voteproducer")
           => DOMAIN tx.actions[1].data.producers = 1..m
  PROVE  LET P == templete_all(chainId, tx, path)
         IN  P \in {<<>>, Invalid} \/ Planned(P, tx.actions[1])
  <1> DEFINE alternatives ==
               <<template_trnsfiopubky(tx), template_newfundsreq(tx),
                 template_recordopt(tx), template_addaddress(tx),
                 template_remaddress(tx), template_addnft(tx), template_remnft(tx),
                 template_remalladdr(tx), template_cancelfndreq(tx),
                 template_rejectfndreq(tx), template_addbundles(tx),
                 template_regaddress(tx), template_xferaddress(tx),
                 template_regdomain(tx), template_renewdomain(tx),
                 template_setdomainpub(tx), template_xferdomain(tx),
                 template_remallnfts(tx), template_stakefio(tx),
                 template_unstakefio(tx), template_voteproducer(tx),
                 template_voteproxy(tx), template_wrapdomain(tx),
                 template_wraptokens(tx)>>
  <1>1. DOMAIN alternatives = 1..24
    OBVIOUS
  <1>2. \A i \in 1..24 : Shaped(alternatives[i], tx)
    BY Shape_trnsfiopubky, Shape_newfundsreq, Shape_recordopt, Shape_addaddress,
       Shape_remaddress, Shape_addnft, Shape_remnft, Shape_remalladdr,
       Shape_cancelfndreq, Shape_rejectfndreq, Shape_addbundles, Shape_regaddress,
       Shape_xferaddress, Shape_regdomain, Shape_renewdomain, Shape_setdomainpub,
       Shape_xferdomain, Shape_remallnfts, Shape_stakefio, Shape_unstakefio,
       Shape_voteproducer, Shape_voteproxy, Shape_wrapdomain, Shape_wraptokens
  <1>3. templete_all(chainId, tx, path)
          = AroundAction(chainId, path, HeaderOf(tx), templateAlternative(alternatives))
    BY DEF templete_all
  <1> HIDE DEF alternatives
  <1>4. Shaped(templateAlternative(alternatives), tx)
    <2>1. \/ templateAlternative(alternatives) = <<>>
          \/ \E i \in 1..24 : templateAlternative(alternatives) = alternatives[i]
      BY <1>1, Alternative
    <2>2. QED  BY <1>2, <2>1 DEF Shaped
  <1>5. QED  BY <1>3, <1>4, AroundShape DEF Shaped

-----------------------------------------------------------------------------
(* What the parsers read, and what they make of it.                        *)

\* The data of an action has properties of these types, whichever action it is
\* for.
Scalar == string \cup hexString \cup bigint_like \cup flag \cup {Undefined}
ActionData == {a.data : a \in Action}
Readable(d) ==
  /\ \A f \in PropertyNames \ Lists : d[f] \in Scalar
  /\ d.producers \in Seq(string)
  /\ d.public_addresses \in Seq(PublicAddress)
  /\ d.nfts \in Seq(NFT) \cup Seq(SmallNFT)

\* Every property of the data of a request is a scalar or a list of the kind the parser reads.
LEMMA TypesOfData ==
  ASSUME NEW o, \E a \in Action : o = a.data
  PROVE  /\ \A f \in DOMAIN o \ Lists : o[f] \in Scalar
         /\ "producers" \in DOMAIN o => o.producers \in Seq(string)
         /\ "public_addresses" \in DOMAIN o => o.public_addresses \in Seq(PublicAddress)
         /\ "nfts" \in DOMAIN o => o.nfts \in Seq(NFT) \cup Seq(SmallNFT)
  <1>1. /\ string \subseteq Scalar /\ bigint_like \subseteq Scalar /\ hexString \subseteq Scalar
        /\ flag \subseteq Scalar /\ optional(string) \subseteq Scalar
    BY DEF Scalar, optional
  <1>2. CASE o \in TransferFIOTokensData
    BY <1>1, <1>2 DEF Lists, TransferFIOTokensData, TransferFIOTokens
  <1>3. CASE o \in RequestFundsData
    BY <1>1, <1>3 DEF Lists, RequestFundsData, Obt
  <1>4. CASE o \in RecordOtherBlockchainTransactionMetadata
    BY <1>1, <1>4 DEF Lists, RecordOtherBlockchainTransactionMetadata, RecordedObt
  <1>5. CASE o \in MapBlockchainPublicAddress
    BY <1>1, <1>5 DEF Lists, MapBlockchainPublicAddress, Mapped, PublicAddress
  <1>6. CASE o \in RemoveMappedAddress
    BY <1>1, <1>6 DEF Lists, RemoveMappedAddress, Mapped, PublicAddress
  <1>7. CASE o \in MapNFTSignature
    BY <1>1, <1>7 DEF Lists, MapNFTSignature, Nfts
  <1>8. CASE o \in RemoveNFTSignature
    BY <1>1, <1>8 DEF Lists, RemoveNFTSignature, Nfts
  <1>9. CASE o \in RemoveAllMappedAddresses
    BY <1>1, <1>9 DEF Lists, RemoveAllMappedAddresses, Handle
  <1>10. CASE o \in CancelFundsRequest
    BY <1>1, <1>10 DEF Lists, CancelFundsRequest, Request
  <1>11. CASE o \in RejectFundsRequest
    BY <1>1, <1>11 DEF Lists, RejectFundsRequest, Request
  <1>12. CASE o \in BuyBundledTransaction
    BY <1>1, <1>12 DEF Lists, BuyBundledTransaction, Bundles
  <1>13. CASE o \in RegisterAddress
    BY <1>1, <1>13 DEF Lists, RegisterAddress, Owned
  <1>14. CASE o \in TransferAddress
    BY <1>1, <1>14 DEF Lists, TransferAddress, NewOwner
  <1>15. CASE o \in RegisterDomain
    BY <1>1, <1>15 DEF Lists, RegisterDomain, OwnedDomain
  <1>16. CASE o \in RenewDomain
    BY <1>1, <1>16 DEF Lists, RenewDomain, Domain
  <1>17. CASE o \in MakeDomainPublic
    BY <1>1, <1>17 DEF Lists, MakeDomainPublic, PublicDomain
  <1>18. CASE o \in TransferDomain
    BY <1>1, <1>18 DEF Lists, TransferDomain, NewDomainOwner
  <1>19. CASE o \in RemoveAllNFT
    BY <1>1, <1>19 DEF Lists, RemoveAllNFT, Handle
  <1>20. CASE o \in StakeFIO
    BY <1>1, <1>20 DEF Lists, StakeFIO, Staked
  <1>21. CASE o \in UnstakeFIO
    BY <1>1, <1>21 DEF Lists, UnstakeFIO, Staked
  <1>22. CASE o \in VoteOnBlockProducers
    BY <1>1, <1>22 DEF Lists, VoteOnBlockProducers, Voted
  <1>23. CASE o \in ProxyVotesToRegisteredProxy
    BY <1>1, <1>23 DEF Lists, ProxyVotesToRegisteredProxy, Proxied
  <1>24. CASE o \in WrapDomain
    BY <1>1, <1>24 DEF Lists, WrapDomain, WrappedDomain
  <1>25. CASE o \in WrapTokens
    BY <1>1, <1>25 DEF Lists, WrapTokens, WrappedTokens
  <1>26. QED
    <2>1. \/ o \in TransferFIOTokensData
          \/ o \in RequestFundsData
          \/ o \in RecordOtherBlockchainTransactionMetadata
          \/ o \in MapBlockchainPublicAddress
          \/ o \in RemoveMappedAddress
          \/ o \in MapNFTSignature
          \/ o \in RemoveNFTSignature
          \/ o \in RemoveAllMappedAddresses
          \/ o \in CancelFundsRequest
          \/ o \in RejectFundsRequest
          \/ o \in BuyBundledTransaction
          \/ o \in RegisterAddress
          \/ o \in TransferAddress
          \/ o \in RegisterDomain
          \/ o \in RenewDomain
          \/ o \in MakeDomainPublic
          \/ o \in TransferDomain
          \/ o \in RemoveAllNFT
          \/ o \in StakeFIO
          \/ o \in UnstakeFIO
          \/ o \in VoteOnBlockProducers
          \/ o \in ProxyVotesToRegisteredProxy
          \/ o \in WrapDomain
          \/ o \in WrapTokens
      BY DEF Action
    <2>2. QED  BY <2>1, <1>2, <1>3, <1>4, <1>5, <1>6, <1>7, <1>8, <1>9, <1>10, <1>11, <1>12, 
                 <1>13, <1>14, <1>15, <1>16, <1>17, <1>18, <1>19, <1>20, <1>21, <1>22, 
                 <1>23, <1>24, <1>25

\* An element of a sequence over a set.
LEMMA SeqElement ==
  ASSUME NEW S, NEW t \in Seq(S), NEW i \in DOMAIN t
  PROVE  t[i] \in S
  OBVIOUS

\* A function on an interval is a sequence.
LEMMA SeqFunction ==
  ASSUME NEW n \in Nat, NEW S, NEW t \in [1..n -> S]
  PROVE  t \in Seq(S)
  OBVIOUS

\* A sequence over a set is one over any larger set.
LEMMA SeqWider ==
  ASSUME NEW S, NEW T, S \subseteq T, NEW t \in Seq(S)
  PROVE  t \in Seq(T)
  <1>1. t = [i \in 1..Len(t) |-> t[i]] /\ Len(t) \in Nat /\ \A i \in 1..Len(t) : t[i] \in T
    OBVIOUS
  <1>2. QED  BY <1>1

\* A property that is missing is undefined, and a list that is missing empty.
ScalarsOf(d) == \A f \in PropertyNames \ Lists : d[f] \in Scalar
\* Properties outside of the lists are scalars.
LEMMA ScalarProperties ==
  ASSUME NEW o, \A f \in DOMAIN o \ Lists : o[f] \in Scalar
  PROVE  ScalarsOf(Properties(o))
  BY DEF ScalarsOf, Properties, Scalar

\* The parsers may read any property of any data.
LEMMA ReadProperties ==
  ASSUME NEW o, \E a \in Action : o = a.data
  PROVE  Readable(Properties(o))
  <1> DEFINE d == Properties(o)
  <1>1. \A f \in PropertyNames \ Lists : d[f] \in Scalar
    BY TypesOfData, ScalarProperties DEF ScalarsOf
  <1>2. /\ d.producers = IF "producers" \in DOMAIN o THEN o.producers ELSE <<>>
        /\ d.nfts = IF "nfts" \in DOMAIN o THEN o.nfts ELSE <<>>
        /\ d.public_addresses = IF "public_addresses" \in DOMAIN o THEN o.public_addresses
                                                                  ELSE <<>>
    BY DEF Properties, PropertyNames, Lists
  <1> HIDE DEF d
  <1>3. d.producers \in Seq(string)
    BY <1>2, TypesOfData
  <1>4. d.public_addresses \in Seq(PublicAddress)
    BY <1>2, TypesOfData
  <1>5. d.nfts \in Seq(NFT) \cup Seq(SmallNFT)
    BY <1>2, TypesOfData
  <1>6. QED  BY <1>1, <1>3, <1>4, <1>5 DEF Readable, d

\* The parsers of single values.
LEMMA ParsedScalars ==
  ASSUME NEW v \in Scalar
  PROVE  /\ \A min, max : parseAscii(v, min, max) \in VarlenAsciiString \cup {Invalid}
         /\ parseText(v) \in VarlenAsciiString \cup {Invalid}
         /\ parseOptional(v) \in optional(VarlenAsciiString) \cup {Invalid}
         /\ parseNameString(v) \in NameString \cup {Invalid}
         /\ \A min, max : parseHexString(v, min, max) \in HexString \cup {Invalid}
         /\ parseUint64_str(v) \in Uint64_str \cup {Invalid}
         /\ parseBoolean(v) \in BOOLEAN \cup {Invalid}
  <1>1. /\ v.kind \in {"text", "date"} => v \in string
        /\ v.kind = "hex" => v \in Of({"hex"})
        /\ v.kind = "number" => v \in Of({"number"})
    <2>1. flag \subseteq Of({"flag"}) \cup Of({"number"}) \cup {Text(0)}
      BY DEF flag, bigint_like
    <2>2. v \in string \/ v \in Of({"hex"}) \/ v \in Of({"number"}) \/ v \in Of({"flag"})
          \/ v = Undefined \/ v = Text(0)
      BY <2>1 DEF Scalar, hexString, bigint_like
    <2>3. Text(0) \in string
      <3>1. <<>> \in Seq(NAME_SYMBOLS)
        OBVIOUS
      <3>2. QED  BY <3>1 DEF Text, Value, string
    <2>4. QED  BY <2>2, <2>3 DEF string, Undefined, Value, Of
  <1>2. \A min, max : parseAscii(v, min, max) \in VarlenAsciiString \cup {Invalid}
    <2> SUFFICES ASSUME v \in string PROVE [v EXCEPT !.kind = "text"] \in VarlenAsciiString
      BY <1>1 DEF parseAscii
    <2>1. v.content \in Seq(Nat)
      <3>1. v.content \in Seq(NAME_SYMBOLS) /\ NAME_SYMBOLS \subseteq Nat
        BY DEF string, NAME_SYMBOLS
      <3>2. QED  BY <3>1, SeqWider
    <2>2. QED  BY <2>1 DEF string, VarlenAsciiString, Of
  <1>3. parseText(v) \in VarlenAsciiString \cup {Invalid}
    BY <1>2 DEF parseText
  <1>4. parseOptional(v) \in optional(VarlenAsciiString) \cup {Invalid}
    BY <1>3 DEF parseOptional, optional
  <1>5. parseNameString(v) \in NameString \cup {Invalid}
    <2> DEFINE c == [i \in 1..MAX_NAME_STRING_LENGTH |->
                       IF i \in DOMAIN v.content THEN charToSymbol(v.content[i]) ELSE 0]
    <2>1. CASE ~isNameString(v)
      BY <2>1 DEF parseNameString
    <2>2. CASE isNameString(v)
      <3>1. v.content \in Seq(NAME_SYMBOLS)
        BY <2>2 DEF isNameString, string
      <3>2. c \in [1..12 -> 0..31]
        <4>1. ASSUME NEW i \in DOMAIN v.content PROVE charToSymbol(v.content[i]) \in 0..31
          <5>1. v.content[i] \in NAME_SYMBOLS
            BY <3>1, SeqElement
          <5>2. QED  BY <5>1 DEF charToSymbol, NAME_SYMBOLS
        <4>2. QED  BY <4>1 DEF MAX_NAME_STRING_LENGTH
      <3>3. parseNameString(v) = Value("name", 8, c)
        BY <2>2 DEF parseNameString
      <3> HIDE DEF c
      <3>4. c \in Seq(0..31)
        BY <3>2, SeqFunction
      <3>5. c \in Seq(Nat)
        BY <3>4, SeqWider
      <3>6. QED  BY <3>3, <3>4, <3>5 DEF NameString, Of, Value
    <2>3. QED  BY <2>1, <2>2
  <1>6. \A min, max : parseHexString(v, min, max) \in HexString \cup {Invalid}
    BY <1>1 DEF parseHexString, HexString
  <1>7. parseUint64_str(v) \in Uint64_str \cup {Invalid}
    BY <1>1 DEF parseUint64_str, isWidth, Uint64_str, Of
  <1>8. parseBoolean(v) \in BOOLEAN \cup {Invalid}
    BY DEF parseBoolean
  <1>9. QED  BY <1>2, <1>3, <1>4, <1>5, <1>6, <1>7, <1>8

\* Those of the data of an action, but for lists.
LEMMA ParsedData ==
  ASSUME NEW d, ScalarsOf(d)
  PROVE  /\ parseActionDataTransferFIOToken(d) \in ParsedTransferFIOTokensData \cup {Invalid}
         /\ parseActionDataRequestFunds(d) \in ParsedRequestFundsData \cup {Invalid}
         /\ parseActionDataRecordOtherBlockchainTransactionMetadata(d) \in ParsedRecordOtherBlockchainTransactionMetadata \cup {Invalid}
         /\ parseRemoveAllMappedAddresses(d) \in ParsedRemoveAllMappedAddresses \cup {Invalid}
         /\ parseCancelRequestFunds(d) \in ParsedCancelFundsRequest \cup {Invalid}
         /\ parseRejectRequestFunds(d) \in ParsedRejectFundsRequest \cup {Invalid}
         /\ parseBuyBundledTransaction(d) \in ParsedBuyBundledTransaction \cup {Invalid}
         /\ parseRegisterAddress(d) \in ParsedRegisterAddress \cup {Invalid}
         /\ parseTransferAddress(d) \in ParsedTransferAddress \cup {Invalid}
         /\ parseRegisterDomain(d) \in ParsedRegisterDomain \cup {Invalid}
         /\ parseRenewDomain(d) \in ParsedRenewDomain \cup {Invalid}
         /\ parseMakeDomainPublic(d) \in ParsedMakeDomainPublic \cup {Invalid}
         /\ parseTransferDomain(d) \in ParsedTransferDomain \cup {Invalid}
         /\ parseRemoveAllNFT(d) \in ParsedRemoveAllNFT \cup {Invalid}
         /\ parseStakeFIO(d) \in ParsedStakeFIO \cup {Invalid}
         /\ parseUnstakeFIO(d) \in ParsedUnstakeFIO \cup {Invalid}
         /\ parseProxyVotesToRegisteredProxy(d) \in ParsedProxyVotesToRegisteredProxy \cup {Invalid}
         /\ parseWrapDomain(d) \in ParsedWrapDomain \cup {Invalid}
         /\ parseWrapTokens(d) \in ParsedWrapTokens \cup {Invalid}
  <1> USE DEF ScalarsOf, PropertyNames, Lists, Parsed
  <1>1. parseActionDataTransferFIOToken(d) \in ParsedTransferFIOTokensData \cup {Invalid}
    BY ParsedScalars DEF parseActionDataTransferFIOToken, ParsedTransferFIOTokensData, TransferFIOTokens
  <1>2. parseActionDataRequestFunds(d) \in ParsedRequestFundsData \cup {Invalid}
    BY ParsedScalars DEF parseActionDataRequestFunds, ParsedRequestFundsData, Obt
  <1>3. parseActionDataRecordOtherBlockchainTransactionMetadata(d) \in ParsedRecordOtherBlockchainTransactionMetadata \cup {Invalid}
    BY ParsedScalars DEF parseActionDataRecordOtherBlockchainTransactionMetadata, ParsedRecordOtherBlockchainTransactionMetadata, RecordedObt
  <1>4. parseRemoveAllMappedAddresses(d) \in ParsedRemoveAllMappedAddresses \cup {Invalid}
    BY ParsedScalars DEF parseRemoveAllMappedAddresses, ParsedRemoveAllMappedAddresses, Handle
  <1>5. parseCancelRequestFunds(d) \in ParsedCancelFundsRequest \cup {Invalid}
    BY ParsedScalars DEF parseCancelRequestFunds, ParsedCancelFundsRequest, Request
  <1>6. parseRejectRequestFunds(d) \in ParsedRejectFundsRequest \cup {Invalid}
    BY ParsedScalars DEF parseRejectRequestFunds, ParsedRejectFundsRequest, Request
  <1>7. parseBuyBundledTransaction(d) \in ParsedBuyBundledTransaction \cup {Invalid}
    BY ParsedScalars DEF parseBuyBundledTransaction, ParsedBuyBundledTransaction, Bundles
  <1>8. parseRegisterAddress(d) \in ParsedRegisterAddress \cup {Invalid}
    BY ParsedScalars DEF parseRegisterAddress, ParsedRegisterAddress, Owned
  <1>9. parseTransferAddress(d) \in ParsedTransferAddress \cup {Invalid}
    BY ParsedScalars DEF parseTransferAddress, ParsedTransferAddress, NewOwner
  <1>10. parseRegisterDomain(d) \in ParsedRegisterDomain \cup {Invalid}
    BY ParsedScalars DEF parseRegisterDomain, ParsedRegisterDomain, OwnedDomain
  <1>11. parseRenewDomain(d) \in ParsedRenewDomain \cup {Invalid}
    BY ParsedScalars DEF parseRenewDomain, ParsedRenewDomain, Domain
  <1>12. parseMakeDomainPublic(d) \in ParsedMakeDomainPublic \cup {Invalid}
    BY ParsedScalars DEF parseMakeDomainPublic, ParsedMakeDomainPublic, PublicDomain
  <1>13. parseTransferDomain(d) \in ParsedTransferDomain \cup {Invalid}
    BY ParsedScalars DEF parseTransferDomain, ParsedTransferDomain, NewDomainOwner
  <1>14. parseRemoveAllNFT(d) \in ParsedRemoveAllNFT \cup {Invalid}
    BY ParsedScalars DEF parseRemoveAllNFT, ParsedRemoveAllNFT, Handle
  <1>15. parseStakeFIO(d) \in ParsedStakeFIO \cup {Invalid}
    BY ParsedScalars DEF parseStakeFIO, ParsedStakeFIO, Staked
  <1>16. parseUnstakeFIO(d) \in ParsedUnstakeFIO \cup {Invalid}
    BY ParsedScalars DEF parseUnstakeFIO, ParsedUnstakeFIO, Staked
  <1>17. parseProxyVotesToRegisteredProxy(d) \in ParsedProxyVotesToRegisteredProxy \cup {Invalid}
    BY ParsedScalars DEF parseProxyVotesToRegisteredProxy, ParsedProxyVotesToRegisteredProxy, Proxied
  <1>18. parseWrapDomain(d) \in ParsedWrapDomain \cup {Invalid}
    BY ParsedScalars DEF parseWrapDomain, ParsedWrapDomain, WrappedDomain
  <1>19. parseWrapTokens(d) \in ParsedWrapTokens \cup {Invalid}
    BY ParsedScalars DEF parseWrapTokens, ParsedWrapTokens, WrappedTokens
  <1>20. QED  BY <1>1, <1>2, <1>3, <1>4, <1>5, <1>6, <1>7, <1>8, <1>9, <1>10,
                  <1>11, <1>12, <1>13, <1>14, <1>15, <1>16, <1>17, <1>18, <1>19

\* Lists, element by element.
LEMMA ParsedLists ==
  ASSUME NEW S, NEW n \in Nat, NEW t, t = [i \in 1..n |-> t[i]],
         \A i \in 1..n : t[i] \in S \cup {Invalid}
  PROVE  /\ ParsedAll(t) \in Seq(S) \cup {Invalid}
         /\ ParsedAll(t) # Invalid => ParsedAll(t) = t
  <1>1. DOMAIN t = 1..n
    OBVIOUS
  <1>2. ParsedAll(t) = IF \E i \in 1..n : t[i] = Invalid THEN Invalid ELSE t
    BY <1>1 DEF ParsedAll, Parsed
  <1>3. CASE \E i \in 1..n : t[i] = Invalid
    BY <1>2, <1>3
  <1>4. CASE ~ \E i \in 1..n : t[i] = Invalid
    <2>1. t \in [1..n -> S]
      BY <1>4
    <2>2. t \in Seq(S)
      BY <2>1, SeqFunction
    <2>3. QED  BY <1>2, <1>4, <2>2
  <1>5. QED  BY <1>3, <1>4

\* The properties of an element of a list are scalars.
LEMMA ScalarsOfElements ==
  ASSUME NEW e \in PublicAddress \cup NFT \cup SmallNFT
  PROVE  ScalarsOf(Properties(e))
  <1>1. string \subseteq Scalar
    BY DEF Scalar
  <1>2. CASE e \in PublicAddress
    BY <1>1, <1>2, ScalarProperties DEF PublicAddress, Address
  <1>3. CASE e \in NFT
    BY <1>1, <1>3, ScalarProperties DEF NFT, Nft
  <1>4. CASE e \in SmallNFT
    BY <1>1, <1>4, ScalarProperties DEF SmallNFT, NftId
  <1>5. QED  BY <1>2, <1>3, <1>4

\* An element of a list that is parsed has its parsed type.
LEMMA ParsedElements ==
  ASSUME NEW d, ScalarsOf(d)
  PROVE  /\ parsePublicAddress(d) \in ParsedPublicAddress \cup {Invalid}
         /\ parseNFT(d) \in ParsedNFT \cup {Invalid}
         /\ parseSmallNFT(d) \in ParsedSmallNFT \cup {Invalid}
  <1> USE DEF ScalarsOf, PropertyNames, Lists, Parsed
  <1>1. parsePublicAddress(d) \in ParsedPublicAddress \cup {Invalid}
    BY ParsedScalars DEF parsePublicAddress, ParsedPublicAddress, Address
  <1>2. parseNFT(d) \in ParsedNFT \cup {Invalid}
    BY ParsedScalars DEF parseNFT, ParsedNFT, Nft
  <1>3. parseSmallNFT(d) \in ParsedSmallNFT \cup {Invalid}
    BY ParsedScalars DEF parseSmallNFT, ParsedSmallNFT, NftId
  <1>4. QED  BY <1>1, <1>2, <1>3

\* A list of public addresses.
LEMMA ParsedAddressList ==
  ASSUME NEW s \in Seq(PublicAddress)
  PROVE  parsePublicAddsesses(s) \in Seq(ParsedPublicAddress) \cup {Invalid}
  <1> DEFINE t == [i \in 1..Len(s) |-> parsePublicAddress(Properties(s[i]))]
  <1>1. Len(s) \in Nat /\ DOMAIN s = 1..Len(s)
    BY SeqOfElements
  <1>2. parsePublicAddsesses(s) \in {Invalid, ParsedAll(t)}
    BY <1>1 DEF parsePublicAddsesses
  <1>3. t = [i \in 1..Len(s) |-> t[i]] /\ \A i \in 1..Len(s) : t[i] \in ParsedPublicAddress \cup {Invalid}
    <2>1. ASSUME NEW i \in 1..Len(s) PROVE s[i] \in PublicAddress
      BY <1>1
    <2>2. QED  BY <2>1, ScalarsOfElements, ParsedElements
  <1> HIDE DEF t
  <1>4. QED  BY <1>1, <1>2, <1>3, ParsedLists

\* A list of NFTs.
LEMMA ParsedNftList ==
  ASSUME NEW s \in Seq(NFT) \cup Seq(SmallNFT)
  PROVE  parseNFTs(s) \in Seq(ParsedNFT) \cup {Invalid}
  <1> DEFINE t == [i \in 1..Len(s) |-> parseNFT(Properties(s[i]))]
  <1>1. Len(s) \in Nat /\ DOMAIN s = 1..Len(s)
    BY SeqOfElements
  <1>2. parseNFTs(s) \in {Invalid, ParsedAll(t)}
    BY <1>1 DEF parseNFTs
  <1>3. t = [i \in 1..Len(s) |-> t[i]] /\ \A i \in 1..Len(s) : t[i] \in ParsedNFT \cup {Invalid}
    <2>1. ASSUME NEW i \in 1..Len(s) PROVE s[i] \in NFT \cup SmallNFT
      BY <1>1
    <2>2. QED  BY <2>1, ScalarsOfElements, ParsedElements
  <1> HIDE DEF t
  <1>4. QED  BY <1>1, <1>2, <1>3, ParsedLists

\* A list of NFTs to remove.
LEMMA ParsedSmallNftList ==
  ASSUME NEW s \in Seq(NFT) \cup Seq(SmallNFT)
  PROVE  parseSmallNFTs(s) \in Seq(ParsedSmallNFT) \cup {Invalid}
  <1> DEFINE t == [i \in 1..Len(s) |-> parseSmallNFT(Properties(s[i]))]
  <1>1. Len(s) \in Nat /\ DOMAIN s = 1..Len(s)
    BY SeqOfElements
  <1>2. parseSmallNFTs(s) \in {Invalid, ParsedAll(t)}
    BY <1>1 DEF parseSmallNFTs
  <1>3. t = [i \in 1..Len(s) |-> t[i]] /\ \A i \in 1..Len(s) : t[i] \in ParsedSmallNFT \cup {Invalid}
    <2>1. ASSUME NEW i \in 1..Len(s) PROVE s[i] \in NFT \cup SmallNFT
      BY <1>1
    <2>2. QED  BY <2>1, ScalarsOfElements, ParsedElements
  <1> HIDE DEF t
  <1>4. QED  BY <1>1, <1>2, <1>3, ParsedLists

\* A list of producers; none is lost.
LEMMA ParsedProducerList ==
  ASSUME NEW s \in Seq(string)
  PROVE  /\ parseProducers(s) \in Seq(VarlenAsciiString) \cup {Invalid}
         /\ parseProducers(s) # Invalid => DOMAIN parseProducers(s) = 1..Len(s)
  <1> DEFINE t == [i \in 1..Len(s) |-> parseAscii(s[i], 3, 64)]
  <1>1. Len(s) \in Nat /\ DOMAIN s = 1..Len(s)
    BY SeqOfElements
  <1>2. parseProducers(s) \in {Invalid, ParsedAll(t)}
    BY <1>1 DEF parseProducers
  <1>3. /\ t = [i \in 1..Len(s) |-> t[i]] /\ DOMAIN t = 1..Len(s)
        /\ \A i \in 1..Len(s) : t[i] \in VarlenAsciiString \cup {Invalid}
    <2>1. ASSUME NEW i \in 1..Len(s) PROVE s[i] \in Scalar
      BY <1>1 DEF Scalar
    <2>2. QED  BY <2>1, ParsedScalars
  <1> HIDE DEF t
  <1>4. /\ ParsedAll(t) \in Seq(VarlenAsciiString) \cup {Invalid}
        /\ ParsedAll(t) # Invalid => ParsedAll(t) = t
    BY <1>1, <1>3, ParsedLists
  <1>5. QED  BY <1>2, <1>3, <1>4

\* The data of an action with lists.
LEMMA ParsedDataWithLists ==
  ASSUME NEW d, Readable(d)
  PROVE  /\ parseMapBlockchainPublicAddress(d) \in ParsedMapBlockchainPublicAddress \cup {Invalid}
         /\ parseRemoveMappedAddress(d) \in ParsedRemoveAddress \cup {Invalid}
         /\ parseMapNFTSignature(d) \in ParsedMapNFTSignature \cup {Invalid}
         /\ parseRemoveNFTSignature(d) \in ParsedRemoveNFTSignature \cup {Invalid}
         /\ parseVoteOnBlockProducers(d) \in ParsedVoteOnBlockProducers \cup {Invalid}
  <1>1. /\ parsePublicAddsesses(d.public_addresses) \in Seq(ParsedPublicAddress) \cup {Invalid}
        /\ parseNFTs(d.nfts) \in Seq(ParsedNFT) \cup {Invalid}
        /\ parseSmallNFTs(d.nfts) \in Seq(ParsedSmallNFT) \cup {Invalid}
        /\ parseProducers(d.producers) \in Seq(VarlenAsciiString) \cup {Invalid}
    BY ParsedAddressList, ParsedNftList, ParsedSmallNftList, ParsedProducerList DEF Readable
  <1> USE DEF Readable, PropertyNames, Lists, Parsed
  <1>2. parseMapBlockchainPublicAddress(d) \in ParsedMapBlockchainPublicAddress \cup {Invalid}
    BY <1>1, ParsedScalars
    DEF parseMapBlockchainPublicAddress, ParsedMapBlockchainPublicAddress, Mapped,
        ParsedPublicAddress
  <1>3. parseRemoveMappedAddress(d) \in ParsedRemoveAddress \cup {Invalid}
    BY <1>1, ParsedScalars
    DEF parseRemoveMappedAddress, ParsedRemoveAddress, Mapped, ParsedPublicAddress
  <1>4. parseMapNFTSignature(d) \in ParsedMapNFTSignature \cup {Invalid}
    BY <1>1, ParsedScalars DEF parseMapNFTSignature, ParsedMapNFTSignature, Nfts
  <1>5. parseRemoveNFTSignature(d) \in ParsedRemoveNFTSignature \cup {Invalid}
    BY <1>1, ParsedScalars DEF parseRemoveNFTSignature, ParsedRemoveNFTSignature, Nfts
  <1>6. parseVoteOnBlockProducers(d) \in ParsedVoteOnBlockProducers \cup {Invalid}
    BY <1>1, ParsedScalars DEF parseVoteOnBlockProducers, ParsedVoteOnBlockProducers, Voted
  <1>7. QED  BY <1>2, <1>3, <1>4, <1>5, <1>6

\* What the dispatch on the contract makes of the data.
LEMMA ParsedActionDataTyped ==
  ASSUME NEW contract, NEW d, Readable(d)
  PROVE  parseActionData(contract, d) \in ParsedActionData \cup {Invalid}
  <1>1. ScalarsOf(d)
    BY DEF Readable, ScalarsOf
  <1>2. QED  BY <1>1, ParsedData, ParsedDataWithLists DEF parseActionData, ParsedActionData

\* Of voteproducer, the parsed list is as long as the one given.
LEMMA ParsedVotes ==
  ASSUME NEW contract, NEW d, Readable(d), contract[2] = "voteproducer",
         parseActionData(contract, d) # Invalid
  PROVE  DOMAIN parseActionData(contract, d).producers = 1..Len(d.producers)
  <1>1. parseActionData(contract, d) \in {Invalid, parseVoteOnBlockProducers(d)}
    BY DEF parseActionData
  <1>2. /\ parseActionData(contract, d).producers = parseProducers(d.producers)
        /\ parseProducers(d.producers) # Invalid
    BY <1>1 DEF parseVoteOnBlockProducers, Parsed
  <1>3. QED  BY <1>2, ParsedProducerList DEF Readable

\* An action, with the authorization that a transaction must have.
LEMMA ParsedAnAction ==
  ASSUME NEW a \in Action, Len(a.authorization) = 1, parseAction(a) # Invalid
  PROVE  /\ parseAction(a) \in ParsedAction
         /\ parseAction(a).name = ContractNameOf("voteproducer")
              => \E m \in Nat : DOMAIN parseAction(a).data.producers = 1..m
  <1> DEFINE contract == <<a.account, a.name>>
             d == Properties(a.data)
             auth == parseAuthorization(a.authorization[1])
             p == parseAction(a)
  <1>1. a.account \in STRING /\ a.name \in STRING /\ a.authorization[1] \in ActionAuthorisation
    BY DEF Action
  <1>2. Readable(d)
    BY ReadProperties
  <1>3. /\ p.account = ContractNameOf(a.account) /\ p.name = ContractNameOf(a.name)
        /\ p.authorization = ParsedAll(<<auth>>) /\ p.authorization # Invalid
        /\ p.data = parseActionData(contract, d) /\ p.data # Invalid
        /\ p = [account |-> p.account, name |-> p.name, authorization |-> p.authorization,
                data |-> p.data]
    BY DEF parseAction, Parsed
  <1>4. p.account \in ContractName /\ p.name \in ContractName
    BY <1>1, <1>3 DEF ContractNameOf, ContractName, Value
  <1>5. p.authorization \in Seq(ParsedActionAuthorisation)
    <2>1. auth \in ParsedActionAuthorisation \cup {Invalid}
      <3>1. /\ parseNameString(a.authorization[1].actor) \in NameString \cup {Invalid}
            /\ parseNameString(a.authorization[1].permission) \in NameString \cup {Invalid}
        BY <1>1, ParsedScalars DEF ActionAuthorisation, Authorisation, Scalar
      <3>2. QED  BY <3>1 DEF parseAuthorization, Parsed, ParsedActionAuthorisation, Authorisation
    <2> HIDE DEF auth
    <2> DEFINE t == <<auth>>
    <2>2. t = [i \in 1..1 |-> t[i]] /\ \A i \in 1..1 : t[i] \in ParsedActionAuthorisation \cup {Invalid}
      BY <2>1
    <2>3. p.authorization = ParsedAll(t) /\ p.authorization # Invalid
      BY <1>3
    <2> HIDE DEF t, p
    <2>4. QED  BY <2>2, <2>3, ParsedLists
  <1>6. p.data \in ParsedActionData
    BY <1>2, <1>3, ParsedActionDataTyped
  <1>7. p \in ParsedAction
    <2> HIDE DEF p
    <2>1. QED  BY <1>3, <1>4, <1>5, <1>6 DEF ParsedAction
  <1>8. ASSUME p.name = ContractNameOf("voteproducer")
        PROVE  \E m \in Nat : DOMAIN p.data.producers = 1..m
    <2>1. contract[2] = "voteproducer"
      BY <1>3, <1>8 DEF ContractNameOf, Value
    <2>2. DOMAIN p.data.producers = 1..Len(d.producers)
      BY <1>2, <1>3, <2>1, ParsedVotes
    <2>3. Len(d.producers) \in Nat
      BY <1>2 DEF Readable
    <2>4. QED  BY <2>2, <2>3
  <1>9. QED  BY <1>7, <1>8

\* A transaction, which must have one action with one authorization.
LEMMA ParsedATransaction ==
  ASSUME NEW tx \in Transaction, parseTransaction(tx) # Invalid
  PROVE  /\ parseTransaction(tx) \in ParsedTransaction
         /\ \E m \in Nat : parseTransaction(tx).actions[1].name = ContractNameOf("voteproducer")
              => DOMAIN parseTransaction(tx).actions[1].data.producers = 1..m
  <1> DEFINE p == parseTransaction(tx)
             a == parseAction(tx.actions[1])
             t == <<a>>
  <1>1. Len(tx.actions) = 1 /\ Len(tx.actions[1].authorization) = 1
    BY DEF parseTransaction
  <1>2. tx.actions[1] \in Action
    BY <1>1 DEF Transaction
  <1>3. /\ p.expiration = tx.expiration
        /\ p.ref_block_num = parseUint16_t(tx.ref_block_num) /\ p.ref_block_num # Invalid
        /\ p.ref_block_prefix = parseUint32_t(tx.ref_block_prefix) /\ p.ref_block_prefix # Invalid
        /\ p.context_free_actions = <<>>
        /\ p.actions = ParsedAll(t) /\ p.actions # Invalid
        /\ p = [expiration |-> p.expiration, ref_block_num |-> p.ref_block_num,
                ref_block_prefix |-> p.ref_block_prefix,
                context_free_actions |-> p.context_free_actions, actions |-> p.actions]
    BY DEF parseTransaction, Parsed
  <1>4. /\ p.expiration \in string /\ p.ref_block_num \in Uint16_t
        /\ p.ref_block_prefix \in Uint32_t
    BY <1>3 DEF Transaction, parseUint16_t, parseUint32_t, isWidth, Uint16_t, Uint32_t
  <1>5. p.actions = t /\ a # Invalid
    <2> HIDE DEF a
    <2>1. DOMAIN t = 1..1 /\ t[1] = a
      OBVIOUS
    <2>2. QED  BY <1>3, <2>1 DEF ParsedAll, Parsed
  <1>6. /\ a \in ParsedAction
        /\ a.name = ContractNameOf("voteproducer") => \E m \in Nat : DOMAIN a.data.producers = 1..m
    BY <1>1, <1>2, <1>5, ParsedAnAction
  <1> HIDE DEF a, p
  <1>7. p.actions \in Seq(ParsedAction) /\ p.actions[1] = a
    BY <1>5, <1>6
  <1>8. p \in ParsedTransaction
    BY <1>3, <1>4, <1>7 DEF ParsedTransaction
  <1>9. \E m \in Nat : a.name = ContractNameOf("voteproducer") => DOMAIN a.data.producers = 1..m
    BY <1>6
  <1>10. QED  BY <1>7, <1>8, <1>9 DEF p

\* A request that is not refused by the parsers has the types of internal.ts.
LEMMA ParsedARequest ==
  ASSUME NEW r \in SignTransactionRequest, parseSignTransactionRequest(r) # Invalid
  PROVE  LET p == parseSignTransactionRequest(r)
         IN  /\ p.path \in ValidBIP32Path
             /\ p.chainId \in HexString
             /\ p.tx \in ParsedTransaction
             /\ \E m \in Nat : p.tx.actions[1].name = ContractNameOf("voteproducer")
                  => DOMAIN p.tx.actions[1].data.producers = 1..m
  <1> DEFINE p == parseSignTransactionRequest(r)
  <1>1. /\ p.path = parseBIP32Path(r.path) /\ p.path # Invalid
        /\ p.chainId = parseHexString(r.chainId, 0, AnyLength) /\ p.chainId # Invalid
        /\ p.tx = parseTransaction(r.tx) /\ p.tx # Invalid
    BY DEF parseSignTransactionRequest, Parsed
  <1>2. p.path \in ValidBIP32Path
    <2>1. p.path = r.path /\ r.path \in Seq(bigint_like) /\ \A i \in DOMAIN r.path : isWidth(r.path[i], 32)
      BY <1>1 DEF parseBIP32Path, isValidPath, SignTransactionRequest, BIP32Path
    <2>2. \A i \in DOMAIN r.path : r.path[i] \in Uint32_t
      BY <2>1 DEF isWidth, Uint32_t
    <2>3. Elements(r.path) \subseteq Uint32_t /\ r.path \in Seq(Elements(r.path))
      BY <2>1, <2>2, SeqOfElements DEF Elements, IsSeq
    <2>4. QED  BY <2>1, <2>3, SeqWider DEF ValidBIP32Path
  <1>3. p.chainId \in HexString
    <2>1. r.chainId \in Scalar
      BY DEF SignTransactionRequest, Scalar
    <2>2. QED  BY <1>1, <2>1, ParsedScalars
  <1>4. r.tx \in Transaction
    BY DEF SignTransactionRequest
  <1>5. QED  BY <1>1, <1>2, <1>3, <1>4, ParsedATransaction

-----------------------------------------------------------------------------
(* The library is a host of SignTx.                                        *)

ActionOfRequest(id) == parsed[id].tx.actions[1]
AuthorizerOf(id)    == ActionOfRequest(id).authorization[1].actor

\* A request that is compiled has been parsed, and its commands have the shape
\* of a transaction.
LEMMA PlansPlanned ==
  ASSUME NEW id \in DOMAIN parsed
  PROVE  /\ parsed[id] # Invalid =>
              /\ parsed[id].path \in ValidBIP32Path
              /\ parsed[id].chainId \in HexString
              /\ parsed[id].tx \in ParsedTransaction
         /\ Plan[id] \notin {Invalid, <<>>} => Planned(Plan[id], ActionOfRequest(id))
  <1> DEFINE r == Requests[id]
             p == parseSignTransactionRequest(r)
  <1>1. id \in DOMAIN Requests /\ parsed[id] = p
    BY DEF parsed, ParsedAs
  <1>2. r \in SignTransactionRequest
    BY <1>1, RequestsAssumption, SeqElement
  <1>3. Plan[id] = CompiledTo(p)
    BY <1>1 DEF Plan, PlanOf
  <1> HIDE DEF r
  <1>4. CASE p = Invalid
    BY <1>1, <1>3, <1>4 DEF CompiledTo
  <1>5. CASE p # Invalid
    <2>1. /\ p.path \in ValidBIP32Path
          /\ p.chainId \in HexString
          /\ p.tx \in ParsedTransaction
      BY <1>2, <1>5, ParsedARequest
    <2>2. PICK m \in Nat : p.tx.actions[1].name = ContractNameOf("voteproducer")
                             => DOMAIN p.tx.actions[1].data.producers = 1..m
      BY <1>2, <1>5, ParsedARequest
    <2>3. Plan[id] = templete_all(p.chainId, p.tx, p.path)
      BY <1>3, <1>5 DEF CompiledTo
    <2> HIDE DEF p
    <2>4. Plan[id] \in {<<>>, Invalid} \/ Planned(Plan[id], p.tx.actions[1])
      BY <2>2, <2>3, PlanShape
    <2>5. QED  BY <1>1, <2>1, <2>4 DEF ActionOfRequest
  <1>6. QED  BY <1>4, <1>5

\* What a call has got to: a request that was parsed, and, from the first
\* command on, a plan with a next command.
CallInv ==
  /\ DOMAIN host = {"state", "id", "next", "dh", "why"}
  /\ host.state = "version" => host.next = 1
  /\ InCall => host.id \in DOMAIN parsed /\ parsed[host.id] # Invalid
  /\ host.state \in {"sending", "awaiting"} =>
       Plan[host.id] \notin {Invalid, <<>>} /\ host.next \in DOMAIN Plan[host.id]

\* FINISH comes last, and a plan has a first command.
LEMMA PlanBounds ==
  ASSUME NEW P, NEW action, Planned(P, action)
  PROVE  /\ Len(P) \in Nat /\ Len(P) >= 10 /\ DOMAIN P = 1..Len(P)
         /\ P[Len(P)].command = "FINISH"
         /\ \A i \in DOMAIN P : P[i].command # "FINISH" => i + 1 \in DOMAIN P
  <1>1. Len(P) \in Nat /\ DOMAIN P = 1..Len(P)
    BY SeqOfElements DEF Planned, IsSeq
  <1>2. Len(P) >= 10 /\ P[Len(P)].command = "FINISH"
    BY DEF Planned, COMMAND_FINISH, defaultCommand
  <1>3. QED  BY <1>1, <1>2

\* Every step keeps what a call has got to.
LEMMA CallInvKept == CallInv /\ [HostNext]_hostVars => CallInv'
  <1> SUFFICES ASSUME CallInv, [HostNext]_hostVars PROVE CallInv'
    OBVIOUS
  <1>1. \A id \in DOMAIN parsed : Plan[id] \notin {Invalid, <<>>} => Planned(Plan[id], ActionOfRequest(id))
    BY PlansPlanned
  <1>2. ASSUME NEW id \in DOMAIN parsed, Call(id) PROVE CallInv'
    BY <1>2 DEF Call, CallInv, InCall
  <1>3. ASSUME NEW why, Ends(why) PROVE CallInv'
    BY <1>3 DEF Ends, CallInv, InCall
  <1>4. CASE VersionRefused \/ VersionDisturbs \/ Refuse \/ Abandon
    BY <1>3, <1>4 DEF VersionRefused, VersionDisturbs, Refuse, Abandon
  <1>5. CASE VersionAnswered
    <2>1. CASE Plan[host.id] \in {Invalid, <<>>}
      BY <1>3, <1>5, <2>1 DEF VersionAnswered
    <2>2. CASE Plan[host.id] \notin {Invalid, <<>>}
      <3>1. host' = [host EXCEPT !.state = "sending"] /\ host.state = "version"
        BY <1>5, <2>2 DEF VersionAnswered
      <3>2. 1 \in DOMAIN Plan[host.id]
        BY <1>1, <2>2, <3>1, PlanBounds DEF CallInv, InCall
      <3>3. QED  BY <2>2, <3>1, <3>2 DEF CallInv, InCall
    <2>3. QED  BY <2>1, <2>2
  <1>6. CASE Send
    BY <1>6 DEF Send, CallInv, InCall
  <1>7. CASE Receive
    <2>1. CASE \E why : Ends(why)
      BY <1>3, <2>1
    <2>2. CASE host' = [host EXCEPT !.state = "signed"]
      BY <2>2 DEF CallInv, InCall
    <2>3. CASE /\ NextCommand.command # "FINISH"
               /\ host' = [host EXCEPT !.state = "sending", !.next = @ + 1, !.dh = @ + reply.length]
      <3>1. host.state = "awaiting"
        BY <1>7 DEF Receive
      <3>2. host.next + 1 \in DOMAIN Plan[host.id]
        BY <1>1, <2>3, <3>1, PlanBounds DEF CallInv, InCall, NextCommand
      <3>3. QED  BY <2>3, <3>1, <3>2 DEF CallInv, InCall
    <2>4. QED  BY <1>7, <2>1, <2>2, <2>3 DEF Receive
  <1>8. CASE Unplug
    BY <1>3, <1>8 DEF Unplug, CallInv, InCall
  <1>9. CASE UserActs
    BY <1>9 DEF UserActs, CallInv, InCall
  <1>10. CASE UNCHANGED hostVars
    BY <1>10 DEF hostVars, CallInv, InCall
  <1>11. QED
    BY <1>2, <1>4, <1>5, <1>6, <1>7, <1>8, <1>9, <1>10 DEF HostNext, HostStep

\* So it holds throughout.
LEMMA CallInvHolds == HostSpec => []CallInv
  <1>1. HostInit => CallInv
    BY DEF HostInit, CallInv, InCall
  <1>2. QED  BY <1>1, CallInvKept, PTL DEF HostSpec

\* What the device makes of a command is one of its own steps.
LEMMA DeviceSteps ==
  ASSUME NEW c, Accepted(c) => Provided(c), DeviceHandles(c)
  PROVE  Next
  <1>1. CASE ~Accepted(c)
    BY <1>1 DEF DeviceHandles, Next, Command
  <1>2. CASE Accepted(c)
    <2>1. Provided(c)
      BY <1>2
    <2>2. CASE c.command = "APPEND_CONST_DATA" /\ HandleAppendConstData(c.const.bytes)
      BY <2>1, <2>2 DEF Provided, Next, Command
    <2>3. CASE /\ c.command = "APPEND_DATA"
               /\ HandleAppendData(c.var, c.const.storage, DevicePolicy(c), Blank(c.const, c.var))
      <3>1. Blank(c.const, c.var) \in BOOLEAN
        BY DEF Blank
      <3>2. c.var \in Values /\ c.const.storage \in Checks /\ DevicePolicy(c) \in Policies
        BY <2>1, <2>3 DEF Provided
      <3>3. QED  BY <2>3, <3>1, <3>2 DEF Next, Command
    <2>4. CASE /\ c.command = "START_COUNTED_SECTION"
               /\ HandleStartCountedSection(SectionLength(c.var), c.var.len)
      <3> DEFINE section == <<SectionLength(c.var), c.var.len>>
      <3>1. section \in Sections /\ section[1] = SectionLength(c.var) /\ section[2] = c.var.len
        BY <2>1, <2>4 DEF Provided
      <3> HIDE DEF section
      <3>2. QED  BY <2>4, <3>1 DEF Next, Command
    <2>5. CASE c.command = "STORE_VALUE" /\ HandleStoreValue(c.p2, c.var)
      <3>1. c.p2 \in Registers /\ c.var \in Values
        BY <1>2, <2>1, <2>5 DEF Provided, Accepted, Registers
      <3>2. QED  BY <2>5, <3>1 DEF Next, Command
    <2>6. CASE \/ HandleInit \/ HandleShowMessage \/ HandleEndCountedSection
               \/ HandleStartDHEncoding \/ HandleEndDHEncoding \/ HandleFinish
      BY <2>6 DEF Next, Command
    <2>7. QED  BY <1>2, <2>2, <2>3, <2>4, <2>5, <2>6 DEF DeviceHandles
  <1>3. QED  BY <1>1, <1>2

\* Every step of a call is one of the device, or none.
LEMMA HostSteps == CallInv /\ [HostNext]_hostVars => [Next]_vars
  <1> SUFFICES ASSUME CallInv, [HostNext]_hostVars PROVE [Next]_vars
    OBVIOUS
  <1>1. CASE UNCHANGED device
    BY <1>1 DEF device
  <1>2. CASE Send
    <2>1. host.id \in DOMAIN Plan /\ Plan[host.id] \notin {Invalid, <<>>}
          /\ host.next \in DOMAIN Plan[host.id]
      BY <1>2 DEF Send, CallInv, InCall, Plan, PlanOf
    <2>2. Accepted(NextCommand) => Provided(NextCommand)
      BY <2>1, ProvidedAssumption DEF NextCommand
    <2>3. QED  BY <1>2, <2>2, DeviceSteps DEF Send
  <1>3. CASE VersionRefused \/ VersionDisturbs \/ Unplug \/ UserActs
    BY <1>3 DEF VersionRefused, VersionDisturbs, Unplug, UserActs, Next, Command
  <1>4. QED
    BY <1>1, <1>2, <1>3
    DEF HostNext, HostStep, Call, VersionAnswered, Refuse, Receive, Abandon, hostVars, device, vars

\* The library drives the device as a host of SignTx may: every behaviour of a
\* call is one of the specification of signing, so that what is proved of all
\* hosts holds for it (Fio.signTransaction, runHandleSignTransaction).
THEOREM Host_Implements == HostSpec => Spec
  <1>1. HostInit => Init
    BY DEF HostInit
  <1>2. QED  BY <1>1, CallInvHolds, HostSteps, PTL DEF HostSpec, Spec

\* In particular, through the library: sections and registers are right, parts
\* nest, the framing is kept, and the key and the end of an encrypted part are
\* confirmed.
THEOREM Host_Sessions ==
  HostSpec => [](SectionsExact /\ ProperNesting /\ RegistersTie) /\ FramingKept /\ ConfirmationNeeded
  BY Host_Implements, Sections_Exact, Parts_Nest, Registers_Tie, Framing_Kept,
     Confirmation_Needed, PTL

-----------------------------------------------------------------------------
(* What a handler leaves of the chain and of the registers.                *)

IsCtx(c) == "integrity" \in DOMAIN c /\ "storage" \in DOMAIN c
Keeps(c, r) == r.status = "ok" => r.c.integrity = c.integrity /\ r.c.storage = c.storage

\* Nothing but a command that stores a value changes a register.
LEMMA AppendedKeeps ==
  ASSUME NEW c, NEW h, NEW n, IsCtx(c)
  PROVE  Keeps(c, Appended(c, h, n))
  BY DEF Appended, Ok, Error, Crash, Keeps, IsCtx

\* An append that is counted against the running sections.
LEMMA CountedKeeps ==
  ASSUME NEW c, NEW h, NEW n, IsCtx(c)
  PROVE  Keeps(c, CountedAppend(c, h, n))
  <1> DEFINE counted == [c EXCEPT !.cs = CsProcess(@, n)]
             r == Appended(counted, h, n)
  <1>1. /\ IsCtx(counted)
        /\ counted.integrity = c.integrity /\ counted.storage = c.storage
    BY DEF IsCtx
  <1> HIDE DEF counted
  <1>2. Keeps(counted, r)
    BY <1>1, AppendedKeeps
  <1> HIDE DEF r
  <1>3. CountedAppend(c, h, n) \in {r, Error(counted, h)}
    BY DEF CountedAppend, r, counted
  <1>4. Error(counted, h).status # "ok"
    BY DEF Error
  <1>5. QED  BY <1>1, <1>2, <1>3, <1>4 DEF Keeps

\* INIT.
LEMMA InitKeeps ==
  ASSUME NEW c, NEW h, IsCtx(c)
  PROVE  Keeps(c, InitResult(c, h))
  <1> DEFINE d == [c EXCEPT !.pathSet = TRUE]
             r == CountedAppend(d, h, CHAIN_ID_LENGTH)
  <1>1. IsCtx(d) /\ d.integrity = c.integrity /\ d.storage = c.storage
    BY DEF IsCtx
  <1> HIDE DEF d
  <1>2. Keeps(d, r)
    BY <1>1, CountedKeeps
  <1> HIDE DEF r
  <1>3. InitResult(c, h) \in {r, Error(c, h)} /\ Error(c, h).status # "ok"
    BY DEF InitResult, Error, r, d
  <1>4. QED  BY <1>1, <1>2, <1>3 DEF Keeps

\* START_COUNTED_SECTION.
LEMMA StartSectionKeeps ==
  ASSUME NEW c, NEW h, NEW declared, NEW n, IsCtx(c)
  PROVE  Keeps(c, StartSectionResult(c, h, declared, n))
  <1> DEFINE d == [[c EXCEPT !.cs = CsProcess(@, n)] EXCEPT !.cs = CsBegin(@, declared)]
             r == Appended(d, h, n)
             s == StartSectionResult(c, h, declared, n)
  <1>1. IsCtx(d) /\ d.integrity = c.integrity /\ d.storage = c.storage
    BY DEF IsCtx
  <1> HIDE DEF d
  <1>2. Keeps(d, r) /\ {"status", "c"} \subseteq DOMAIN r
    <2>1. {"status", "c"} \subseteq DOMAIN r
      BY DEF Appended, Ok, Error, Crash
    <2>2. QED  BY <1>1, <2>1, AppendedKeeps
  <1>3. s.status = "ok" => s.status = r.status /\ s.c = r.c
    <2>1. CASE CsCanProcess(c.cs, n) /\ CsCanBegin(c.cs)
      <3> DEFINE level == c.cs.currentLevel + 1
                 mark == IF c.dhIsActive THEN r.h.plain ELSE r.h.out
      <3>1. s = [r EXCEPT !.h.start[level] = mark, !.h.declared[level] = declared,
                          !.h.inDh[level] = c.dhIsActive]
        BY <2>1 DEF StartSectionResult, d
      <3> HIDE DEF r, s, level, mark
      <3>2. QED  BY <1>2, <3>1
    <2>2. CASE ~(CsCanProcess(c.cs, n) /\ CsCanBegin(c.cs))
      BY <2>2 DEF StartSectionResult, Error
    <2>3. QED  BY <2>1, <2>2
  <1> HIDE DEF r, s
  <1>4. Keeps(c, s)
    BY <1>1, <1>2, <1>3 DEF Keeps
  <1>5. QED  BY <1>4 DEF s

\* The commands that append no plain text.
LEMMA OthersKeep ==
  ASSUME NEW c, NEW h, IsCtx(c)
  PROVE  /\ Keeps(c, Ok([c EXCEPT !.responseLength = 0], h))
         /\ Keeps(c, EndSectionResult(c, h))
         /\ Keeps(c, StartDhResult(c, h))
         /\ Keeps(c, EndDhResult(c, h))
         /\ Keeps(c, FinishResult(c, h))
  <1> USE DEF Keeps, IsCtx, Ok, Error
  <1>1. Keeps(c, Ok([c EXCEPT !.responseLength = 0], h))
    OBVIOUS
  <1>2. Keeps(c, EndSectionResult(c, h))
    BY DEF EndSectionResult
  <1>3. Keeps(c, StartDhResult(c, h))
    BY DEF StartDhResult
  <1>4. Keeps(c, EndDhResult(c, h))
    BY DEF EndDhResult
  <1>5. Keeps(c, FinishResult(c, h))
    BY DEF FinishResult
  <1>6. QED  BY <1>1, <1>2, <1>3, <1>4, <1>5

\* A value that is appended has passed its check.
LEMMA AppendDataKeeps ==
  ASSUME NEW c, NEW h, NEW v, NEW check, NEW policy, IsCtx(c)
  PROVE  LET r == AppendDataResult(c, h, v, check, policy)
         IN  /\ Keeps(c, r)
             /\ r.status = "ok" /\ check \in {"R1", "R1_DECODE_NAME"} =>
                  v \in {c.storage[1], NameOf[c.storage[1]]}
  <1> DEFINE r == CountedAppend(c, Tie(h, c, check, v), Size[v])
             s == AppendDataResult(c, h, v, check, policy)
  <1>1. Keeps(c, r)
    BY CountedKeeps
  <1> HIDE DEF r
  <1>2. s.status = "ok" => s = r /\ CheckFails(c, check, v) = "ok"
    <2>1. CheckFails(c, check, v) \in {"ok", "error", "crash"}
      BY DEF CheckFails
    <2>2. QED  BY <2>1 DEF AppendDataResult, Error, Crash, r
  <1>3. CheckFails(c, check, v) = "ok" /\ check \in {"R1", "R1_DECODE_NAME"} =>
          v \in {c.storage[1], NameOf[c.storage[1]]}
    BY DEF CheckFails, RegisterOf
  <1> HIDE DEF s
  <1>4. Keeps(c, s) /\ (s.status = "ok" /\ check \in {"R1", "R1_DECODE_NAME"} =>
                          v \in {c.storage[1], NameOf[c.storage[1]]})
    BY <1>1, <1>2, <1>3 DEF Keeps
  <1>5. QED  BY <1>4 DEF s

-----------------------------------------------------------------------------
(* What a command does that is not refused.                                *)

Taken == {"success", "pending"}

\* The chain grows by the entry of the command, and register 1 is as it was.
Noted(c, storage) ==
  /\ instr' = "SIGN_TX"
  /\ reply'.to = DeviceName(c.command)
  /\ ctx'.integrity = ChainAfter(Ctx.integrity, Entry(c)[1], Entry(c)[2], Entry(c)[3])
  /\ ctx'.storage[1] = storage

\* A handler that keeps chain and registers notes the command.
LEMMA NotedBy ==
  ASSUME TypeOK, NEW c, NEW p1, NEW p2, NEW const, NEW r, NEW screen,
         Entry(c) = <<p1, p2, const>>, p1 = DeviceName(c.command),
         Keeps(Received(p1, p2, const), r),
         Execute(p1, r, screen), reply'.status \in Taken
  PROVE  /\ r.status = "ok" /\ ctx' = r.c /\ ui' = screen
         /\ screen # "none" => reply'.status = "pending"
         /\ Noted(c, Ctx.storage[1])
  <1>1. Ctx \in Contexts
    BY StartTypes
  <1> DEFINE d == Received(p1, p2, const)
  <1>2. d.integrity = ChainAfter(Ctx.integrity, p1, p2, const) /\ d.storage = Ctx.storage
    BY <1>1 DEF Received, Contexts
  <1> HIDE DEF d
  <1>3. /\ r.status = "ok" /\ ctx' = r.c /\ ui' = screen /\ instr' = "SIGN_TX" /\ reply'.to = p1
        /\ screen # "none" => reply'.status = "pending"
    BY DEF Execute, Taken
  <1>4. r.c.integrity = d.integrity /\ r.c.storage = d.storage
    BY <1>3 DEF Keeps, d
  <1>5. QED  BY <1>2, <1>3, <1>4 DEF Noted

\* What a received command starts from is a context.
LEMMA ReceivedCtx ==
  ASSUME TypeOK, NEW p1, NEW p2, NEW const
  PROVE  /\ IsCtx(Received(p1, p2, const))
         /\ Received(p1, p2, const).storage = Ctx.storage
  <1>1. Ctx \in Contexts
    BY StartTypes
  <1>2. QED  BY <1>1 DEF Received, Contexts, IsCtx

\* What the device has done, whichever command it was.
LEMMA CommandTaken ==
  ASSUME TypeOK, NEW c, DeviceHandles(c), reply'.status \in Taken,
         c.command # "STORE_VALUE" => c.p2 = 0
  PROVE  /\ c.command # "STORE_VALUE" => Noted(c, Ctx.storage[1])
         /\ c.command = "STORE_VALUE" /\ c.p2 = 1 => Noted(c, c.var)
         /\ \A x : TiedTo(c, x) => x \in {Ctx.storage[1], NameOf[Ctx.storage[1]]}
         /\ c.command = "START_DH_ENCRYPTION" =>
              reply'.status = "pending" /\ ui' = "dhStart" /\ ctx'.responseLength = InitWritten
         /\ c.command = "FINISH" => reply'.status = "pending"
  <1> DEFINE Goal ==
        /\ c.command # "STORE_VALUE" => Noted(c, Ctx.storage[1])
        /\ c.command = "STORE_VALUE" /\ c.p2 = 1 => Noted(c, c.var)
        /\ \A x : TiedTo(c, x) => x \in {Ctx.storage[1], NameOf[Ctx.storage[1]]}
        /\ c.command = "START_DH_ENCRYPTION" =>
             reply'.status = "pending" /\ ui' = "dhStart" /\ ctx'.responseLength = InitWritten
        /\ c.command = "FINISH" => reply'.status = "pending"
  <1>1. ASSUME c.command \notin {"STORE_VALUE", "APPEND_DATA", "START_DH_ENCRYPTION", "FINISH"},
               Noted(c, Ctx.storage[1])
        PROVE  Goal
    BY <1>1 DEF TiedTo
  <1>2. ASSUME ~Accepted(c) PROVE FALSE
    <2>1. BadRequest
      BY <1>2 DEF DeviceHandles
    <2>2. QED  BY <2>1 DEF BadRequest, Execute, Error, Taken
  <1>3. CASE c.command = "INIT" /\ HandleInit
    <2>1. Keeps(Received("INIT", 0, 0), InitResult(Received("INIT", 0, 0), Hist))
      BY ReceivedCtx, InitKeeps
    <2>2. Entry(c) = <<"INIT", 0, 0>> /\ DeviceName(c.command) = "INIT"
      BY <1>3 DEF Entry, DeviceName
    <2>3. Noted(c, Ctx.storage[1])
      BY <1>3, <2>1, <2>2, NotedBy DEF HandleInit
    <2>4. QED  BY <1>1, <1>3, <2>3
  <1>4. CASE c.command = "APPEND_CONST_DATA" /\ HandleAppendConstData(c.const.bytes)
    <2> DEFINE n == c.const.bytes
               d == Received("APPEND_CONST_DATA", 0, n)
    <2>1. Keeps(d, CountedAppend(d, Hist, n))
      BY ReceivedCtx, CountedKeeps
    <2>2. Entry(c) = <<"APPEND_CONST_DATA", 0, n>> /\ DeviceName(c.command) = "APPEND_CONST_DATA"
      BY <1>4 DEF Entry, DeviceName
    <2>3. Execute("APPEND_CONST_DATA", CountedAppend(d, Hist, n), "none")
      BY <1>4 DEF HandleAppendConstData
    <2> HIDE DEF n
    <2>4. Noted(c, Ctx.storage[1])
      BY <2>1, <2>2, <2>3, NotedBy
    <2>5. QED  BY <1>1, <1>4, <2>4
  <1>5. CASE c.command = "SHOW_MESSAGE" /\ HandleShowMessage
    <2> DEFINE d == Received("SHOW_MESSAGE", 0, 0)
               r == Ok([d EXCEPT !.responseLength = 0], Hist)
    <2>1. Keeps(d, r)
      BY ReceivedCtx, OthersKeep
    <2>2. Entry(c) = <<"SHOW_MESSAGE", 0, 0>> /\ DeviceName(c.command) = "SHOW_MESSAGE"
      BY <1>5 DEF Entry, DeviceName
    <2>3. Execute("SHOW_MESSAGE", r, "details")
      BY <1>5 DEF HandleShowMessage
    <2> HIDE DEF r
    <2>4. Noted(c, Ctx.storage[1])
      BY <2>1, <2>2, <2>3, NotedBy
    <2>5. QED  BY <1>1, <1>5, <2>4
  <1>6. CASE /\ c.command = "APPEND_DATA"
             /\ HandleAppendData(c.var, c.const.storage, DevicePolicy(c), Blank(c.const, c.var))
    <2> DEFINE const == <<c.const.storage, DevicePolicy(c)>>
               d == Received("APPEND_DATA", 0, const)
               r == AppendDataResult(d, Hist, c.var, c.const.storage, DevicePolicy(c))
               screen == IF DevicePolicy(c) = "ALLOW"
                            \/ (DevicePolicy(c) = "SHOW_IF_NONEMPTY" /\ Blank(c.const, c.var))
                         THEN "none" ELSE "details"
    <2>1. IsCtx(d) /\ d.storage = Ctx.storage
      BY ReceivedCtx
    <2>2. Entry(c) = <<"APPEND_DATA", 0, const>> /\ DeviceName(c.command) = "APPEND_DATA"
      BY <1>6 DEF Entry, DeviceName
    <2>3. Execute("APPEND_DATA", r, screen)
      BY <1>6 DEF HandleAppendData
    <2> HIDE DEF const, screen
    <2>4. /\ Keeps(d, r)
          /\ r.status = "ok" /\ c.const.storage \in {"R1", "R1_DECODE_NAME"} =>
               c.var \in {d.storage[1], NameOf[d.storage[1]]}
      <3> HIDE DEF d
      <3>1. QED  BY <2>1, AppendDataKeeps
    <2> HIDE DEF r
    <2>5. r.status = "ok" /\ Noted(c, Ctx.storage[1])
      BY <2>2, <2>3, <2>4, NotedBy
    <2> HIDE DEF d
    <2>6. \A x : TiedTo(c, x) => x \in {Ctx.storage[1], NameOf[Ctx.storage[1]]}
      BY <2>1, <2>4, <2>5 DEF TiedTo
    <2>7. QED  BY <1>6, <2>5, <2>6
  <1>7. CASE /\ c.command = "START_COUNTED_SECTION"
             /\ HandleStartCountedSection(SectionLength(c.var), c.var.len)
    <2> DEFINE d == Received("START_COUNTED_SECTION", 0, 0)
               r == StartSectionResult(d, Hist, SectionLength(c.var), c.var.len)
    <2>1. Keeps(d, r)
      BY ReceivedCtx, StartSectionKeeps
    <2>2. /\ Entry(c) = <<"START_COUNTED_SECTION", 0, 0>>
          /\ DeviceName(c.command) = "START_COUNTED_SECTION"
      BY <1>7 DEF Entry, DeviceName
    <2>3. Execute("START_COUNTED_SECTION", r, "none")
      BY <1>7 DEF HandleStartCountedSection
    <2> HIDE DEF r
    <2>4. Noted(c, Ctx.storage[1])
      BY <2>1, <2>2, <2>3, NotedBy
    <2>5. QED  BY <1>1, <1>7, <2>4
  <1>8. CASE c.command = "END_COUNTED_SECTION" /\ HandleEndCountedSection
    <2> DEFINE d == Received("END_COUNTED_SECTION", 0, 0)
               r == EndSectionResult(d, Hist)
    <2>1. Keeps(d, r)
      BY ReceivedCtx, OthersKeep
    <2>2. /\ Entry(c) = <<"END_COUNTED_SECTION", 0, 0>>
          /\ DeviceName(c.command) = "END_COUNTED_SECTION"
      BY <1>8 DEF Entry, DeviceName
    <2>3. Execute("END_COUNTED_SECTION", r, "none")
      BY <1>8 DEF HandleEndCountedSection
    <2> HIDE DEF r
    <2>4. Noted(c, Ctx.storage[1])
      BY <2>1, <2>2, <2>3, NotedBy
    <2>5. QED  BY <1>1, <1>8, <2>4
  <1>9. CASE c.command = "STORE_VALUE" /\ HandleStoreValue(c.p2, c.var)
    <2> DEFINE d == Received("STORE_VALUE", 1, 0)
               r == StoreResult(d, Hist, 1, c.var)
    <2>1. SUFFICES ASSUME c.p2 = 1 PROVE Noted(c, c.var)
      BY <1>9 DEF TiedTo
    <2>2. Execute("STORE_VALUE", r, "none")
      BY <1>9, <2>1 DEF HandleStoreValue
    <2>3. Entry(c) = <<"STORE_VALUE", 1, 0>> /\ DeviceName(c.command) = "STORE_VALUE"
      BY <1>9, <2>1 DEF Entry, DeviceName
    <2>4. /\ d.integrity = ChainAfter(Ctx.integrity, "STORE_VALUE", 1, 0)
          /\ d \in Contexts
      <3>1. Ctx \in Contexts
        BY StartTypes
      <3>2. QED  BY <3>1, ReceivedTypes DEF Received, Contexts
    <2>5. /\ r.status = "ok" /\ ctx' = r.c /\ instr' = "SIGN_TX" /\ reply'.to = "STORE_VALUE"
      BY <2>2 DEF Execute, Taken
    <2>6. r.c.integrity = d.integrity /\ r.c.storage[1] = c.var
      <3> HIDE DEF d
      <3>1. r.c = [d EXCEPT !.storage[1] = c.var, !.responseLength = 0]
        BY <2>5 DEF StoreResult, Ok, Error
      <3>2. /\ "integrity" \in DOMAIN d /\ "storage" \in DOMAIN d /\ "responseLength" \in DOMAIN d
            /\ 1 \in DOMAIN d.storage
        BY <2>4 DEF Contexts, Registers
      <3> HIDE DEF r
      <3>3. QED  BY <3>1, <3>2
    <2>7. QED  BY <2>3, <2>4, <2>5, <2>6 DEF Noted
  <1>10. CASE c.command = "START_DH_ENCRYPTION" /\ HandleStartDHEncoding
    <2> DEFINE d == Received("DH_START", 0, 0)
               r == StartDhResult(d, Hist)
    <2>1. Keeps(d, r) /\ d \in Contexts
      BY ReceivedCtx, OthersKeep, StartTypes, ReceivedTypes
    <2>2. Entry(c) = <<"DH_START", 0, 0>> /\ DeviceName(c.command) = "DH_START"
      BY <1>10 DEF Entry, DeviceName
    <2>3. Execute("DH_START", r, "dhStart")
      BY <1>10 DEF HandleStartDHEncoding
    <2>4. r.status = "ok" => r.c.responseLength = InitWritten
      <3> HIDE DEF d
      <3>1. QED  BY <2>1 DEF StartDhResult, Ok, Error, Contexts
    <2> HIDE DEF r
    <2>5. /\ r.status = "ok" /\ ctx' = r.c /\ ui' = "dhStart" /\ reply'.status = "pending"
          /\ Noted(c, Ctx.storage[1])
      BY <2>1, <2>2, <2>3, NotedBy
    <2>6. QED  BY <1>10, <2>4, <2>5 DEF TiedTo
  <1>11. CASE c.command = "END_DH_ENCRYPTION" /\ HandleEndDHEncoding
    <2> DEFINE d == Received("DH_END", 0, 0)
               r == EndDhResult(d, Hist)
    <2>1. Keeps(d, r)
      BY ReceivedCtx, OthersKeep
    <2>2. Entry(c) = <<"DH_END", 0, 0>> /\ DeviceName(c.command) = "DH_END"
      BY <1>11 DEF Entry, DeviceName
    <2>3. Execute("DH_END", r, "dhConfirm")
      BY <1>11 DEF HandleEndDHEncoding
    <2> HIDE DEF r
    <2>4. Noted(c, Ctx.storage[1])
      BY <2>1, <2>2, <2>3, NotedBy
    <2>5. QED  BY <1>1, <1>11, <2>4
  <1>12. CASE c.command = "FINISH" /\ HandleFinish
    <2> DEFINE d == Received("FINISH", 0, 0)
               r == FinishResult(d, Hist)
    <2>1. Keeps(d, r)
      BY ReceivedCtx, OthersKeep
    <2>2. Entry(c) = <<"FINISH", 0, 0>> /\ DeviceName(c.command) = "FINISH"
      BY <1>12 DEF Entry, DeviceName
    <2>3. Execute("FINISH", r, "finishDetails")
      BY <1>12 DEF HandleFinish
    <2> HIDE DEF r
    <2>4. Noted(c, Ctx.storage[1]) /\ reply'.status = "pending"
      BY <2>1, <2>2, <2>3, NotedBy
    <2>5. QED  BY <1>12, <2>4 DEF TiedTo
  <1>13. Goal
    BY <1>2, <1>3, <1>4, <1>5, <1>6, <1>7, <1>8, <1>9, <1>10, <1>11, <1>12 DEF DeviceHandles
  <1>14. QED  BY <1>13

-----------------------------------------------------------------------------
(* A call as far as it has got.                                            *)

\* The chain of the first k commands.
Upto(P, k) == [i \in 1..k |-> Entry(P[i])]
\* One more command.
LEMMA UptoNext ==
  ASSUME NEW P, NEW k \in Nat \ {0}
  PROVE  Append(Upto(P, k - 1), Entry(P[k])) = Upto(P, k)
  <1> DEFINE f == Upto(P, k - 1)
             g == Upto(P, k)
             S == Elements(g)
  <1>1. /\ f = [i \in 1..k - 1 |-> g[i]] /\ g = [i \in 1..k |-> g[i]]
        /\ g[k] = Entry(P[k])
    BY DEF Upto
  <1>2. \A i \in 1..k : g[i] \in S
    BY DEF Elements, Upto
  <1> HIDE DEF f, g, S
  <1>3. k - 1 \in Nat /\ 1..k - 1 \subseteq 1..k
    OBVIOUS
  <1>4. f \in [1..k - 1 -> S] /\ g \in [1..k -> S]
    BY <1>1, <1>2, <1>3
  <1>5. f \in Seq(S) /\ g \in Seq(S)
    BY <1>3, <1>4, SeqFunction
  <1>6. Len(f) = k - 1 /\ Len(g) = k
    BY <1>3, <1>4, <1>5
  <1>7. Append(f, g[k]) \in Seq(S) /\ Len(Append(f, g[k])) = k
    BY <1>2, <1>5, <1>6
  <1>8. \A i \in 1..k : Append(f, g[k])[i] = g[i]
    <2> TAKE i \in 1..k
    <2>1. CASE i = k
      BY <1>5, <1>6, <2>1
    <2>2. CASE i \in 1..k - 1
      BY <1>1, <1>5, <1>6, <2>2
    <2>3. k - 1 \in Nat /\ (i = k \/ i \in 1..k - 1)
      OBVIOUS
    <2>4. QED  BY <2>1, <2>2, <2>3
  <1>9. Append(f, g[k]) = g
    BY <1>5, <1>6, <1>7, <1>8
  <1>10. QED  BY <1>1, <1>9 DEF f, g

\* A chain that is not listed stays so.
LEMMA OffListStays ==
  ASSUME NEW p1, NEW p2, NEW const
  PROVE  ChainAfter(OffList, p1, p2, const) = OffList
  <1> DEFINE x == <<p1, p2, const>>
             chain == Append(OffList, x)
  <1>1. SUFFICES ASSUME chain \in Prefixes PROVE FALSE
    BY DEF ChainAfter
  <1>2. PICK a \in Allowed : \E k \in 0..Len(a) : chain = SubSeq(a, 1, k)
    BY <1>1 DEF Prefixes
  <1>0. PICK k \in 0..Len(a) : chain = SubSeq(a, 1, k)
    BY <1>2
  <1>3. a \in Seq(Steps) /\ Len(a) \in Nat
    BY ListAssumption DEF Steps
  <1>9. PICK y : OffList = <<y>>
    BY Zenon DEF OffList
  <1>4. /\ OffList \in Seq({y}) /\ Len(OffList) = 1
        /\ Len(chain) = 2 /\ chain[1] = OffList[1]
    BY <1>9
  <1> HIDE DEF chain
  <1>5. k = 2 /\ chain[1] = a[1] /\ 1 \in 0..Len(a)
    BY <1>0, <1>3, <1>4
  <1>6. SubSeq(a, 1, 1) = OffList
    <2>1. /\ SubSeq(a, 1, 1) \in Seq(Steps) /\ Len(SubSeq(a, 1, 1)) = 1
          /\ SubSeq(a, 1, 1)[1] = a[1]
      BY <1>3, <1>5
    <2> DEFINE S == Steps \cup {y}
               one == SubSeq(a, 1, 1)
    <2>2. one \in Seq(S) /\ OffList \in Seq(S)
      BY <1>4, <2>1
    <2>3. Len(one) = 1 /\ Len(OffList) = 1 /\ one[1] = OffList[1]
      BY <1>4, <1>5, <2>1
    <2> HIDE DEF S, one
    <2>6. Len(one) = Len(OffList) /\ \A i \in 1..Len(one) : one[i] = OffList[i]
      BY <2>3
    <2>4. one = OffList
      BY <2>2, <2>6, SeqEqual
    <2>5. QED  BY <2>4 DEF one
  <1>7. OffList \in Prefixes
    BY <1>5, <1>6 DEF Prefixes
  <1>8. QED  BY <1>7, ListAssumption

\* After the first k commands of a call: what register 1 holds, the chain, and
\* that every command tied to the actor was handled with a matching value.
Done(c, P, auth, k) ==
  /\ k >= 6 => c.storage[1] = auth
  /\ c.integrity \in {Upto(P, k), OffList}
  /\ \A i \in 7..k : \A x : TiedTo(P[i], x) => x \in {auth, NameOf[auth]}

SessionInv ==
  LET P    == Plan[host.id]
      auth == AuthorizerOf(host.id)
      k    == host.next
  IN  /\ host.state = "sending" =>
           /\ ui = "none"
           /\ k = 1 => instr = "NONE"
           /\ k # 1 => instr = "SIGN_TX" /\ Done(ctx, P, auth, k - 1)
      /\ host.state = "awaiting" /\ reply.status \in Taken =>
           /\ reply.to = DeviceName(P[k].command)
           /\ Done(ctx, P, auth, k)
           /\ P[k].command # "FINISH" => instr = "SIGN_TX"
           /\ reply.to = "DH_START" /\ reply.status = "pending" =>
                ui = "dhStart" /\ ctx.responseLength = InitWritten
           /\ reply.to = "DH_START" /\ reply.status = "success" => reply.length = InitWritten
           /\ reply.to = "FINISH" /\ reply.status = "success" => reply.length = SIGNATURE_LENGTH
      /\ LengthsAsExpected

\* What a command of a plan can be.
LEMMA PlanCommands ==
  ASSUME NEW P, NEW action, Planned(P, action), NEW k \in DOMAIN P
  PROVE  /\ P[k].command # "STORE_VALUE" => P[k].p2 = 0
         /\ P[k].command # "DH_START"
         /\ P[k].command = "FINISH" <=> k = Len(P)
         /\ P[k].command = "STORE_VALUE" <=> k = 6
         /\ k = 6 => P[k].p2 = 1 /\ P[k].var = action.authorization[1].actor
         /\ P[k].expectedResponseLength =
              CASE P[k].command = "START_DH_ENCRYPTION" -> InitWritten
                [] P[k].command = "FINISH" -> SIGNATURE_LENGTH
                [] OTHER -> NoExpectation
  <1>1. InitWritten = 20 /\ SIGNATURE_LENGTH = 97
    BY DEF InitWritten, WholeBlocksOut, B64_OUT, B64_IN, IV_SIZE, SIGNATURE_LENGTH
  <1>2. Len(P) \in Nat /\ Len(P) >= 10
    BY PlanBounds
  <1>3. CASE k = 1
    BY <1>3 DEF Planned, Opening
  <1>4. CASE k = 6
    <2>1. P[k] = COMMAND_STORE_VALUE(1, action.authorization[1].actor)
      BY <1>4 DEF Planned
    <2>2. /\ P[k].command = "STORE_VALUE" /\ P[k].p2 = 1
          /\ P[k].var = action.authorization[1].actor
          /\ P[k].expectedResponseLength = NoExpectation
      BY <2>1 DEF COMMAND_STORE_VALUE, defaultCommand
    <2>3. P[k].command \notin {"FINISH", "START_DH_ENCRYPTION", "DH_START"} 
      BY <2>2
    <2> DEFINE n == Len(P)
    <2>6. n \in Nat /\ n >= 10
      BY <1>2
    <2> HIDE DEF n
    <2>7. n # 6
      BY <2>6
    <2>4. k # Len(P)
      BY <1>4, <2>7 DEF n
    <2>5. QED  BY <1>4, <2>2, <2>3, <2>4
  <1>5. CASE k = Len(P)
    <2>1. P[k] = COMMAND_FINISH
      BY <1>5 DEF Planned
    <2>2. /\ P[k].command = "FINISH" /\ P[k].p2 = 0
          /\ P[k].expectedResponseLength = SIGNATURE_LENGTH
      BY <2>1 DEF COMMAND_FINISH, defaultCommand, SIGNATURE_LENGTH
    <2>3. QED  BY <1>2, <1>5, <2>2
  <1>6. CASE k \notin {1, 6, Len(P)}
    <2>1. Inner(P[k])
      BY <1>6 DEF Planned
    <2>2. QED  BY <1>1, <1>6, <2>1 DEF Inner, InnerCommands
  <1>7. QED  BY <1>3, <1>4, <1>5, <1>6

\* Another command is sent.
LEMMA SendDone ==
  ASSUME TypeOK, NEW P, NEW action, Planned(P, action), NEW k \in DOMAIN P,
         k = 1 => instr = "NONE",
         k # 1 => instr = "SIGN_TX" /\ Done(ctx, P, action.authorization[1].actor, k - 1),
         DeviceHandles(P[k]), reply'.status \in Taken
  PROVE  /\ Done(ctx', P, action.authorization[1].actor, k)
         /\ instr' = "SIGN_TX" /\ reply'.to = DeviceName(P[k].command)
  <1> DEFINE auth == action.authorization[1].actor
             c == P[k]
  <1>1. k \in Nat \ {0}
    BY PlanBounds
  <1>2. /\ c.command # "STORE_VALUE" => c.p2 = 0
        /\ c.command = "STORE_VALUE" <=> k = 6
        /\ k = 6 => c.p2 = 1 /\ c.var = auth
    BY PlanCommands
  <1>3. /\ c.command # "STORE_VALUE" => Noted(c, Ctx.storage[1])
        /\ c.command = "STORE_VALUE" /\ c.p2 = 1 => Noted(c, c.var)
        /\ \A x : TiedTo(c, x) => x \in {Ctx.storage[1], NameOf[Ctx.storage[1]]}
    <2> HIDE DEF c, auth
    <2>1. DeviceHandles(c)
      BY DEF c
    <2>2. QED  BY <1>2, <2>1, CommandTaken
  <1>4. k # 1 => Ctx = ctx
    BY DEF Ctx
  <1>5. Ctx.integrity \in {Upto(P, k - 1), OffList}
    <2>1. CASE k = 1
      <3>1. Ctx.integrity = <<>>
        BY <2>1 DEF Ctx, FreshCtx
      <3>2. Upto(P, 0) = <<>>
        BY DEF Upto
      <3>3. QED  BY <2>1, <3>1, <3>2
    <2>2. CASE k # 1
      BY <1>4, <2>2 DEF Done
    <2>3. QED  BY <2>1, <2>2
  <1>6. Entry(c) = <<Entry(c)[1], Entry(c)[2], Entry(c)[3]>>
    BY DEF Entry
  <1> HIDE DEF c
  <1>7. ChainAfter(Ctx.integrity, Entry(c)[1], Entry(c)[2], Entry(c)[3]) \in {Upto(P, k), OffList}
    <2>1. CASE Ctx.integrity = OffList
      BY <2>1, OffListStays
    <2>2. CASE Ctx.integrity = Upto(P, k - 1)
      <3>1. Append(Ctx.integrity, Entry(c)) = Upto(P, k)
        BY <1>1, <2>2, UptoNext DEF c
      <3>2. QED  BY <1>6, <3>1 DEF ChainAfter
    <2>3. QED  BY <1>5, <2>1, <2>2
  <1>8. ctx'.integrity \in {Upto(P, k), OffList} /\ instr' = "SIGN_TX" /\ reply'.to = DeviceName(c.command)
    BY <1>2, <1>3, <1>7 DEF Noted
  <1>9. k >= 6 => ctx'.storage[1] = auth
    <2>1. CASE k = 6
      BY <1>2, <1>3, <2>1 DEF Noted
    <2>2. CASE k > 6
      <3>1. Ctx.storage[1] = auth
        BY <1>1, <1>4, <2>2 DEF Done
      <3>2. QED  BY <1>1, <1>2, <1>3, <2>2, <3>1 DEF Noted
    <2>3. QED  BY <1>1, <2>1, <2>2
  <1>10. \A i \in 7..k : \A x : TiedTo(P[i], x) => x \in {auth, NameOf[auth]}
    <2> TAKE i \in 7..k
    <2> TAKE x
    <2>1. k # 1 /\ Ctx = ctx /\ (i = k \/ i \in 7..k - 1) /\ k - 1 >= 6
      BY <1>1, <1>4
    <2>2. CASE i = k
      BY <1>3, <2>1, <2>2 DEF Done, c
    <2>3. CASE i \in 7..k - 1
      BY <2>1, <2>3 DEF Done
    <2>4. QED  BY <2>1, <2>2, <2>3
  <1>11. QED  BY <1>8, <1>9, <1>10 DEF Done, c

\* The state of the proof.
AllInv == CallInv /\ TypeOK /\ ReleaseInv

\* A command is sent.
LEMMA SendKept == AllInv /\ SessionInv /\ Send => SessionInv'
  <1> SUFFICES ASSUME AllInv, SessionInv, Send PROVE SessionInv'
    OBVIOUS
  <1> DEFINE P == Plan[host.id]
             k == host.next
             action == ActionOfRequest(host.id)
  <1>1. /\ host.state = "sending" /\ DeviceHandles(P[k])
        /\ host'.state = "awaiting" /\ host'.id = host.id /\ host'.next = k /\ host'.why = host.why
    BY DEF Send, AllInv, CallInv, NextCommand
  <1>2. Planned(P, action) /\ k \in DOMAIN P
    <2>1. host.id \in DOMAIN parsed /\ P \notin {Invalid, <<>>} /\ k \in DOMAIN P
      BY <1>1 DEF AllInv, CallInv, InCall
    <2>2. QED  BY <2>1, PlansPlanned
  <1>3. TypeOK
    BY DEF AllInv
  <1>4. /\ k = 1 => instr = "NONE"
        /\ k # 1 => instr = "SIGN_TX" /\ Done(ctx, P, AuthorizerOf(host.id), k - 1)
    BY <1>1 DEF SessionInv
  <1>5. AuthorizerOf(host.id) = action.authorization[1].actor
    BY DEF AuthorizerOf
  <1> HIDE DEF P, k, action
  <1>6. ASSUME reply'.status \in Taken
        PROVE  /\ reply'.to = DeviceName(P[k].command)
               /\ Done(ctx', P, AuthorizerOf(host.id), k)
               /\ instr' = "SIGN_TX"
               /\ P[k].command = "START_DH_ENCRYPTION" =>
                    reply'.status = "pending" /\ ui' = "dhStart" /\ ctx'.responseLength = InitWritten
               /\ P[k].command = "FINISH" => reply'.status = "pending"
    <2>1. /\ Done(ctx', P, AuthorizerOf(host.id), k)
          /\ instr' = "SIGN_TX" /\ reply'.to = DeviceName(P[k].command)
      BY <1>1, <1>2, <1>3, <1>4, <1>5, <1>6, SendDone
    <2>2. P[k].command # "STORE_VALUE" => P[k].p2 = 0
      BY <1>2, PlanCommands
    <2>3. /\ P[k].command = "START_DH_ENCRYPTION" =>
               reply'.status = "pending" /\ ui' = "dhStart" /\ ctx'.responseLength = InitWritten
          /\ P[k].command = "FINISH" => reply'.status = "pending"
      BY <1>1, <1>3, <1>6, <2>2, CommandTaken
    <2>4. QED  BY <2>1, <2>3
  <1>7. /\ DeviceName(P[k].command) = "DH_START" =>
             P[k].command \in {"DH_START", "START_DH_ENCRYPTION"}
        /\ DeviceName(P[k].command) = "FINISH" => P[k].command = "FINISH"
        /\ P[k].command # "DH_START"
    <2>1. P[k].command # "DH_START"
      BY <1>2, PlanCommands
    <2>2. QED  BY <2>1 DEF DeviceName
  <1>8. QED
    BY <1>1, <1>6, <1>7 DEF SessionInv, LengthsAsExpected, AuthorizerOf, P, k

\* A call that is over, or not yet at its first command.
LEMMA NoCommandKept ==
  ASSUME SessionInv, host'.state \notin {"sending", "awaiting"},
         host'.why \in {host.why, "none", "invalid data", "ERR_STILL_IN_CALL", "disconnected",
                        "unexpected error", "device error", "abandoned"}
  PROVE  SessionInv'
  BY DEF SessionInv, LengthsAsExpected

\* The answer to a command is as long as the library expects.
LEMMA AnswerExpected ==
  ASSUME AllInv, SessionInv, host.state = "awaiting", reply.status = "success"
  PROVE  AsExpected(NextCommand)
  <1> DEFINE P == Plan[host.id]
             k == host.next
  <1>1. Planned(P, ActionOfRequest(host.id)) /\ k \in DOMAIN P
    <2>1. host.id \in DOMAIN parsed /\ P \notin {Invalid, <<>>} /\ k \in DOMAIN P
      BY DEF AllInv, CallInv, InCall
    <2>2. QED  BY <2>1, PlansPlanned
  <1>2. /\ reply.to = DeviceName(P[k].command)
        /\ reply.to = "DH_START" => reply.length = InitWritten
        /\ reply.to = "FINISH" => reply.length = SIGNATURE_LENGTH
    BY DEF SessionInv, Taken
  <1> HIDE DEF P, k
  <1>3. P[k].expectedResponseLength =
          CASE P[k].command = "START_DH_ENCRYPTION" -> InitWritten
            [] P[k].command = "FINISH" -> SIGNATURE_LENGTH
            [] OTHER -> NoExpectation
    BY <1>1, PlanCommands
  <1>4. P[k].expectedResponseLength \in {NoExpectation, reply.length}
    BY <1>2, <1>3 DEF DeviceName
  <1>5. QED  BY <1>4 DEF AsExpected, NextCommand, P, k

\* Its answer is received.
LEMMA ReceiveKept == AllInv /\ SessionInv /\ Receive => SessionInv'
  <1> SUFFICES ASSUME AllInv, SessionInv, Receive PROVE SessionInv'
    OBVIOUS
  <1>1. /\ host.state = "awaiting" /\ reply.status \in {"success", "error", "reset"}
        /\ "state" \in DOMAIN host /\ "next" \in DOMAIN host /\ "why" \in DOMAIN host
    BY DEF Receive, AllInv, CallInv, TypeOK, Replies
  <1>2. CASE reply.status \in {"error", "reset"}
    <2>1. Ends("device error") \/ Ends("disconnected")
      BY <1>2 DEF Receive
    <2>2. QED  BY <1>1, <2>1, NoCommandKept DEF Ends
  <1>3. CASE reply.status = "success"
    <2>1. host' = IF NextCommand.command = "FINISH"
                  THEN [host EXCEPT !.state = "signed"]
                  ELSE [host EXCEPT !.state = "sending", !.next = @ + 1, !.dh = @ + reply.length]
      BY <1>1, <1>3, AnswerExpected DEF Receive
    <2>2. CASE NextCommand.command = "FINISH"
      BY <1>1, <2>1, <2>2, NoCommandKept
    <2>3. CASE NextCommand.command # "FINISH"
      <3> DEFINE k == host.next
                 P == Plan[host.id]
      <3>1. /\ host'.state = "sending" /\ host'.next = k + 1 /\ host'.id = host.id
            /\ host'.why = host.why
        BY <1>1, <2>1, <2>3
      <3>2. k \in Nat \ {0}
        <4>1. Planned(P, ActionOfRequest(host.id)) /\ k \in DOMAIN P
          BY <1>1, PlansPlanned DEF AllInv, CallInv, InCall
        <4>2. QED  BY <4>1, PlanBounds
      <3>3. Done(ctx, P, AuthorizerOf(host.id), k) /\ instr = "SIGN_TX"
        BY <1>1, <1>3, <2>3 DEF SessionInv, Taken, NextCommand
      <3>4. ui = "none"
        BY <1>3 DEF AllInv, ReleaseInv
      <3>5. ui' = ui /\ instr' = instr /\ ctx' = ctx
        BY DEF Receive, device, vars
      <3>6. Done(ctx', P, AuthorizerOf(host.id), k)
        BY <3>3, <3>5
      <3> HIDE DEF k
      <3>7. k + 1 # 1 /\ (k + 1) - 1 = k
        BY <3>2
      <3>8. Done(ctx', P, AuthorizerOf(host'.id), host'.next - 1)
        BY <3>1, <3>6, <3>7 DEF AuthorizerOf
      <3>9. LengthsAsExpected'
        BY <3>1 DEF SessionInv, LengthsAsExpected
      <3>10. QED
        BY <3>1, <3>3, <3>4, <3>5, <3>7, <3>8, <3>9 DEF SessionInv
    <2>4. QED  BY <2>2, <2>3
  <1>4. QED  BY <1>1, <1>2, <1>3

\* The user acts while the library waits for an answer, and never otherwise
\* during a call.
LEMMA UserKept == AllInv /\ SessionInv /\ UserActs => SessionInv'
  <1> SUFFICES ASSUME AllInv, SessionInv, UserActs PROVE SessionInv'
    OBVIOUS
  <1>1. ui # "none" /\ reply.status = "pending" /\ host' = host
    BY DEF UserActs, User, UserReads, UserConfirms, UserRejects, AllInv, ReleaseInv
  <1>2. CASE host.state \notin {"sending", "awaiting"}
    BY <1>1, <1>2, NoCommandKept
  <1>3. CASE host.state = "sending"
    BY <1>1, <1>3 DEF SessionInv
  <1>4. CASE host.state = "awaiting"
    <2> DEFINE command == Plan[host.id][host.next].command
               reached == Done(ctx, Plan[host.id], AuthorizerOf(host.id), host.next)
    <2>1. /\ reply.to = DeviceName(command) /\ reached
          /\ command # "FINISH" => instr = "SIGN_TX"
          /\ reply.to = "DH_START" => ui = "dhStart" /\ ctx.responseLength = InitWritten
      BY <1>1, <1>4 DEF SessionInv, Taken
    <2>2. reply.to = "FINISH" => command = "FINISH"
      BY <2>1 DEF DeviceName
    <2>3. ctx' = ctx /\ reply'.to = reply.to
      BY DEF UserActs, User, UserReads, UserConfirms, UserRejects, Respond, EndSession,
             AllInv, TypeOK, Replies
    <2>4. reached'
      BY <1>1, <2>1, <2>3 DEF AuthorizerOf
    <2>5. ASSUME reply'.status \in Taken
          PROVE  /\ command # "FINISH" => instr' = "SIGN_TX"
                 /\ reply'.to = "DH_START" /\ reply'.status = "pending" =>
                      ui' = "dhStart" /\ ctx'.responseLength = InitWritten
                 /\ reply'.to = "DH_START" /\ reply'.status = "success" =>
                      reply'.length = InitWritten
                 /\ reply'.to = "FINISH" /\ reply'.status = "success" =>
                      reply'.length = SIGNATURE_LENGTH
      <3> HIDE DEF command, reached
      <3>1. DOMAIN reply = {"to", "status", "length"}
        BY DEF AllInv, TypeOK, Replies
      <3>2. CASE ui \in {"details", "dhStart"} /\ Respond
        <4>1. reply.to \notin Releasing
          BY <3>2 DEF AllInv, ReleaseInv
        <4>2. QED  BY <2>1, <2>3, <3>1, <3>2, <4>1 DEF Respond, Releasing
      <3>3. CASE ui = "finishDetails" /\ ui' = "finishConfirm" /\ UNCHANGED <<instr, ctx, hist, reply>>
        <4>1. reply.to = "FINISH"
          BY <3>3 DEF AllInv, ReleaseInv
        <4>2. QED  BY <1>1, <2>1, <2>2, <3>3, <4>1
      <3>4. CASE ui = "dhConfirm" /\ Respond
        <4>1. reply.to = "DH_END"
          BY <3>4 DEF AllInv, ReleaseInv
        <4>2. QED  BY <2>1, <2>3, <3>1, <3>4, <4>1 DEF Respond
      <3>5. CASE ui = "finishConfirm" /\ EndSession("success", SIGNATURE_LENGTH)
        <4>1. reply.to = "FINISH"
          BY <3>5 DEF AllInv, ReleaseInv
        <4>2. QED  BY <2>1, <2>2, <2>3, <3>1, <3>5, <4>1 DEF EndSession
      <3>6. CASE UserRejects
        BY <2>5, <3>1, <3>6 DEF UserRejects, EndSession, Taken
      <3>7. QED
        BY <3>2, <3>3, <3>4, <3>5, <3>6 DEF UserActs, User, UserReads, UserConfirms
    <2>6. LengthsAsExpected'
      BY <1>1 DEF SessionInv, LengthsAsExpected
    <2>7. QED
      BY <1>1, <1>4, <2>1, <2>3, <2>4, <2>5, <2>6 DEF SessionInv, AuthorizerOf
  <1>5. QED  BY <1>2, <1>3, <1>4

\* Every step keeps what a session has got to.
LEMMA SessionInvKept == AllInv /\ SessionInv /\ [HostNext]_hostVars => SessionInv'
  <1> SUFFICES ASSUME AllInv, SessionInv, [HostNext]_hostVars PROVE SessionInv'
    OBVIOUS
  <1>1. "state" \in DOMAIN host /\ "why" \in DOMAIN host /\ "next" \in DOMAIN host
    BY DEF AllInv, CallInv
  <1>2. ASSUME NEW id \in DOMAIN parsed, Call(id) PROVE SessionInv'
    BY <1>2, NoCommandKept DEF Call
  <1>3. ASSUME NEW why \in {"invalid data", "ERR_STILL_IN_CALL", "disconnected",
                            "unexpected error", "abandoned"},
               Ends(why)
        PROVE  SessionInv'
    BY <1>1, <1>3, NoCommandKept DEF Ends
  <1>4. CASE VersionRefused \/ VersionDisturbs \/ Refuse \/ Abandon
    BY <1>3, <1>4 DEF VersionRefused, VersionDisturbs, Refuse, Abandon
  <1>5. CASE VersionAnswered
    <2>1. CASE Plan[host.id] \in {Invalid, <<>>}
      BY <1>3, <1>5, <2>1 DEF VersionAnswered
    <2>2. CASE Plan[host.id] \notin {Invalid, <<>>}
      <3>1. /\ host'.state = "sending" /\ host'.next = 1 /\ host'.why = host.why
            /\ ui' = "none" /\ instr' = "NONE"
        BY <1>1, <1>5, <2>2 DEF VersionAnswered, AllInv, CallInv, device, vars
      <3>2. QED  BY <3>1 DEF SessionInv, LengthsAsExpected
    <2>3. QED  BY <2>1, <2>2
  <1>6. CASE Unplug
    <2>1. CASE InCall
      BY <1>3, <1>6, <2>1 DEF Unplug
    <2>2. CASE ~InCall
      BY <1>6, <2>2, NoCommandKept DEF Unplug, InCall
    <2>3. QED  BY <2>1, <2>2
  <1>7. CASE UNCHANGED hostVars
    BY <1>7 DEF hostVars, SessionInv, LengthsAsExpected, Done, AuthorizerOf
  <1>8. QED
    BY <1>2, <1>4, <1>5, <1>6, <1>7, SendKept, ReceiveKept, UserKept DEF HostNext, HostStep

\* So it holds throughout, with all that the proof rests on.
LEMMA SessionInvHolds == HostSpec => [](AllInv /\ SessionInv)
  <1>1. HostInit => SessionInv
    BY DEF HostInit, SessionInv, LengthsAsExpected
  <1>2. HostSpec => []AllInv
    BY CallInvHolds, Host_Implements, ReleaseInvHolds, PTL DEF AllInv
  <1>3. QED  BY <1>1, <1>2, SessionInvKept, PTL DEF HostSpec

-----------------------------------------------------------------------------
(* What a call gives.                                                      *)

\* The assertion of _send on the length of an answer never fails, whatever is
\* requested (fio.ts, _send; signTransaction.ts, dataAction).
THEOREM Lengths_As_Expected == HostSpec => []LengthsAsExpected
  <1>1. SessionInv => LengthsAsExpected
    BY DEF SessionInv
  <1>2. QED  BY <1>1, SessionInvHolds, PTL

\* When the version is refused because the device is still in a call, the
\* refusal itself has ended that call (main.c, the instruction check).
THEOREM Still_In_Call_Once == HostSpec => StillInCallOnce
  <1>1. ASSUME CallInv, [HostNext]_hostVars, host'.why = "ERR_STILL_IN_CALL",
               host.why # "ERR_STILL_IN_CALL"
        PROVE  instr' = "NONE" /\ ui' = "none"
    <2>1. "why" \in DOMAIN host
      BY <1>1 DEF CallInv
    <2>2. ASSUME NEW why, why # "ERR_STILL_IN_CALL", Ends(why) PROVE FALSE
      BY <1>1, <2>1, <2>2 DEF Ends
    <2>3. host' # host
      BY <1>1
    <2>4. CASE VersionRefused
      BY <2>4 DEF VersionRefused, BadRequest, Execute, Error
    <2>5. CASE VersionDisturbs \/ Refuse \/ Abandon
      BY <2>2, <2>5 DEF VersionDisturbs, Refuse, Abandon
    <2>6. CASE VersionAnswered \/ Send \/ Receive
      BY <1>1, <2>1, <2>2, <2>6 DEF VersionAnswered, Send, Receive
    <2>7. CASE Unplug \/ UserActs
      BY <2>2, <2>3, <2>7 DEF Unplug, UserActs
    <2>8. ASSUME NEW id \in DOMAIN parsed, Call(id) PROVE FALSE
      BY <1>1, <2>8 DEF Call
    <2>9. QED
      BY <1>1, <2>3, <2>4, <2>5, <2>6, <2>7, <2>8 DEF HostNext, HostStep, hostVars
  <1>2. QED  BY <1>1, CallInvHolds, PTL DEF HostSpec, StillInCallOnce

\* A call that ends with a signature has had all of its commands handled.
LEMMA SignedAll ==
  ASSUME AllInv, SessionInv, [HostNext]_hostVars, Signs
  PROVE  LET P == Plan[host.id]
         IN  /\ Planned(P, ActionOfRequest(host.id))
             /\ Done(ctx, P, AuthorizerOf(host.id), Len(P))
             /\ reply.status = "success" /\ reply.to = "FINISH"
  <1> DEFINE P == Plan[host.id]
             k == host.next
  <1>1. "state" \in DOMAIN host /\ host.state = "awaiting" /\ host'.state = "signed"
    BY DEF AllInv, CallInv, Signs
  <1>2. ASSUME NEW why, Ends(why) PROVE FALSE
    BY <1>1, <1>2 DEF Ends
  <1>3. Receive
    <2>1. ~VersionRefused /\ ~VersionDisturbs /\ ~VersionAnswered /\ ~Refuse /\ ~Send
      BY <1>1 DEF VersionRefused, VersionDisturbs, VersionAnswered, Refuse, Send
    <2>2. ~Abandon /\ ~Unplug /\ ~UserActs /\ ~UNCHANGED hostVars
      BY <1>1, <1>2 DEF Abandon, Unplug, UserActs, hostVars, InCall
    <2>3. \A id \in DOMAIN parsed : ~Call(id)
      BY <1>1 DEF Call
    <2>4. QED  BY <2>1, <2>2, <2>3 DEF HostNext, HostStep
  <1>4. NextCommand.command = "FINISH" /\ reply.status = "success"
    <2>1. reply.status \in {"success", "error", "reset"}
      BY <1>3 DEF Receive, AllInv, TypeOK, Replies
    <2>2. QED  BY <1>1, <1>2, <1>3, <2>1 DEF Receive
  <1>5. Planned(P, ActionOfRequest(host.id)) /\ k \in DOMAIN P
    BY <1>1, PlansPlanned DEF AllInv, CallInv, InCall
  <1>6. /\ reply.to = DeviceName(P[k].command)
        /\ Done(ctx, P, AuthorizerOf(host.id), k)
    BY <1>1, <1>4 DEF SessionInv, Taken
  <1>7. P[k].command = "FINISH"
    BY <1>4 DEF NextCommand
  <1> HIDE DEF P, k
  <1>8. k = Len(P)
    BY <1>5, <1>7, PlanCommands
  <1>9. reply.to = "FINISH"
    BY <1>6, <1>7 DEF DeviceName
  <1>10. QED  BY <1>4, <1>5, <1>6, <1>8, <1>9 DEF P

\* A signature is given only for an action done in the name of the actor that
\* authorizes it (STORE_VALUE of the authorizer and the check of the actor
\* against it, in every template).
THEOREM Signs_For_The_Actor == HostSpec => SignsForTheActor
  <1>1. ASSUME AllInv, SessionInv, [HostNext]_hostVars, Signs
        PROVE  LET actor == Data(host.id).actor
                   authorized == parsed[host.id].tx.actions[1].authorization[1].actor
               IN  actor \in {authorized, NameOf[authorized]}
    <2> DEFINE P == Plan[host.id]
               auth == AuthorizerOf(host.id)
               actor == Data(host.id).actor
    <2>1. Planned(P, ActionOfRequest(host.id)) /\ Done(ctx, P, auth, Len(P))
      BY <1>1, SignedAll
    <2>2. PICK i \in DOMAIN P : i >= 7 /\ TiedTo(P[i], actor)
      BY <2>1 DEF Planned, ActionOfRequest, Data
    <2>3. i \in 7..Len(P)
      <3> HIDE DEF P
      <3>1. Len(P) \in Nat /\ DOMAIN P = 1..Len(P)
        BY <2>1, PlanBounds
      <3>2. QED  BY <2>2, <3>1
    <2>4. actor \in {auth, NameOf[auth]}
      BY <2>1, <2>2, <2>3 DEF Done
    <2>5. QED  BY <2>4 DEF AuthorizerOf, ActionOfRequest
  <1>2. QED  BY <1>1, SessionInvHolds, PTL DEF HostSpec, SignsForTheActor

\* The device has seen just the commands of the request.
SignsItsOwnSequence == [][ Signs => ctx.integrity = EntriesOf(Plan[host.id]) ]_hostVars

\* With the integrity check, a signature is given only when the chain of the
\* device is the one of all the commands of the request, none lost, none
\* repeated and none of another host among them (integrityCheckEvaluate).
THEOREM Signs_Its_Own_Sequence == ASSUME IntegrityCheck PROVE HostSpec => SignsItsOwnSequence
  <1>1. ASSUME AllInv, SessionInv, [HostNext]_hostVars, Signs
        PROVE  ctx.integrity = EntriesOf(Plan[host.id])
    <2> DEFINE P == Plan[host.id]
    <2>1. /\ Planned(P, ActionOfRequest(host.id))
          /\ Done(ctx, P, AuthorizerOf(host.id), Len(P))
          /\ reply.status = "success" /\ reply.to = "FINISH"
      BY <1>1, SignedAll
    <2>2. ctx.integrity \in Allowed
      BY <1>1, <2>1 DEF AllInv, ReleaseInv, Ripe, Releasing
    <2>3. ctx.integrity = Upto(P, Len(P))
      BY <2>1, <2>2, ListAssumption DEF Done
    <2> HIDE DEF P
    <2>4. DOMAIN P = 1..Len(P)
      BY <2>1, PlanBounds
    <2>5. QED  BY <2>3, <2>4 DEF Upto, EntriesOf, P
  <1>2. QED  BY <1>1, SessionInvHolds, PTL DEF HostSpec, SignsItsOwnSequence

\* Through the library too, what completes an encrypted part and a signature
\* leave the device only for a listed chain with nothing open.
THEOREM Host_Releases == ASSUME IntegrityCheck PROVE HostSpec => []ReleaseJustified
  BY Host_Implements, Release_Justified, PTL

-----------------------------------------------------------------------------
(* Types of a call.                                                        *)

Whys == {"none", "invalid data", "ERR_STILL_IN_CALL", "disconnected",
         "unexpected error", "device error", "unexpected length", "abandoned"}
HostRecords ==
  [state : {"idle", "version", "sending", "awaiting", "signed", "failed"},
   id : DOMAIN parsed \cup {NoRequest}, next : Nat \ {0}, dh : Nat, why : Whys]

HostRecord == host \in HostRecords

\* Every step keeps the type of the record.
LEMMA HostRecordKept == HostRecord /\ TypeOK /\ [HostNext]_hostVars => HostRecord'
  <1> SUFFICES ASSUME host \in HostRecords, TypeOK, [HostNext]_hostVars
               PROVE  host' \in HostRecords
    BY DEF HostRecord
  <1>1. ASSUME NEW why \in Whys, Ends(why) PROVE host' \in HostRecords
    BY <1>1 DEF Ends, HostRecords
  <1>2. ASSUME NEW id \in DOMAIN parsed, Call(id) PROVE host' \in HostRecords
    <2> DEFINE state == IF parsed[id] = Invalid THEN "failed" ELSE "version"
               why == IF parsed[id] = Invalid THEN "invalid data" ELSE "none"
    <2>1. host' = [state |-> state, id |-> id, next |-> 1, dh |-> 0, why |-> why]
      BY <1>2 DEF Call
    <2>2. why \in Whys
      <3>1. "invalid data" \in Whys /\ "none" \in Whys
        BY Zenon DEF Whys
      <3>2. why \in {"invalid data", "none"}
        BY Zenon
      <3>3. QED  BY <3>1, <3>2, Zenon
    <2>3. state \in {"failed", "version"}
      OBVIOUS
    <2> HIDE DEF state, why
    <2>4. QED  BY <2>1, <2>2, <2>3 DEF HostRecords
  <1>3. CASE VersionRefused \/ VersionDisturbs \/ Refuse \/ Abandon
    BY <1>1, <1>3 DEF VersionRefused, VersionDisturbs, Refuse, Abandon, Whys
  <1>4. CASE VersionAnswered
    BY <1>1, <1>4 DEF VersionAnswered, HostRecords, Whys
  <1>5. CASE Send
    BY <1>5 DEF Send, HostRecords
  <1>6. CASE Receive
    <2>1. reply.length \in Nat
      BY DEF TypeOK, Replies
    <2>2. CASE \E why \in Whys : Ends(why)
      BY <1>1, <2>2
    <2>3. CASE host' = [host EXCEPT !.state = "signed"]
      BY <2>3 DEF HostRecords
    <2>4. CASE host' = [host EXCEPT !.state = "sending", !.next = @ + 1, !.dh = @ + reply.length]
      <3> DEFINE n == host.next + 1
                 d == host.dh + reply.length
      <3>1. n \in Nat \ {0} /\ d \in Nat
        BY <2>1 DEF HostRecords
      <3>2. host' = [host EXCEPT !.state = "sending", !.next = n, !.dh = d]
        BY <2>4
      <3> HIDE DEF n, d
      <3>3. QED  BY <3>1, <3>2 DEF HostRecords
    <2>5. QED  BY <1>6, <2>2, <2>3, <2>4 DEF Receive, Whys
  <1>7. CASE Unplug
    BY <1>1, <1>7 DEF Unplug, Whys
  <1>8. CASE UserActs \/ UNCHANGED hostVars
    BY <1>8 DEF UserActs, hostVars
  <1>9. QED
    BY <1>2, <1>3, <1>4, <1>5, <1>6, <1>7, <1>8 DEF HostNext, HostStep

\* A call under way works on a request whose parsed form has the types that
\* internal.ts declares, for every request of the types of public.ts: the
\* parsers let nothing else through.
THEOREM Host_Types == HostSpec => []HostTypeOK
  <1>1. HostInit => HostRecord
    BY DEF HostInit, HostRecord, HostRecords, Whys
  <1>2. HostSpec => []TypeOK
    BY Host_Implements, TypeCorrect, PTL
  <1>3. CallInv /\ HostRecord => HostTypeOK
    <2>1. ASSUME CallInv, InCall
          PROVE  /\ parsed[host.id].path \in ValidBIP32Path
                 /\ parsed[host.id].chainId \in HexString
                 /\ parsed[host.id].tx \in ParsedTransaction
      BY <2>1, PlansPlanned DEF CallInv
    <2>2. QED  BY <2>1 DEF HostTypeOK, HostRecord, HostRecords, Whys
  <1>4. HostSpec => []HostRecord
    BY <1>1, <1>2, HostRecordKept, PTL DEF HostSpec
  <1>5. QED  BY <1>3, <1>4, CallInvHolds, PTL
=============================================================================
