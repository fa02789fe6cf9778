---------------------------- MODULE Device_proofs ----------------------------
(***************************************************************************)
(* For every set of messages, any host and any user: the instructions of   *)
(* Device stay within the frame of Dispatcher, so what is proved of the    *)
(* frame holds of the device; and DeviceInv, one inductive invariant over  *)
(* both, is behind what the instructions promise themselves.               *)
(***************************************************************************)
EXTENDS Device, Dispatcher_proofs, SequenceTheorems

\* What a handler may do, in the frame's terms: answer, show a screen, or
\* restart the device.
Framed(ins) ==
  \/ \E f \in Follows : HandlerAnswers(ins, f)
  \/ \E k \in Kinds : HandlerShows(ins, k)
  \/ Restart

LEMMA WaysToEnd ==
  ASSUME NEW ins, NEW c
  PROVE  /\ \A a, f : f \in Follows /\ AnswersNow(ins, c, a, f) => Framed(ins)
         /\ \A code : Throws(ins, c, code) => Framed(ins)
         /\ \A screens : Shows(ins, c, screens) => Framed(ins)
         /\ Crashes => Framed(ins)
         /\ "idle" \in Follows /\ "busy" \in Follows
  <1>1. \A s : KindOf(s) \in Kinds
    BY DEF KindOf, Kinds
  <1>2. "idle" \in Follows /\ "busy" \in Follows
    BY DEF Follows
  <1>3. \A screens : Shows(ins, c, screens) => Framed(ins)
    BY <1>1 DEF Shows, Framed
  <1>4. QED
    BY <1>2, <1>3 DEF AnswersNow, Throws, HandlerThrows, Crashes, Framed

\* Each handler ends in one of these ways.
LEMMA GetVersionFramed == \A a : GetVersion(a) => Framed(a.ins)
  BY WaysToEnd DEF GetVersion

LEMMA GetSerialFramed == \A a : GetSerial(a) => Framed(a.ins)
  BY WaysToEnd DEF GetSerial

\* The policy of a public key decides, and what it decides of which path.
LEMMA Policies ==
  ASSUME NEW path, NEW show
  PROVE  LET policy == policyForGetPublicKey(path, show)
         IN  /\ policy \in {"DENY", "WARN", "PROMPT", "ALLOW"}
             /\ policy = "WARN" => path # "foreign"
             /\ policy = "PROMPT" => path = "usual"
             /\ policy = "ALLOW" => /\ path \notin {"foreign", "unusual"}
                                    /\ path = "usual" => show = "DO_NOT_SHOW"
  <1>1. CASE path = "foreign"
    BY <1>1 DEF policyForGetPublicKey
  <1>2. CASE path = "unusual"
    BY <1>2 DEF policyForGetPublicKey
  <1>3. CASE path = "usual"
    BY <1>3 DEF policyForGetPublicKey
  <1>4. CASE path \notin {"foreign", "unusual", "usual"}
    BY <1>4 DEF policyForGetPublicKey
  <1>5. QED  BY <1>1, <1>2, <1>3, <1>4

LEMMA GetPublicKeyFramed == \A a : GetPublicKey(a) => Framed(a.ins)
  <1> SUFFICES ASSUME NEW a, GetPublicKey(a) PROVE Framed(a.ins)
    OBVIOUS
  <1> DEFINE c == [ZeroCtx EXCEPT !.stage = "INIT", !.path = a.data, !.show = a.p1]
             policy == policyForGetPublicKey(a.data, a.p1)
  <1>1. policy \in {"DENY", "WARN", "PROMPT", "ALLOW"}
    BY Policies
  <1>2. CASE ~NewCall
    BY <1>2, WaysToEnd DEF GetPublicKey
  <1>3. CASE NewCall /\ a.p1 \notin {"SHOW", "DO_NOT_SHOW"}
    BY <1>3, WaysToEnd DEF GetPublicKey
  <1>4. CASE NewCall /\ a.p1 \in {"SHOW", "DO_NOT_SHOW"}
    <2>1. \/ \E code : Throws(a.ins, c, code)
          \/ \E s : Shows(a.ins, c, s)
          \/ \E d, r : AnswersNow(a.ins, d, r, "idle")
      BY <1>1, <1>4 DEF GetPublicKey
    <2>2. QED  BY <2>1, WaysToEnd
  <1>5. QED  BY <1>2, <1>3, <1>4

LEMMA DecodeReceiveFramed == \A a, c : DecodeReceive(a, c) => Framed(a.ins)
  BY WaysToEnd DEF DecodeReceive

LEMMA DecodeDecodeFramed == \A a, c : DecodeDecode(a, c) => Framed(a.ins)
  <1> SUFFICES ASSUME NEW a, NEW c, DecodeDecode(a, c) PROVE Framed(a.ins)
    OBVIOUS
  <1>1. \/ \E d, code : Throws(a.ins, d, code)
        \/ \E d, s : Shows(a.ins, d, s)
    BY DEF DecodeDecode
  <1>2. QED  BY <1>1, WaysToEnd

LEMMA DecodeSendRestFramed == \A a, c : DecodeSendRest(a, c) => Framed(a.ins)
  <1> SUFFICES ASSUME NEW a, NEW c, DecodeSendRest(a, c) PROVE Framed(a.ins)
    OBVIOUS
  <1>1. \/ \E code : Throws(a.ins, c, code)
        \/ \E d, r : AnswersNow(a.ins, d, r, "idle") \/ AnswersNow(a.ins, d, r, "busy")
    BY DEF DecodeSendRest
  <1>2. QED  BY <1>1, WaysToEnd

LEMMA DecodeFramed == \A a : Decode(a) => Framed(a.ins)
  BY WaysToEnd, DecodeReceiveFramed, DecodeDecodeFramed, DecodeSendRestFramed DEF Decode

\* A command is a step of the frame.
LEMMA CommandFramed == \A a \in Apdus : Command(a) => [FrameNext]_frame
  <1> SUFFICES ASSUME NEW a \in Apdus, Command(a) PROVE FrameNext
    OBVIOUS
  <1>1. a.ins \in Instructions
    BY HandlersAssumption DEF Apdus
  <1>2. CASE MayCall(a.ins)
    <2>1. Framed(a.ins)
      BY <1>2, GetVersionFramed, GetSerialFramed, GetPublicKeyFramed, DecodeFramed DEF Command
    <2>2. Handle(a.ins) \/ Reset
      BY <1>2, <2>1 DEF Framed, Command, Handle, Reset
    <2>3. QED  BY <1>1, <2>2 DEF FrameNext
  <1>3. CASE ~MayCall(a.ins)
    BY <1>1, <1>3 DEF Command, Throws, StillInCall, FrameNext
  <1>4. QED  BY <1>2, <1>3

\* So is every step of the device, or it leaves the frame alone.
LEMMA StepFramed == [Next]_vars => [FrameNext]_frame
  <1> SUFFICES ASSUME [Next]_vars PROVE [FrameNext]_frame
    OBVIOUS
  <1>1. ASSUME NEW a \in Apdus, Command(a) PROVE [FrameNext]_frame
    BY <1>1, CommandFramed
  <1>2. CASE Refused
    BY <1>2 DEF Refused, Throws, BadRequest, FrameNext
  <1>3. CASE AnswerSent
    BY <1>3 DEF AnswerSent, FrameNext
  <1>4. CASE UserConfirms
    <2> DEFINE kind == KindOf(Head(flow))
    <2>1. \A s : KindOf(s) \in Kinds
      BY DEF KindOf, Kinds
    <2>2. Pressed(kind)
      BY <1>4 DEF UserConfirms
    <2>3. \/ \E f \in Follows : CallbackAnswers(f)
          \/ \E k \in Kinds : CallbackShows(k)
          \/ Restart
      BY <1>4, <2>1 DEF UserConfirms, Respond, NextScreen, Crashes, Follows
    <2>4. (\E k \in Kinds : Confirm(k)) \/ Reset
      BY <2>1, <2>2, <2>3 DEF Confirm, Reset
    <2>5. QED  BY <2>4 DEF FrameNext
  <1>5. CASE UserRejects
    BY <1>5 DEF UserRejects, FrameNext
  <1>6. CASE Disturbed \/ Unplugged
    BY <1>6 DEF Disturbed, Unplugged, Crashes, Reset, FrameNext
  <1>7. CASE UNCHANGED vars
    BY <1>7 DEF vars
  <1>8. QED
    BY <1>1, <1>2, <1>3, <1>4, <1>5, <1>6, <1>7 DEF Next

-------------------------------------------------------------------------------
\* Every step of the device is a step of the frame or leaves it alone: an
\* instruction can neither answer twice, nor leave a command without an answer
\* or a screen, nor change the current instruction during a call.
THEOREM DeviceImplementsFrame == Spec => FrameSpec
  <1>1. Init => FrameInit
    BY DEF Init
  <1>2. QED  BY <1>1, StepFramed, PTL DEF Spec, FrameSpec

\* So the device answers every command at most once ...
THEOREM DeviceAnswersOnce == Spec => []OneAnswerEach
  BY DeviceImplementsFrame, OneAnswer, PTL

\* ... leaves none that nothing will answer ...
THEOREM DeviceStateTold == Spec => []StateTold
  BY DeviceImplementsFrame, StateIsTold, PTL

\* ... never fails the assertion of its buttons ...
THEOREM DeviceButtonsExpected == Spec => []ButtonsExpected
  BY DeviceImplementsFrame, ButtonsAreExpected, PTL

\* ... shows the menu exactly when no call is open ...
THEOREM DeviceMenuMeansIdle == Spec => []MenuMeansIdle
  BY DeviceImplementsFrame, MenuIsIdle, PTL

\* ... and keeps the instruction of a call until the call is over.
THEOREM DeviceInstructionKept == Spec => InstructionKept
  BY DeviceImplementsFrame, InstructionIsKept, PTL
-------------------------------------------------------------------------------
(***************************************************************************)
(* What the instructions themselves promise.                               *)
(***************************************************************************)

Stages == {"NONE", "INIT", "RECEIVE", "DECODE", "SEND_REST"}
Fragments == UNION {Range(CipherText(m)) : m \in Messages}
Contents ==
  [stage : Stages, buffer : Seq(Fragments), message : Messages \cup {None},
   bufferLen : 0..U16 - 1, bufferSentLen : 0..U16 - 1,
   path : {"none", "usual", "unusual", "foreign", "malformed"},
   show : {"none", "SHOW", "DO_NOT_SHOW"}]

ScreenNames == Texts \cup {"MESSAGE1", "MESSAGE2", "WARNING", "PATH", "PUBKEY", "CONFIRM"}

\* The screens that stand before the answer: every text of a message, what the
\* host and the policy ask for a key.
TextsOf(m) == DOMAIN m.length \cup {"CONFIRM"}
KeyScreens(c) ==
  (IF c.show = "SHOW" THEN {"PUBKEY", "CONFIRM"} ELSE {})
    \cup (IF c.path = "unusual" THEN {"WARNING", "PATH", "PUBKEY", "CONFIRM"} ELSE {})

\* bufferLen counts what was received: no message has more than two parts.
Counted(c) ==
  /\ c.bufferLen <= MAX_MESSAGE_LENGTH
  /\ Len(c.buffer) = 0 => c.bufferLen = 0
  /\ Len(c.buffer) = 1 => c.bufferLen = c.buffer[1].size
  /\ Len(c.buffer) = 2 => c.bufferLen = c.buffer[1].size + c.buffer[2].size

\* A message that was parsed is one that was sent, not larger than the buffer,
\* and all of it is text.
Parsed(c) ==
  /\ c.message \in Messages
  /\ WireSize(c.message) <= MAX_MESSAGE_LENGTH
  /\ 0 < c.bufferLen /\ c.bufferLen <= c.message.written
  /\ c.bufferSentLen <= c.bufferLen

CtxOK(c) ==
  /\ c \in Contents
  /\ c.stage = "RECEIVE" => Counted(c)
  /\ c.stage = "SEND_REST" => Parsed(c)

\* A call that is, or will be, waiting for the host: OpenCallContinues, and what
\* is left to send has been shown.
Open(ins, c, seen) ==
  /\ ins = "decode"
  /\ \/ c.stage = "RECEIVE"
     \/ /\ c.stage = "SEND_REST"
        /\ c.bufferSentLen < c.bufferLen
        /\ TextsOf(c.message) \subseteq seen

\* A call that is waiting for the user: the screens confirmed and the screens to
\* come are all there have to be.
Asking(ins, c, screens) ==
  \/ /\ ins = "decode" /\ c.stage = "DECODE"
     /\ Parsed(c) /\ c.bufferSentLen = 0
     /\ TextsOf(c.message) \subseteq screens
  \/ /\ ins = "getPublicKey" /\ c.stage = "INIT"
     /\ c.message = None /\ c.path # "foreign"
     /\ KeyScreens(c) \subseteq screens

Chunks == [of : Messages, from : Nat, to : Nat, total : Nat]

\* An answer says no more than was shown, and an error ends the call.
Answerable(a, follow, c, seen) ==
  /\ a # None
  /\ a.code # "SUCCESS" => follow = "idle" /\ a.data = None
  /\ a.data # None =>
       /\ "of" \in DOMAIN a.data => a.data \in Chunks /\ TextsOf(a.data.of) \subseteq seen
       /\ "pubkey" \in DOMAIN a.data => c.path # "foreign" /\ KeyScreens(c) \subseteq seen

DeviceInv ==
  /\ CtxOK(ctx)
  /\ flow \in Seq(ScreenNames) /\ shown \in Seq(ScreenNames)
  /\ flow # <<>> <=> screen.callback = "NOT_RUN"
  /\ flow # <<>> => Asking(currentInstruction, ctx, Range(shown) \cup Range(flow))
  /\ answer # None <=> sending # <<>>
  /\ answer # None => Answerable(answer, Head(sending), ctx, Range(shown))
  /\ (owed = 0 /\ currentInstruction # INS_NONE) \/ sending = <<"busy">>
       => Open(currentInstruction, ctx, Range(shown))

-------------------------------------------------------------------------------
\* What there is in a sequence when something is put at its end, taken from its
\* front, or taken as the last.
LEMMA RangeAppended ==
  ASSUME NEW S, NEW s \in Seq(S), NEW e \in S
  PROVE  /\ Append(s, e) \in Seq(S) /\ Len(Append(s, e)) = Len(s) + 1
         /\ \A i \in 1..Len(s) : Append(s, e)[i] = s[i]
         /\ Append(s, e)[Len(s) + 1] = e
         /\ Range(Append(s, e)) = Range(s) \cup {e}
  <1> DEFINE t == Append(s, e)
  <1>1. /\ t \in Seq(S) /\ Len(t) = Len(s) + 1 /\ t[Len(s) + 1] = e
        /\ \A i \in 1..Len(s) : t[i] = s[i]
    OBVIOUS
  <1>2. Range(t) = {t[i] : i \in 1..Len(t)} /\ Range(s) = {s[i] : i \in 1..Len(s)}
    BY <1>1, RangeEquality
  <1>3. Len(s) \in Nat
    OBVIOUS
  <1>4. 1..Len(t) = 1..Len(s) \cup {Len(s) + 1}
    BY <1>1, <1>3
  <1>5. Range(t) = Range(s) \cup {e}
    BY <1>1, <1>2, <1>4
  <1>6. QED  BY <1>1, <1>5

LEMMA RangeFirst ==
  ASSUME NEW S, NEW s \in Seq(S), s # <<>>
  PROVE  /\ Head(s) \in S /\ Tail(s) \in Seq(S)
         /\ Range(s) = {Head(s)} \cup Range(Tail(s))
         /\ Len(s) = 1 => Range(s) = {Head(s)}
         /\ Len(s) # 1 => Tail(s) # <<>>
  <1> DEFINE t == Tail(s)
  <1>1. /\ Head(s) = s[1] /\ Head(s) \in S /\ t \in Seq(S) /\ Len(t) = Len(s) - 1
        /\ Len(s) \in Nat /\ Len(s) > 0
        /\ \A i \in 1..Len(t) : t[i] = s[i + 1]
    OBVIOUS
  <1>2. Range(t) = {t[i] : i \in 1..Len(t)} /\ Range(s) = {s[i] : i \in 1..Len(s)}
    BY <1>1, RangeEquality
  <1>3. ASSUME NEW i \in 1..Len(s) PROVE i = 1 \/ (i - 1 \in 1..Len(t) /\ s[i] = t[i - 1])
    BY <1>1
  <1>4. ASSUME NEW i \in 1..Len(t) PROVE i + 1 \in 1..Len(s) /\ t[i] = s[i + 1]
    BY <1>1
  <1>5. 1 \in 1..Len(s)
    BY <1>1
  <1>6. Range(s) \subseteq {s[1]} \cup Range(t)
    <2> SUFFICES ASSUME NEW x \in Range(s) PROVE x \in {s[1]} \cup Range(t)
      OBVIOUS
    <2> HIDE DEF t
    <2>1. PICK i \in 1..Len(s) : x = s[i]
      BY <1>2
    <2>2. CASE i = 1
      BY <2>1, <2>2
    <2>3. CASE i - 1 \in 1..Len(t) /\ s[i] = t[i - 1]
      BY <1>2, <2>1, <2>3
    <2>4. QED  BY <1>3, <2>2, <2>3
  <1>7. {s[1]} \cup Range(t) \subseteq Range(s)
    BY <1>2, <1>4, <1>5
  <1>8. Len(s) = 1 => Range(s) = {Head(s)}
    <2> SUFFICES ASSUME Len(s) = 1 PROVE Range(s) = {Head(s)}
      OBVIOUS
    <2>1. \A i \in 1..Len(s) : i = 1
      OBVIOUS
    <2>2. QED  BY <1>1, <1>2, <1>5, <2>1
  <1>9. Range(s) = {Head(s)} \cup Range(Tail(s))
    BY <1>1, <1>6, <1>7
  <1>10. Len(s) # 1 => Tail(s) # <<>>
    <2>1. Len(s) # 1 => Len(t) # 0
      BY <1>1
    <2>2. Len(<<>>) = 0
      OBVIOUS
    <2>3. QED  BY <2>1, <2>2
  <1>11. QED  BY <1>1, <1>8, <1>9, <1>10

-------------------------------------------------------------------------------
\* A cipher text has one part or two, and they are all of it.
LEMMA PartsOfMessage ==
  ASSUME NEW m \in Messages
  PROVE  /\ m.written \in Nat /\ m.written >= 16
         /\ WireSize(m) = m.written + 48
         /\ CipherText(m) = [i \in 1..Len(Parts(m)) |-> Part(m, i)]
         /\ \/ /\ Len(Parts(m)) = 1 /\ Part(m, 1).size = WireSize(m)
            \/ /\ Len(Parts(m)) = 2
               /\ Part(m, 1).size \in Nat /\ Part(m, 2).size \in Nat
               /\ Part(m, 1).size + Part(m, 2).size = WireSize(m)
  <1>1. m.written \in Nat /\ m.written % 16 = 0 /\ m.written > 0
    BY MessageAssumption
  <1>2. m.written >= 16
    BY <1>1
  <1>3. WireSize(m) = m.written + 48 /\ WireSize(m) \in Nat
    BY <1>1 DEF WireSize
  <1>4. CASE WireSize(m) <= 200
    <2>1. Parts(m) = <<WireSize(m)>>
      BY <1>4 DEF Parts
    <2>2. QED  BY <1>1, <1>2, <1>3, <2>1 DEF CipherText, Part
  <1>5. CASE ~(WireSize(m) <= 200)
    <2>1. Parts(m) = <<200, WireSize(m) - 200>>
      BY <1>5 DEF Parts
    <2>2. QED  BY <1>1, <1>2, <1>3, <1>5, <2>1 DEF CipherText, Part
  <1>6. QED  BY <1>4, <1>5

LEMMA FragmentSizes ==
  /\ \A p \in Fragments : p.size \in Nat
  /\ \A m \in Messages : CipherText(m) \in Seq(Fragments)
  <1>1. ASSUME NEW m \in Messages
        PROVE  /\ \A p \in Range(CipherText(m)) : p.size \in Nat
               /\ CipherText(m) \in Seq(Range(CipherText(m)))
    <2>1. /\ CipherText(m) = [i \in 1..Len(Parts(m)) |-> Part(m, i)]
          /\ \/ Len(Parts(m)) = 1 /\ Part(m, 1).size \in Nat
             \/ Len(Parts(m)) = 2 /\ Part(m, 1).size \in Nat /\ Part(m, 2).size \in Nat
      BY PartsOfMessage
    <2>2. Range(CipherText(m)) = {Part(m, i) : i \in 1..Len(Parts(m))}
      BY <2>1 DEF Range
    <2>3. Len(Parts(m)) \in Nat /\ \A i \in 1..Len(Parts(m)) : Part(m, i).size \in Nat
      <3>1. CASE Len(Parts(m)) = 1 /\ Part(m, 1).size \in Nat
        <4>1. \A i \in 1..1 : i = 1
          OBVIOUS
        <4>2. QED  BY <3>1, <4>1
      <3>2. CASE Len(Parts(m)) = 2 /\ Part(m, 1).size \in Nat /\ Part(m, 2).size \in Nat
        <4>1. \A i \in 1..2 : i = 1 \/ i = 2
          OBVIOUS
        <4>2. QED  BY <3>2, <4>1
      <3>3. QED  BY <2>1, <3>1, <3>2
    <2>4. ASSUME NEW p \in Range(CipherText(m)) PROVE p.size \in Nat
      <3>1. PICK i \in 1..Len(Parts(m)) : p = Part(m, i)
        BY <2>2
      <3>2. QED  BY <2>3, <3>1
    <2>5. CipherText(m) \in [1..Len(Parts(m)) -> Range(CipherText(m))]
      BY <2>1, <2>2
    <2>6. CipherText(m) \in Seq(Range(CipherText(m)))
      BY <2>3, <2>5
    <2>7. QED  BY <2>4, <2>6
  <1>2. \A m \in Messages : Range(CipherText(m)) \subseteq Fragments
    BY DEF Fragments
  <1>3. QED  BY <1>1, <1>2, SeqMonotonic DEF Fragments

\* A message is opened only when the buffer holds exactly its cipher text.
LEMMA OpenedFits ==
  ASSUME NEW c, c \in Contents, Counted(c), NEW m \in Messages, CipherText(m) = c.buffer
  PROVE  c.bufferLen = WireSize(m) /\ WireSize(m) <= MAX_MESSAGE_LENGTH
  <1>1. /\ CipherText(m) = [i \in 1..Len(Parts(m)) |-> Part(m, i)]
        /\ \/ /\ Len(Parts(m)) = 1 /\ Part(m, 1).size = WireSize(m)
           \/ /\ Len(Parts(m)) = 2
              /\ Part(m, 1).size + Part(m, 2).size = WireSize(m)
    BY PartsOfMessage
  <1>2. Len(c.buffer) = Len(Parts(m)) /\ \A i \in 1..Len(Parts(m)) : c.buffer[i] = Part(m, i)
    BY <1>1
  <1>3. CASE Len(Parts(m)) = 1 /\ Part(m, 1).size = WireSize(m)
    BY <1>2, <1>3 DEF Counted
  <1>4. CASE Len(Parts(m)) = 2 /\ Part(m, 1).size + Part(m, 2).size = WireSize(m)
    BY <1>2, <1>4 DEF Counted
  <1>5. QED  BY <1>1, <1>3, <1>4

\* What is known of the narrow integers.
LEMMA Bytes == \A b \in Byte : b \in Nat /\ b <= 255
  BY DEF Byte

LEMMA BelowU16 ==
  /\ U16 \in Nat
  /\ 0 \in 0..U16 - 1
  /\ \A n : n \in 0..U16 - 1 <=> n \in Nat /\ n < U16
  <1>1. U16 \in Nat /\ U16 > 0
    BY DEF U16
  <1>2. QED  BY <1>1

\* A layout has at least its three flags, and at most ten texts of 255 bytes.
LEMMA LayoutBounds ==
  ASSUME NEW m \in Messages
  PROVE  LayoutSize(m) \in Nat /\ LayoutSize(m) >= 3 /\ LayoutSize(m) <= 2563
  <1>1. ASSUME NEW t PROVE Field(m, t) \in Nat /\ Field(m, t) <= 256
    <2>1. t \in DOMAIN m.length => m.length[t] \in Range(m.length)
      BY DEF Range
    <2>2. t \in DOMAIN m.length => m.length[t] \in Byte
      BY <2>1, MessageAssumption
    <2>3. QED  BY <2>2, Bytes DEF Field
  <1>2. /\ Field(m, "payee") \in Nat /\ Field(m, "payee") <= 256
        /\ Field(m, "payer") \in Nat /\ Field(m, "payer") <= 256
        /\ Field(m, "amount") \in Nat /\ Field(m, "amount") <= 256
        /\ Field(m, "chain_code") \in Nat /\ Field(m, "chain_code") <= 256
        /\ Field(m, "token_code") \in Nat /\ Field(m, "token_code") <= 256
        /\ Field(m, "status") \in Nat /\ Field(m, "status") <= 256
        /\ Field(m, "obt_id") \in Nat /\ Field(m, "obt_id") <= 256
        /\ Field(m, "memo") \in Nat /\ Field(m, "memo") <= 256
        /\ Field(m, "hash") \in Nat /\ Field(m, "hash") <= 256
        /\ Field(m, "offline_url") \in Nat /\ Field(m, "offline_url") <= 256
    BY <1>1
  <1>3. QED  BY <1>2 DEF LayoutSize

\* A padding byte larger than the plain text makes bufferLen wrap, to a size that
\* no layout has: what the parser accepts lies within what was decrypted.
LEMMA ParsedWithin ==
  ASSUME NEW m \in Messages, WireSize(m) <= MAX_MESSAGE_LENGTH
  PROVE  /\ DecodedLen(m) \in 0..U16 - 1
         /\ LayoutSize(m) = DecodedLen(m) => 0 < DecodedLen(m) /\ DecodedLen(m) <= m.written
  <1>1. m.written \in Nat /\ m.written >= 16 /\ m.written <= 276
    BY PartsOfMessage DEF MAX_MESSAGE_LENGTH
  <1>2. m.pad \in Nat /\ m.pad <= 255
    BY MessageAssumption, Bytes
  <1>3. LayoutSize(m) \in Nat /\ LayoutSize(m) >= 3 /\ LayoutSize(m) <= 2563
    BY LayoutBounds
  <1>4. CASE m.pad <= m.written
    <2>1. DecodedLen(m) = m.written - m.pad
      BY <1>1, <1>2, <1>4 DEF DecodedLen, U16
    <2>2. DecodedLen(m) \in Nat /\ DecodedLen(m) < U16 /\ DecodedLen(m) <= m.written
      BY <1>1, <1>2, <1>4, <2>1 DEF U16
    <2>3. QED  BY <1>3, <2>2, BelowU16
  <1>5. CASE m.pad > m.written
    <2>1. DecodedLen(m) = 65536 + (m.written - m.pad)
      BY <1>1, <1>2, <1>5 DEF DecodedLen, U16
    <2>2. DecodedLen(m) \in Nat /\ DecodedLen(m) < U16 /\ DecodedLen(m) > 2563
      BY <1>1, <1>2, <1>5, <2>1 DEF U16
    <2>3. QED  BY <1>3, <2>2, BelowU16
  <1>6. QED  BY <1>1, <1>2, <1>4, <1>5

\* A message that parses has a screen for each of its texts.
LEMMA ScreensCover ==
  ASSUME NEW m \in Messages, NEW context, NEW len, Parses(m, context, len)
  PROVE  /\ Screens(m) \in Seq(ScreenNames) /\ Screens(m) # <<>>
         /\ TextsOf(m) \subseteq Range(Screens(m))
         /\ Range(Screens(m)) \cap Texts \subseteq DOMAIN m.length
  <1> DEFINE first == <<"MESSAGE1", "MESSAGE2">>
             texts == IF m.context = "newfundsreq"
                        THEN Strings(m.context)
                        ELSE <<"payee", "payer", "amount", "chain_code", "token_code",
                               "status", "obt_id">>
             rest  == IF Has(m, {"memo"}) THEN <<"memo">> ELSE <<"hash", "offline_url">>
             last  == <<"CONFIRM">>
  <1>1. PICK opt \in SUBSET {"memo", "hash", "offline_url"} :
          DOMAIN m.length = opt \cup
            (IF m.context = "newfundsreq"
               THEN {"payee", "amount", "chain_code", "token_code"}
               ELSE {"payer", "payee", "amount", "chain_code", "token_code", "status", "obt_id"})
    BY MessageAssumption
  <1>2. first \in Seq(ScreenNames) /\ last \in Seq(ScreenNames) /\ "CONFIRM" \in Range(last)
        /\ Range(first) \cap Texts = {} /\ Range(last) \cap Texts = {}
    <2>1. first \in Seq(ScreenNames) /\ last \in Seq(ScreenNames)
      BY DEF ScreenNames
    <2>2. 1 \in DOMAIN last /\ last[1] = "CONFIRM"
      OBVIOUS
    <2>3. Range(first) = {"MESSAGE1", "MESSAGE2"} /\ Range(last) = {"CONFIRM"}
      BY DEF Range
    <2>4. QED  BY <2>1, <2>2, <2>3 DEF Range, Texts
  <1>3. /\ texts \in Seq(ScreenNames)
        /\ (IF m.context = "newfundsreq"
              THEN {"payee", "amount", "chain_code", "token_code"}
              ELSE {"payer", "payee", "amount", "chain_code", "token_code", "status", "obt_id"})
             = Range(texts)
    <2>1. CASE m.context = "newfundsreq"
      <3>1. texts = <<"payee", "amount", "chain_code", "token_code">>
        BY <2>1 DEF Strings
      <3> HIDE DEF texts
      <3>2. texts \in Seq(ScreenNames)
        BY <3>1 DEF ScreenNames, Texts
      <3>3. /\ {1, 2, 3, 4} \subseteq DOMAIN texts
            /\ texts[1] = "payee" /\ texts[2] = "amount"
            /\ texts[3] = "chain_code" /\ texts[4] = "token_code"
        BY <3>1
      <3>4. {"payee", "amount", "chain_code", "token_code"} = Range(texts)
        BY <3>1, <3>3 DEF Range
      <3>5. QED  BY <2>1, <3>2, <3>4
    <2>2. CASE m.context # "newfundsreq"
      <3>1. texts = <<"payee", "payer", "amount", "chain_code", "token_code", "status", "obt_id">>
        BY <2>2
      <3> HIDE DEF texts
      <3>2. texts \in Seq(ScreenNames)
        BY <3>1 DEF ScreenNames, Texts
      <3>3. /\ {1, 2, 3, 4, 5, 6, 7} \subseteq DOMAIN texts
            /\ texts[1] = "payee" /\ texts[2] = "payer" /\ texts[3] = "amount"
            /\ texts[4] = "chain_code" /\ texts[5] = "token_code"
            /\ texts[6] = "status" /\ texts[7] = "obt_id"
        BY <3>1
      <3>4. {"payer", "payee", "amount", "chain_code", "token_code", "status", "obt_id"}
              = Range(texts)
        BY <3>1, <3>3 DEF Range
      <3>5. QED  BY <2>2, <3>2, <3>4
    <2>3. QED  BY <2>1, <2>2
  <1>4. rest \in Seq(ScreenNames) /\ opt = Range(rest)
    <2>1. CASE Has(m, {"memo"})
      <3>1. rest = <<"memo">> /\ opt = {"memo"}
        BY <1>1, <2>1 DEF Has, Optional
      <3> HIDE DEF rest
      <3>2. rest \in Seq(ScreenNames) /\ 1 \in DOMAIN rest /\ rest[1] = "memo"
        BY <3>1 DEF ScreenNames, Texts
      <3>3. Range(rest) = {"memo"}
        BY <3>1, <3>2 DEF Range
      <3>4. QED  BY <3>1, <3>2, <3>3
    <2>2. CASE ~Has(m, {"memo"})
      <3>1. rest = <<"hash", "offline_url">> /\ opt = {"hash", "offline_url"}
        BY <1>1, <2>2 DEF Has, Optional, Parses
      <3> HIDE DEF rest
      <3>2. /\ rest \in Seq(ScreenNames) /\ {1, 2} \subseteq DOMAIN rest
            /\ rest[1] = "hash" /\ rest[2] = "offline_url"
        BY <3>1 DEF ScreenNames, Texts
      <3>3. Range(rest) = {"hash", "offline_url"}
        BY <3>1, <3>2 DEF Range
      <3>4. QED  BY <3>1, <3>2, <3>3
    <2>3. QED  BY <2>1, <2>2
  <1>5. Screens(m) = first \o texts \o rest \o last
    BY DEF Screens
  <1> DEFINE two == first \o texts
             three == two \o rest
  <1> HIDE DEF first, texts, rest, last
  <1>6. /\ first \in Seq(ScreenNames) /\ texts \in Seq(ScreenNames)
        /\ rest \in Seq(ScreenNames) /\ last \in Seq(ScreenNames)
        /\ two \in Seq(ScreenNames) /\ three \in Seq(ScreenNames)
        /\ Screens(m) = three \o last /\ Screens(m) \in Seq(ScreenNames)
    BY <1>2, <1>3, <1>4, <1>5
  <1>7. Range(Screens(m)) = Range(first) \cup Range(texts) \cup Range(rest) \cup Range(last)
    <2>1. Range(two) = Range(first) \cup Range(texts)
      BY <1>6, RangeConcatenation
    <2>2. Range(three) = Range(two) \cup Range(rest)
      <3> HIDE DEF two
      <3>1. QED  BY <1>6, RangeConcatenation
    <2>3. Range(Screens(m)) = Range(three) \cup Range(last)
      <3> HIDE DEF three
      <3>1. QED  BY <1>6, RangeConcatenation
    <2>4. QED  BY <2>1, <2>2, <2>3
  <1>8. Screens(m) # <<>>
    <2>1. "CONFIRM" \in Range(Screens(m))
      BY <1>2, <1>7
    <2>2. Range(<<>>) = {}
      BY DEF Range
    <2>3. QED  BY <2>1, <2>2
  <1>9. TextsOf(m) \subseteq Range(Screens(m))
    BY <1>1, <1>2, <1>3, <1>4, <1>7 DEF TextsOf
  <1>10. Range(Screens(m)) \cap Texts \subseteq DOMAIN m.length
    BY <1>1, <1>2, <1>3, <1>4, <1>7
  <1>11. QED  BY <1>6, <1>8, <1>9, <1>10

-------------------------------------------------------------------------------
\* A context that nothing was written to, and the one a command starts from.
LEMMA Zeroed == CtxOK(ZeroCtx)
  <1>1. 0 \in 0..U16 - 1
    BY BelowU16
  <1>2. ZeroCtx \in Contents
    BY <1>1 DEF ZeroCtx, Contents, Stages
  <1>3. QED  BY <1>2 DEF CtxOK, ZeroCtx

\* A command is taken only when nothing is under way and nobody is asked.
LEMMA Idle ==
  ASSUME FrameInv, DeviceInv, Receives
  PROVE  /\ sending = <<>> /\ owed = 0 /\ flow = <<>> /\ answer = None
         /\ CtxOK(Ctx) /\ Shown \in Seq(ScreenNames)
         /\ ~NewCall => Open(currentInstruction, ctx, Range(shown))
  <1>1. sending = <<>> /\ io_state = "EXPECT_IO"
    BY DEF Receives
  <1>2. owed = 0 /\ screen.callback # "NOT_RUN"
    BY <1>1 DEF FrameInv, StateTold
  <1>3. flow = <<>> /\ answer = None
    BY <1>1, <1>2 DEF DeviceInv
  <1>4. CtxOK(Ctx)
    BY Zeroed DEF DeviceInv, Ctx
  <1>5. Shown \in Seq(ScreenNames)
    BY DEF DeviceInv, Shown
  <1>6. ~NewCall => Open(currentInstruction, ctx, Range(shown))
    BY <1>2 DEF DeviceInv, NewCall
  <1>7. QED  BY <1>1, <1>2, <1>3, <1>4, <1>5, <1>6

\* An answer of a handler, and an error.
LEMMA AnswersKeeps ==
  ASSUME FrameInv, DeviceInv, Receives, NEW ins, NEW c, CtxOK(c), NEW a, NEW follow \in Follows,
         AnswersNow(ins, c, a, follow), Answerable(a, follow, c, Range(Shown)),
         follow = "busy" => Open(ins, c, Range(Shown))
  PROVE  DeviceInv'
  <1>1. /\ sending = <<>> /\ owed = 0 /\ flow = <<>> /\ Shown \in Seq(ScreenNames)
    BY Idle
  <1>2. /\ currentInstruction' = ins /\ sending' = <<follow>> /\ owed' = 1
        /\ screen' = screen /\ flow' = flow /\ ctx' = c /\ answer' = a /\ shown' = Shown
    BY <1>1 DEF AnswersNow, HandlerAnswers
  <1>3. sending' # <<>> /\ Head(sending') = follow /\ (sending' = <<"busy">> => follow = "busy")
    BY <1>2
  <1>4. a # None
    BY DEF Answerable
  <1>5. QED  BY <1>1, <1>2, <1>3, <1>4 DEF DeviceInv

LEMMA ThrowsKeeps ==
  ASSUME FrameInv, DeviceInv, Receives, NEW ins, NEW c, CtxOK(c), NEW code, code # "SUCCESS",
         Throws(ins, c, code)
  PROVE  DeviceInv'
  <1>1. AnswersNow(ins, c, Error(code), "idle") /\ "idle" \in Follows
    BY DEF Throws, AnswersNow, HandlerThrows, Follows
  <1>2. Answerable(Error(code), "idle", c, Range(Shown))
    BY DEF Answerable, Error, None
  <1>3. QED  BY <1>1, <1>2, AnswersKeeps

\* A screen of a handler.
LEMMA ShowsKeeps ==
  ASSUME FrameInv, DeviceInv, Receives, NEW ins, NEW c, CtxOK(c),
         NEW screens \in Seq(ScreenNames), screens # <<>>, Shows(ins, c, screens),
         Asking(ins, c, Range(Shown) \cup Range(screens))
  PROVE  DeviceInv'
  <1>1. /\ sending = <<>> /\ owed = 0 /\ answer = None /\ Shown \in Seq(ScreenNames)
    BY Idle
  <1>2. /\ currentInstruction' = ins /\ sending' = <<>> /\ owed' = 1
        /\ screen'.callback = "NOT_RUN"
        /\ flow' = screens /\ ctx' = c /\ answer' = None /\ shown' = Shown
    BY <1>1 DEF Shows, HandlerShows, Asks
  <1>3. QED  BY <1>1, <1>2 DEF DeviceInv

\* A restart.
LEMMA CrashesKeeps == Crashes => DeviceInv'
  <1> SUFFICES ASSUME Crashes PROVE DeviceInv'
    OBVIOUS
  <1>1. /\ currentInstruction' = INS_NONE /\ sending' = <<>> /\ screen' = Menu
        /\ flow' = <<>> /\ ctx' = ZeroCtx /\ answer' = None /\ shown' = <<>>
    BY DEF Crashes, Restart
  <1>2. Menu.callback # "NOT_RUN"
    BY ScreensDiffer
  <1>3. QED  BY <1>1, <1>2, Zeroed DEF DeviceInv

-------------------------------------------------------------------------------
\* The handlers that answer at once.
LEMMA VersionKeeps ==
  ASSUME FrameInv, DeviceInv, Receives, NEW a, GetVersion(a) \/ GetSerial(a)
  PROVE  DeviceInv'
  <1> DEFINE Data == {[version |-> "1.0"], [serial |-> "serial"]}
  <1>1. ASSUME NEW d \in Data PROVE Answerable(Success(d), "idle", Ctx, Range(Shown))
    BY <1>1 DEF Answerable, Success, None
  <1>2. \/ \E d \in Data : AnswersNow(a.ins, Ctx, Success(d), "idle")
        \/ Throws(a.ins, Ctx, "ERR_INVALID_REQUEST_PARAMETERS")
    BY DEF GetVersion, GetSerial
  <1>3. CtxOK(Ctx) /\ "idle" \in Follows
    BY Idle DEF Follows
  <1>4. QED  BY <1>1, <1>2, <1>3, AnswersKeeps, ThrowsKeeps

\* The public key: what the policy does not let out unseen is on the screens.
LEMMA PublicKeyKeeps ==
  ASSUME FrameInv, DeviceInv, Receives, NEW a \in Apdus, GetPublicKey(a), MayCall(a.ins)
  PROVE  DeviceInv'
  <1> DEFINE c == [ZeroCtx EXCEPT !.stage = "INIT", !.path = a.data, !.show = a.p1]
             policy == policyForGetPublicKey(a.data, a.p1)
  <1>1. /\ a.ins = "getPublicKey" /\ a.p1 \in {"SHOW", "DO_NOT_SHOW", "BAD"}
        /\ a.data \in {"usual", "unusual", "foreign", "malformed"}
    BY DEF GetPublicKey, Apdus
  <1>2. NewCall
    <2>1. ~NewCall => currentInstruction = "decode"
      BY Idle DEF Open
    <2>2. QED  BY <1>1, <2>1 DEF MayCall, NewCall
  <1>3. CASE a.p1 \notin {"SHOW", "DO_NOT_SHOW"}
    BY <1>2, <1>3, Zeroed, ThrowsKeeps DEF GetPublicKey
  <1>4. CASE a.p1 \in {"SHOW", "DO_NOT_SHOW"}
    <2>1. /\ c = [stage |-> "INIT", buffer |-> <<>>, message |-> None, bufferLen |-> 0,
                  bufferSentLen |-> 0, path |-> a.data, show |-> a.p1]
          /\ [c EXCEPT !.stage = "NONE"] =
               [stage |-> "NONE", buffer |-> <<>>, message |-> None, bufferLen |-> 0,
                bufferSentLen |-> 0, path |-> a.data, show |-> a.p1]
      <3>1. c = [stage |-> "INIT", buffer |-> <<>>, message |-> None, bufferLen |-> 0,
                 bufferSentLen |-> 0, path |-> a.data, show |-> a.p1]
        <4> DEFINE at == [ZeroCtx EXCEPT !.stage = "INIT"]
                   of == [at EXCEPT !.path = a.data]
        <4>1. at = [stage |-> "INIT", buffer |-> <<>>, message |-> None, bufferLen |-> 0,
                    bufferSentLen |-> 0, path |-> "none", show |-> "none"]
          BY DEF ZeroCtx
        <4>2. c = [of EXCEPT !.show = a.p1]
          OBVIOUS
        <4> HIDE DEF at, c
        <4>3. of = [stage |-> "INIT", buffer |-> <<>>, message |-> None, bufferLen |-> 0,
                    bufferSentLen |-> 0, path |-> a.data, show |-> "none"]
          BY <4>1
        <4> HIDE DEF of
        <4>4. QED  BY <4>2, <4>3
      <3> HIDE DEF c
      <3>2. QED  BY <3>1
    <2>2. 0 \in 0..U16 - 1
      BY BelowU16
    <2>3. CtxOK(c) /\ CtxOK([c EXCEPT !.stage = "NONE"])
      <3>1. ASSUME NEW stage \in {"INIT", "NONE"}
            PROVE  CtxOK([stage |-> stage, buffer |-> <<>>, message |-> None, bufferLen |-> 0,
                          bufferSentLen |-> 0, path |-> a.data, show |-> a.p1])
        BY <1>1, <1>4, <2>2 DEF CtxOK, Contents, Stages
      <3>2. QED  BY <2>1, <3>1, Zenon
    <2> HIDE DEF c
    <2>4. policy \in {"DENY", "WARN", "PROMPT", "ALLOW"}
      BY Policies
    <2>5. CASE a.data = "malformed" \/ policy = "DENY"
      <3>1. Throws(a.ins, c, "ERR_INVALID_DATA") \/ Throws(a.ins, c, "ERR_REJECTED_BY_POLICY")
        BY <1>2, <1>4, <2>5 DEF GetPublicKey, c
      <3>2. QED  BY <2>3, <3>1, ThrowsKeeps
    <2>6. CASE a.data # "malformed" /\ policy = "WARN"
      <3> DEFINE screens == <<"WARNING", "PATH", "PUBKEY", "CONFIRM">>
      <3>1. Shows(a.ins, c, screens)
        BY <1>2, <1>4, <2>6 DEF GetPublicKey, c
      <3>2. screens \in Seq(ScreenNames) /\ screens # <<>>
        BY DEF ScreenNames
      <3>3. {"WARNING", "PATH", "PUBKEY", "CONFIRM"} \subseteq Range(screens)
        <4>1. /\ {1, 2, 3, 4} \subseteq DOMAIN screens
              /\ screens[1] = "WARNING" /\ screens[2] = "PATH"
              /\ screens[3] = "PUBKEY" /\ screens[4] = "CONFIRM"
          OBVIOUS
        <4>2. QED  BY <4>1 DEF Range
      <3>4. a.data # "foreign"
        BY <2>6, Policies
      <3> HIDE DEF screens
      <3>5. Asking(a.ins, c, Range(Shown) \cup Range(screens))
        BY <1>1, <2>1, <3>3, <3>4 DEF Asking, KeyScreens
      <3>6. QED  BY <2>3, <3>1, <3>2, <3>5, ShowsKeeps
    <2>7. CASE a.data # "malformed" /\ policy = "PROMPT"
      <3> DEFINE screens == <<"PUBKEY", "CONFIRM">>
      <3>1. Shows(a.ins, c, screens)
        BY <1>2, <1>4, <2>7 DEF GetPublicKey, c
      <3>2. screens \in Seq(ScreenNames) /\ screens # <<>>
        BY DEF ScreenNames
      <3>3. {"PUBKEY", "CONFIRM"} \subseteq Range(screens)
        <4>1. /\ {1, 2} \subseteq DOMAIN screens
              /\ screens[1] = "PUBKEY" /\ screens[2] = "CONFIRM"
          OBVIOUS
        <4>2. QED  BY <4>1 DEF Range
      <3>4. a.data # "foreign" /\ a.data # "unusual"
        BY <2>7, Policies
      <3> HIDE DEF screens
      <3>5. Asking(a.ins, c, Range(Shown) \cup Range(screens))
        BY <1>1, <2>1, <3>3, <3>4 DEF Asking, KeyScreens
      <3>6. QED  BY <2>3, <3>1, <3>2, <3>5, ShowsKeeps
    <2>8. CASE a.data # "malformed" /\ policy = "ALLOW"
      <3> DEFINE d == [c EXCEPT !.stage = "NONE"]
                 key == Success([pubkey |-> a.data])
      <3>1. AnswersNow(a.ins, d, key, "idle")
        BY <1>2, <1>4, <2>8 DEF GetPublicKey, c
      <3>2. a.data = "usual" /\ a.p1 = "DO_NOT_SHOW"
        BY <1>1, <2>8, Policies
      <3>3. d.path = "usual" /\ d.show = "DO_NOT_SHOW"
        BY <2>1, <3>2
      <3> HIDE DEF d
      <3>4. Answerable(key, "idle", d, Range(Shown))
        BY <3>3 DEF Answerable, Success, None, KeyScreens
      <3>5. QED  BY <2>3, <3>1, <3>4, AnswersKeeps DEF d, Follows
    <2>9. QED  BY <2>4, <2>5, <2>6, <2>7, <2>8
  <1>5. QED  BY <1>3, <1>4

\* Decoding: what a command of an open call starts from ...
DecodeCtx == IF NewCall THEN [ZeroCtx EXCEPT !.stage = "RECEIVE"] ELSE ctx

LEMMA DecodeStarts ==
  ASSUME FrameInv, DeviceInv, Receives, MayCall("decode")
  PROVE  CtxOK(DecodeCtx) /\ Open("decode", DecodeCtx, Range(Shown))
  <1>1. CASE NewCall
    <2>1. DecodeCtx = [stage |-> "RECEIVE", buffer |-> <<>>, message |-> None, bufferLen |-> 0,
                       bufferSentLen |-> 0, path |-> "none", show |-> "none"]
      BY <1>1 DEF DecodeCtx, ZeroCtx
    <2>2. 0 \in 0..U16 - 1
      BY BelowU16
    <2>3. DecodeCtx \in Contents
      BY <2>1, <2>2 DEF Contents, Stages
    <2>4. Counted(DecodeCtx)
      BY <2>1 DEF Counted, MAX_MESSAGE_LENGTH
    <2>5. QED  BY <2>1, <2>3, <2>4 DEF CtxOK, Open
  <1>2. CASE ~NewCall
    <2>1. DecodeCtx = ctx /\ Shown = shown /\ currentInstruction = "decode"
      BY <1>2 DEF DecodeCtx, Shown, MayCall, NewCall
    <2>2. QED  BY <1>2, <2>1, Idle DEF DeviceInv
  <1>3. QED  BY <1>1, <1>2

\* ... receiving a part of the message, which has to fit the buffer ...
LEMMA ReceiveKeeps ==
  ASSUME FrameInv, DeviceInv, Receives, NEW a \in Apdus, a.ins = "decode",
         NEW c, CtxOK(c), DecodeReceive(a, c)
  PROVE  DeviceInv'
  <1>1. a.p1 = "RECEIVE"
    BY DEF DecodeReceive
  <1>2. a.data \in Fragments
    BY <1>1 DEF Apdus, Fragments
  <1>3. CASE c.stage # "RECEIVE"
    BY <1>3, ThrowsKeeps DEF DecodeReceive
  <1>4. CASE c.stage = "RECEIVE" /\ a.data.size + c.bufferLen > MAX_MESSAGE_LENGTH
    BY <1>4, CrashesKeeps DEF DecodeReceive
  <1>5. CASE c.stage = "RECEIVE" /\ ~(a.data.size + c.bufferLen > MAX_MESSAGE_LENGTH)
    <2> DEFINE buffer == Append(c.buffer, a.data)
               len == c.bufferLen + a.data.size
               d == [c EXCEPT !.buffer = buffer, !.bufferLen = len]
    <2>1. AnswersNow(a.ins, d, Success(None), "busy")
      BY <1>5 DEF DecodeReceive
    <2>2. c \in Contents /\ Counted(c) /\ c.buffer \in Seq(Fragments) /\ c.bufferLen \in Nat
      BY <1>5, BelowU16 DEF CtxOK, Contents
    <2>3. a.data.size \in Nat
      BY <1>2, FragmentSizes
    <2>4. len \in Nat /\ len <= MAX_MESSAGE_LENGTH /\ MAX_MESSAGE_LENGTH < U16
      BY <1>5, <2>2, <2>3 DEF MAX_MESSAGE_LENGTH, U16
    <2>5. len \in 0..U16 - 1
      BY <2>4, BelowU16 DEF MAX_MESSAGE_LENGTH
    <2>6. /\ buffer \in Seq(Fragments) /\ Len(buffer) = Len(c.buffer) + 1
          /\ \A i \in 1..Len(c.buffer) : buffer[i] = c.buffer[i]
          /\ buffer[Len(c.buffer) + 1] = a.data /\ Len(c.buffer) \in Nat
      BY <1>2, <2>2, RangeAppended
    <2>7. d.stage = "RECEIVE" /\ d.buffer = buffer /\ d.bufferLen = len /\ d \in Contents
      BY <1>5, <2>2, <2>5, <2>6 DEF Contents
    <2> HIDE DEF d, buffer
    <2>8. Counted(d)
      <3>1. CASE Len(c.buffer) = 0
        <4>1. Len(d.buffer) = 1 /\ d.buffer[1] = a.data
          BY <2>6, <2>7, <3>1
        <4>2. c.bufferLen = 0
          BY <2>2, <3>1 DEF Counted
        <4>3. d.bufferLen = d.buffer[1].size
          BY <2>3, <2>7, <4>1, <4>2
        <4>4. QED  BY <2>4, <2>7, <4>1, <4>3 DEF Counted
      <3>2. CASE Len(c.buffer) = 1
        <4>1. Len(d.buffer) = 2 /\ d.buffer[1] = c.buffer[1] /\ d.buffer[2] = a.data
          BY <2>6, <2>7, <3>2
        <4>2. c.bufferLen = c.buffer[1].size
          BY <2>2, <3>2 DEF Counted
        <4>3. d.bufferLen = d.buffer[1].size + d.buffer[2].size
          BY <2>7, <4>1, <4>2
        <4>4. QED  BY <2>4, <2>7, <4>1, <4>3 DEF Counted
      <3>3. CASE Len(c.buffer) > 1
        BY <2>4, <2>6, <2>7, <3>3 DEF Counted
      <3>4. Len(c.buffer) = 0 \/ Len(c.buffer) = 1 \/ Len(c.buffer) > 1
        <4>1. \A n \in Nat : n = 0 \/ n = 1 \/ n > 1
          OBVIOUS
        <4>2. QED  BY <2>6, <4>1
      <3>5. QED  BY <3>1, <3>2, <3>3, <3>4
    <2>9. CtxOK(d) /\ Open(a.ins, d, Range(Shown))
      BY <2>7, <2>8 DEF CtxOK, Open
    <2>10. Answerable(Success(None), "busy", d, Range(Shown)) /\ "busy" \in Follows
      BY DEF Answerable, Success, None, Follows
    <2>11. QED  BY <2>1, <2>9, <2>10, AnswersKeeps
  <1>6. QED  BY <1>3, <1>4, <1>5

\* ... decoding what was received: either an error, or the screens of a message
\* that somebody sent and that fits ...
LEMMA DecodeKeeps ==
  ASSUME FrameInv, DeviceInv, Receives, NEW a, a.ins = "decode",
         NEW c, CtxOK(c), DecodeDecode(a, c)
  PROVE  DeviceInv'
  <1> DEFINE d == [c EXCEPT !.stage = "DECODE"]
  <1>1. CtxOK(d) /\ d \in Contents
    BY DEF CtxOK, Contents, Stages
  <1>2. CASE \E code \in {"ERR_INVALID_STATE", "ERR_INVALID_DATA", "ERR_REJECTED_BY_POLICY",
                           "ERR_INVALID_HMAC"} : Throws(a.ins, d, code) \/ Throws(a.ins, c, code)
    BY <1>1, <1>2, ThrowsKeeps
  <1>3. CASE /\ c.stage = "RECEIVE"
             /\ Opened(c.buffer, a.data.key) # {}
             /\ LET m == CHOOSE n \in Opened(c.buffer, a.data.key) : TRUE
                    e == [d EXCEPT !.buffer = <<>>, !.message = m,
                             !.bufferLen = DecodedLen(m), !.bufferSentLen = 0]
                IN  IF Parses(m, a.data.context, DecodedLen(m))
                      THEN Shows(a.ins, e, Screens(m))
                      ELSE Throws(a.ins, e, "ERR_INVALID_DATA")
    <2> DEFINE m == CHOOSE n \in Opened(c.buffer, a.data.key) : TRUE
               e == [d EXCEPT !.buffer = <<>>, !.message = m,
                             !.bufferLen = DecodedLen(m), !.bufferSentLen = 0]
    <2>1. m \in Messages /\ CipherText(m) = c.buffer
      BY <1>3 DEF Opened
    <2> HIDE DEF m
    <2>2. WireSize(m) <= MAX_MESSAGE_LENGTH
      BY <1>3, <2>1, OpenedFits DEF CtxOK
    <2>3. /\ DecodedLen(m) \in 0..U16 - 1
          /\ LayoutSize(m) = DecodedLen(m) => 0 < DecodedLen(m) /\ DecodedLen(m) <= m.written
      BY <2>1, <2>2, ParsedWithin
    <2>4. /\ e \in Contents /\ e.stage = "DECODE" /\ e.message = m /\ e.bufferLen = DecodedLen(m)
          /\ e.bufferSentLen = 0
      <3>1. d.stage = "DECODE" /\ 0 \in 0..U16 - 1
        <4>1. 0 \in 0..U16 - 1
          BY BelowU16
        <4>2. QED  BY <4>1 DEF CtxOK, Contents
      <3> HIDE DEF d
      <3> DEFINE empty == [d EXCEPT !.buffer = <<>>]
                 wiped == [empty EXCEPT !.message = m]
                 sized == [wiped EXCEPT !.bufferLen = DecodedLen(m)]
      <3>2. wiped \in Contents /\ wiped.stage = "DECODE" /\ wiped.message = m
        <4>1. empty \in Contents /\ empty.stage = "DECODE"
          <5>1. <<>> \in Seq(Fragments)
            OBVIOUS
          <5>2. QED  BY <1>1, <3>1, <5>1 DEF Contents
        <4> HIDE DEF empty
        <4>2. QED  BY <2>1, <4>1 DEF Contents
      <3>3. e = [sized EXCEPT !.bufferSentLen = 0]
        OBVIOUS
      <3> HIDE DEF wiped, e
      <3>4. /\ sized \in Contents /\ sized.stage = "DECODE" /\ sized.message = m
            /\ sized.bufferLen = DecodedLen(m)
        BY <2>3, <3>2 DEF Contents
      <3> HIDE DEF sized
      <3>5. QED  BY <3>1, <3>3, <3>4 DEF Contents
    <2> HIDE DEF e, d
    <2>5. CtxOK(e)
      BY <2>4 DEF CtxOK
    <2>6. CASE Parses(m, a.data.context, DecodedLen(m))
      <3>1. Shows(a.ins, e, Screens(m))
        BY <1>3, <2>6 DEF m, e, d
      <3>2. /\ Screens(m) \in Seq(ScreenNames) /\ Screens(m) # <<>>
            /\ TextsOf(m) \subseteq Range(Screens(m))
        BY <2>1, <2>6, ScreensCover
      <3>3. LayoutSize(m) = DecodedLen(m)
        BY <2>6 DEF Parses
      <3>4. Asking(a.ins, e, Range(Shown) \cup Range(Screens(m)))
        BY <2>1, <2>2, <2>3, <2>4, <3>2, <3>3 DEF Asking, Parsed
      <3>5. QED  BY <2>5, <3>1, <3>2, <3>4, ShowsKeeps
    <2>7. CASE ~Parses(m, a.data.context, DecodedLen(m))
      <3>1. Throws(a.ins, e, "ERR_INVALID_DATA")
        BY <1>3, <2>7 DEF m, e, d
      <3>2. QED  BY <2>5, <3>1, ThrowsKeeps
    <2>8. QED  BY <2>6, <2>7
  <1>4. QED  BY <1>2, <1>3 DEF DecodeDecode

\* ... and sending what was decoded, shown and confirmed; the last chunk ends the
\* call.
LEMMA SendRestKeeps ==
  ASSUME FrameInv, DeviceInv, Receives, NEW a, a.ins = "decode",
         NEW c, CtxOK(c), Open("decode", c, Range(Shown)), DecodeSendRest(a, c)
  PROVE  DeviceInv'
  <1> DEFINE to == IF c.bufferLen - c.bufferSentLen > MAX_SEND_FIRST_MESSAGE
                     THEN c.bufferSentLen + MAX_SEND_FIRST_MESSAGE ELSE c.bufferLen
             chunk == [of |-> c.message, from |-> c.bufferSentLen, to |-> to,
                       total |-> c.bufferLen]
             sent == [c EXCEPT !.bufferSentLen = to]
             done == [c EXCEPT !.bufferSentLen = to, !.stage = "NONE"]
  <1>1. CASE c.stage # "SEND_REST"
    BY <1>1, ThrowsKeeps DEF DecodeSendRest
  <1>2. CASE c.stage = "SEND_REST"
    <2>1. /\ c \in Contents /\ Parsed(c) /\ TextsOf(c.message) \subseteq Range(Shown)
          /\ c.bufferLen \in 0..U16 - 1 /\ c.bufferSentLen \in 0..U16 - 1
          /\ c.bufferSentLen < c.bufferLen
      BY <1>2 DEF CtxOK, Open, Contents
    <2>2. /\ c.bufferLen \in Nat /\ c.bufferLen < U16 /\ c.bufferSentLen \in Nat
          /\ U16 \in Nat
      BY <2>1, BelowU16
    <2>3. to \in Nat /\ to <= c.bufferLen /\ to < U16
      BY <2>1, <2>2 DEF MAX_SEND_FIRST_MESSAGE
    <2> HIDE DEF to
    <2>4. to \in 0..U16 - 1
      BY <2>3, BelowU16
    <2>5. /\ sent \in Contents /\ sent.stage = "SEND_REST" /\ sent.bufferSentLen = to
          /\ sent.message = c.message /\ sent.bufferLen = c.bufferLen
      BY <1>2, <2>1, <2>4 DEF Contents
    <2>6. /\ done = [sent EXCEPT !.stage = "NONE"]
      OBVIOUS
    <2> HIDE DEF sent, done
    <2>7. CtxOK(sent)
      BY <2>1, <2>3, <2>5 DEF CtxOK, Parsed
    <2>8. done \in Contents /\ done.stage = "NONE"
      BY <2>5, <2>6 DEF Contents, Stages
    <2>9. CtxOK(done)
      BY <2>8 DEF CtxOK
    <2>10. ASSUME NEW follow, NEW d PROVE Answerable(Success(chunk), follow, d, Range(Shown))
      <3>1. /\ Success(chunk) # None /\ Success(chunk).code = "SUCCESS"
            /\ Success(chunk).data = chunk
        BY DEF Success, None
      <3>2. "pubkey" \notin DOMAIN chunk /\ chunk.of = c.message /\ chunk \in Chunks
        BY <2>1, <2>2, <2>3 DEF Chunks, Parsed
      <3> HIDE DEF chunk
      <3>3. QED  BY <2>1, <3>1, <3>2 DEF Answerable
    <2>11. CASE to = c.bufferLen
      <3>1. AnswersNow(a.ins, done, Success(chunk), "idle")
        BY <1>2, <2>11 DEF DecodeSendRest, done, to
      <3>2. QED  BY <2>9, <2>10, <3>1, AnswersKeeps DEF Follows
    <2>12. CASE to # c.bufferLen
      <3>1. AnswersNow(a.ins, sent, Success(chunk), "busy")
        BY <1>2, <2>12 DEF DecodeSendRest, sent, to
      <3>2. to < c.bufferLen
        BY <2>2, <2>3, <2>12
      <3>3. Open(a.ins, sent, Range(Shown))
        BY <2>1, <2>5, <3>2 DEF Open
      <3>4. QED  BY <2>7, <2>10, <3>1, <3>3, AnswersKeeps DEF Follows
    <2>13. QED  BY <2>11, <2>12
  <1>3. QED  BY <1>1, <1>2

LEMMA DecodingKeeps ==
  ASSUME FrameInv, DeviceInv, Receives, NEW a \in Apdus, MayCall(a.ins), Decode(a)
  PROVE  DeviceInv'
  <1>1. a.ins = "decode" /\ CtxOK(DecodeCtx) /\ Open("decode", DecodeCtx, Range(Shown))
    BY DecodeStarts DEF Decode
  <1>2. \/ Throws(a.ins, ZeroCtx, "ERR_INVALID_STATE")
        \/ Throws(a.ins, DecodeCtx, "ERR_INVALID_REQUEST_PARAMETERS")
        \/ DecodeReceive(a, DecodeCtx) \/ DecodeDecode(a, DecodeCtx)
        \/ DecodeSendRest(a, DecodeCtx)
    BY DEF Decode, DecodeCtx
  <1>3. QED
    BY <1>1, <1>2, Zeroed, ThrowsKeeps, ReceiveKeeps, DecodeKeeps, SendRestKeeps

-------------------------------------------------------------------------------
\* Every step keeps the invariant: a command ...
LEMMA CommandKeeps ==
  ASSUME FrameInv, DeviceInv, NEW a \in Apdus, Command(a)
  PROVE  DeviceInv'
  <1>1. Receives
    BY DEF Command
  <1>2. CASE MayCall(a.ins)
    <2>1. GetVersion(a) \/ GetSerial(a) \/ GetPublicKey(a) \/ Decode(a)
      BY <1>2 DEF Command
    <2>2. QED  BY <1>1, <1>2, <2>1, VersionKeeps, PublicKeyKeeps, DecodingKeeps
  <1>3. CASE ~MayCall(a.ins)
    <2>1. Throws(currentInstruction, ctx, "ERR_STILL_IN_CALL")
      BY <1>3 DEF Command
    <2>2. QED  BY <1>1, <2>1, ThrowsKeeps DEF DeviceInv
  <1>4. QED  BY <1>2, <1>3

LEMMA RefusedKeeps == FrameInv /\ DeviceInv /\ Refused => DeviceInv'
  BY ThrowsKeeps DEF Refused, DeviceInv

\* ... the answer leaving ...
LEMMA SentKeeps ==
  ASSUME FrameInv, DeviceInv, AnswerSent
  PROVE  DeviceInv' /\ (answer.code # "SUCCESS" => currentInstruction' = INS_NONE)
  <1>1. sending # <<>> /\ sending \in AtMostOne /\ owed = 1 /\ screen.callback # "NOT_RUN"
    BY DEF AnswerSent, Sent, FrameInv
  <1>2. flow = <<>> /\ answer # None /\ Answerable(answer, Head(sending), ctx, Range(shown))
    BY <1>1 DEF DeviceInv
  <1>3. /\ sending' = <<>> /\ answer' = None /\ owed' = 0
        /\ ctx' = ctx /\ flow' = flow /\ shown' = shown
    BY <1>1, OneOrNone DEF AnswerSent, Sent
  <1>4. /\ Head(sending) = "idle" => screen' = Menu /\ currentInstruction' = INS_NONE
        /\ Head(sending) # "idle" =>
             screen' = Busy /\ currentInstruction' = currentInstruction
    BY DEF AnswerSent, Sent
  <1>5. screen'.callback # "NOT_RUN"
    BY <1>4, ScreensDiffer
  <1>6. Head(sending) # "idle" => sending = <<"busy">>
    BY <1>1, OneOrNone DEF Follows
  <1>7. Head(sending) # "idle" => Open(currentInstruction, ctx, Range(shown))
    BY <1>6 DEF DeviceInv
  <1>8. answer.code # "SUCCESS" => Head(sending) = "idle"
    BY <1>2 DEF Answerable
  <1>9. sending' # <<"busy">>
    BY <1>3
  <1>10. QED
    BY <1>2, <1>3, <1>4, <1>5, <1>7, <1>8, <1>9 DEF DeviceInv

\* ... the user going on to the next screen, or through the last ...
LEMMA ConfirmsKeeps ==
  ASSUME FrameInv, DeviceInv, UserConfirms
  PROVE  DeviceInv'
  <1> DEFINE seen == Range(shown) \cup Range(flow)
  <1>1. flow # <<>> /\ Pressed(KindOf(Head(flow))) /\ KindOf(Head(flow)) \in Kinds
    BY DEF UserConfirms, KindOf, Kinds
  <1>2. /\ screen \in [kind : Kinds, callback : {"NOT_RUN", "RUN"}]
        /\ sending = <<>> /\ owed = 1 /\ currentInstruction # INS_NONE
    BY <1>1, PressedScreen
  <1>3. /\ Asking(currentInstruction, ctx, seen) /\ CtxOK(ctx) /\ answer = None
        /\ flow \in Seq(ScreenNames) /\ shown \in Seq(ScreenNames)
    BY <1>1, <1>2 DEF DeviceInv
  <1>4. /\ Head(flow) \in ScreenNames /\ Tail(flow) \in Seq(ScreenNames)
        /\ Range(flow) = {Head(flow)} \cup Range(Tail(flow))
        /\ Len(flow) = 1 => Range(flow) = {Head(flow)}
        /\ Len(flow) # 1 => Tail(flow) # <<>>
    BY <1>1, <1>3, RangeFirst
  <1>5. /\ Append(shown, Head(flow)) \in Seq(ScreenNames)
        /\ Range(Append(shown, Head(flow))) = Range(shown) \cup {Head(flow)}
    BY <1>3, <1>4, RangeAppended
  <1>6. CASE Len(flow) = 1 /\ Respond
    <2>1. /\ shown' \in Seq(ScreenNames) /\ Range(shown') = seen /\ flow' = <<>>
          /\ screen' = Acted(screen) /\ owed' = 1 /\ currentInstruction' = currentInstruction
      BY <1>2, <1>4, <1>5, <1>6 DEF Respond, CallbackAnswers
    <2>2. screen'.callback # "NOT_RUN"
      BY <1>2, <2>1, ScreensDiffer
    <2>3. CASE currentInstruction = "decode"
      <3>1. /\ sending' = <<"busy">> /\ answer' = Success(None)
            /\ ctx' = [ctx EXCEPT !.stage = "SEND_REST"]
        BY <1>2, <1>6, <2>3 DEF Respond, CallbackAnswers
      <3>2. /\ ctx \in Contents /\ Parsed(ctx) /\ ctx.bufferSentLen = 0
            /\ TextsOf(ctx.message) \subseteq seen
        BY <1>3, <2>3 DEF Asking, CtxOK
      <3>3. /\ ctx' \in Contents /\ ctx'.stage = "SEND_REST" /\ ctx'.message = ctx.message
            /\ ctx'.bufferLen = ctx.bufferLen /\ ctx'.bufferSentLen = ctx.bufferSentLen
        BY <3>1, <3>2 DEF Contents, Stages
      <3>4. CtxOK(ctx')
        BY <3>2, <3>3 DEF CtxOK, Parsed
      <3>5. Open(currentInstruction', ctx', Range(shown'))
        BY <2>1, <2>3, <3>2, <3>3 DEF Open, Parsed
      <3>6. /\ answer' # None /\ sending' # <<>>
            /\ Answerable(answer', Head(sending'), ctx', Range(shown'))
        BY <3>1 DEF Success, None, Answerable
      <3>7. QED  BY <2>1, <2>2, <3>4, <3>5, <3>6 DEF DeviceInv
    <2>4. CASE currentInstruction # "decode"
      <3>1. /\ sending' = <<"idle">> /\ answer' = Success([pubkey |-> ctx.path])
            /\ ctx' = [ctx EXCEPT !.stage = "NONE"]
        BY <1>2, <1>6, <2>4 DEF Respond, CallbackAnswers
      <3>2. ctx \in Contents /\ ctx.path # "foreign" /\ KeyScreens(ctx) \subseteq seen
        BY <1>3, <2>4 DEF Asking, CtxOK
      <3>3. /\ ctx' \in Contents /\ ctx'.stage = "NONE"
            /\ ctx'.path = ctx.path /\ ctx'.show = ctx.show
        BY <3>1, <3>2 DEF Contents, Stages
      <3>4. CtxOK(ctx')
        BY <3>3 DEF CtxOK
      <3>5. ctx'.path # "foreign" /\ KeyScreens(ctx') \subseteq Range(shown')
        BY <2>1, <3>2, <3>3 DEF KeyScreens
      <3>6. /\ answer' # None /\ answer'.code = "SUCCESS"
            /\ "of" \notin DOMAIN answer'.data
        BY <3>1 DEF Success, None
      <3>7. /\ sending' # <<>> /\ sending' # <<"busy">>
            /\ Answerable(answer', Head(sending'), ctx', Range(shown'))
        BY <3>1, <3>5, <3>6 DEF Answerable
      <3>8. QED  BY <2>1, <2>2, <3>4, <3>6, <3>7 DEF DeviceInv
    <2>5. QED  BY <2>3, <2>4
  <1>7. CASE Len(flow) # 1 /\ NextScreen
    <2>1. /\ shown' \in Seq(ScreenNames) /\ flow' \in Seq(ScreenNames) /\ flow' # <<>>
          /\ Range(shown') \cup Range(flow') = seen /\ screen'.callback = "NOT_RUN"
          /\ owed' = 1 /\ currentInstruction' = currentInstruction /\ sending' = <<>>
          /\ ctx' = ctx /\ answer' = None
      <3>1. shown' = Append(shown, Head(flow)) /\ flow' = Tail(flow)
        BY <1>7 DEF NextScreen
      <3>2. /\ screen'.callback = "NOT_RUN" /\ owed' = 1 /\ sending' = <<>>
            /\ currentInstruction' = currentInstruction /\ ctx' = ctx /\ answer' = None
        BY <1>2, <1>3, <1>7, ScreensDiffer DEF NextScreen, CallbackShows, Asks
      <3>3. QED  BY <1>4, <1>5, <1>7, <3>1, <3>2
    <2>2. Asking(currentInstruction', ctx', Range(shown') \cup Range(flow'))
      BY <1>3, <2>1, Zenon
    <2>3. sending' # <<"busy">> /\ owed' # 0
      BY <2>1
    <2>4. CtxOK(ctx')
      BY <1>3, <2>1
    <2>5. QED  BY <2>1, <2>2, <2>3, <2>4 DEF DeviceInv
  <1>8. CASE Crashes
    BY <1>8, CrashesKeeps
  <1>9. QED  BY <1>6, <1>7, <1>8 DEF UserConfirms

\* ... or rejecting on the last screen.
LEMMA RejectsKeeps ==
  ASSUME FrameInv, DeviceInv, UserRejects
  PROVE  DeviceInv'
  <1>1. Pressed("prompt") /\ "prompt" \in Kinds /\ CallbackAnswers("idle")
    BY DEF UserRejects, Reject, Kinds
  <1>2. /\ screen \in [kind : Kinds, callback : {"NOT_RUN", "RUN"}]
        /\ sending = <<>> /\ owed = 1 /\ screen.callback = "NOT_RUN"
    BY <1>1, PressedScreen DEF Pressed
  <1>3. /\ ctx.stage \in {"DECODE", "INIT"} /\ ctx \in Contents /\ shown \in Seq(ScreenNames)
    BY <1>2 DEF DeviceInv, Asking, CtxOK
  <1>4. /\ sending' = <<"idle">> /\ screen' = Acted(screen) /\ owed' = 1
        /\ answer' = Error("ERR_REJECTED_BY_USER") /\ flow' = <<>> /\ shown' = shown
        /\ ctx' = ctx \/ ctx' = [ctx EXCEPT !.message = None]
    BY <1>1, <1>2 DEF UserRejects, CallbackAnswers
  <1>5. ctx' \in Contents /\ ctx'.stage \in {"DECODE", "INIT"}
    BY <1>3, <1>4 DEF Contents
  <1>6. screen'.callback # "NOT_RUN"
    BY <1>2, <1>4, ScreensDiffer
  <1>7. /\ answer' # None /\ sending' # <<>> /\ sending' # <<"busy">>
        /\ Answerable(answer', Head(sending'), ctx', Range(shown'))
    BY <1>4 DEF Error, None, Answerable
  <1>8. QED  BY <1>3, <1>4, <1>5, <1>6, <1>7 DEF DeviceInv, CtxOK

-------------------------------------------------------------------------------
LEMMA NextKeeps == FrameInv /\ DeviceInv /\ [Next]_vars => DeviceInv'
  <1> SUFFICES ASSUME FrameInv, DeviceInv, [Next]_vars PROVE DeviceInv'
    OBVIOUS
  <1>1. ASSUME NEW a \in Apdus, Command(a) PROVE DeviceInv'
    BY <1>1, CommandKeeps
  <1>2. CASE Refused
    BY <1>2, RefusedKeeps
  <1>3. CASE AnswerSent
    BY <1>3, SentKeeps
  <1>4. CASE UserConfirms
    BY <1>4, ConfirmsKeeps
  <1>5. CASE UserRejects
    BY <1>5, RejectsKeeps
  <1>6. CASE Disturbed \/ Unplugged
    BY <1>6, CrashesKeeps DEF Disturbed, Unplugged
  <1>7. CASE UNCHANGED vars
    BY <1>7 DEF vars, frame, DeviceInv
  <1>8. QED
    BY <1>1, <1>2, <1>3, <1>4, <1>5, <1>6, <1>7 DEF Next

LEMMA InitEstablishes == Init => DeviceInv
  <1> SUFFICES ASSUME Init PROVE DeviceInv
    OBVIOUS
  <1>1. Menu.callback # "NOT_RUN"
    BY ScreensDiffer
  <1>2. QED  BY <1>1, Zeroed DEF Init, FrameInit, DeviceInv

LEMMA DeviceInvHolds == Spec => [](FrameInv /\ DeviceInv)
  <1>1. Spec => []FrameInv
    BY DeviceImplementsFrame, FrameInvInductive, PTL
  <1>2. QED  BY <1>1, InitEstablishes, NextKeeps, PTL DEF Spec

\* Type correctness: what each handler leaves in the union it shares with the
\* others, and a screen or an answer exactly when the display or the transport
\* says so.
THEOREM DeviceTypes == Spec => []TypeOK
  <1>1. FrameInv => FrameTypeOK
    BY OneOrNone DEF FrameInv, FrameTypeOK
  <1>2. DeviceInv => /\ ctx \in Contents
                     /\ flow # <<>> <=> screen.callback = "NOT_RUN"
                     /\ answer # None <=> sending # <<>>
    BY DEF DeviceInv, CtxOK
  <1>3. ctx \in Contents =>
          /\ ctx.stage \in {"NONE", "INIT", "RECEIVE", "DECODE", "SEND_REST"}
          /\ ctx.message \in Messages \cup {None}
          /\ ctx.bufferSentLen \in 0..U16 - 1 /\ ctx.bufferLen \in 0..U16 - 1
    BY DEF Contents, Stages
  <1>4. FrameInv /\ DeviceInv => TypeOK
    BY <1>1, <1>2, <1>3 DEF TypeOK
  <1>5. QED  BY <1>4, DeviceInvHolds, PTL

\* Plain text leaves only after all of it was shown and confirmed in this call:
\* the screens of a message cover its texts, and nothing but the callback of the
\* last one opens the way to the chunks.
THEOREM ShownFirst == Spec => []ShownBeforeSent
  <1>1. DeviceInv => ShownBeforeSent
    BY DEF DeviceInv, Answerable, ShownBeforeSent, Carries, TextsOf
  <1>2. QED  BY <1>1, DeviceInvHolds, PTL

\* A key leaves only as the host and the policy asked for it to be shown.
THEOREM KeyAsAsked == Spec => []KeyShownAsAsked
  <1>1. DeviceInv => KeyShownAsAsked
    BY DEF DeviceInv, Answerable, KeyShownAsAsked, Carries, KeyScreens
  <1>2. QED  BY <1>1, DeviceInvHolds, PTL

\* What is shown and sent lies within the plain text of a message somebody sent,
\* although the length of the padding is not checked before it is subtracted.
THEOREM WithinMessage == Spec => []DecodedWithinMessage
  <1>1. ASSUME DeviceInv, ctx.message # None, flow # <<>> \/ ctx.stage = "SEND_REST"
        PROVE  Parsed(ctx)
    BY <1>1 DEF DeviceInv, Asking, CtxOK
  <1>2. DeviceInv => DecodedWithinMessage
    BY <1>1 DEF Parsed, DecodedWithinMessage
  <1>3. QED  BY <1>2, DeviceInvHolds, PTL

\* A call that is open while the device waits for a command has one that goes on.
THEOREM CallContinues == Spec => []OpenCallContinues
  <1>1. DeviceInv => OpenCallContinues
    BY DEF DeviceInv, Open, OpenCallContinues
  <1>2. QED  BY <1>1, DeviceInvHolds, PTL

\* An error resets the exchange: only the idle screen follows one.
THEOREM ErrorsReset == Spec => ErrorEndsCall
  <1> DEFINE Resets == answer # None /\ answer.code # "SUCCESS" /\ answer' = None
                        => currentInstruction' = INS_NONE
  <1>1. FrameInv /\ DeviceInv /\ [Next]_vars => [Resets]_vars
    <2> SUFFICES ASSUME FrameInv, DeviceInv, Next PROVE Resets
      OBVIOUS
    <2>1. CASE AnswerSent
      BY <2>1, SentKeeps
    <2>2. CASE Crashes
      BY <2>2 DEF Crashes, Restart
    <2>3. CASE answer' # None \/ answer' = answer
      BY <2>3
    <2>4. ASSUME NEW a \in Apdus, Command(a) PROVE Resets
      <3>1. answer = None
        BY <2>4, Idle DEF Command
      <3>2. QED  BY <3>1
    <2>5. CASE Refused
      BY <2>5, Idle DEF Refused
    <2>6. CASE UserConfirms
      <3>1. Respond \/ NextScreen \/ Crashes
        BY <2>6 DEF UserConfirms
      <3>2. \A d : Success(d) # None
        BY DEF Success, None
      <3>3. QED  BY <2>2, <2>3, <3>1, <3>2 DEF Respond, NextScreen
    <2>7. CASE UserRejects
      BY <2>3, <2>7 DEF UserRejects, Error, None
    <2>8. CASE Disturbed \/ Unplugged
      BY <2>2, <2>8 DEF Disturbed, Unplugged
    <2>9. QED  BY <2>1, <2>4, <2>5, <2>6, <2>7, <2>8 DEF Next
  <1>2. QED  BY <1>1, DeviceInvHolds, PTL DEF Spec, ErrorEndsCall
===============================================================================
