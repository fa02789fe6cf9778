-------------------------------- MODULE Device --------------------------------
(***************************************************************************)
(* The instructions of the device other than signing, in the frame of      *)
(* Dispatcher: version, serial number, public key, and the decoding of a   *)
(* message encrypted for one of the device's keys.                         *)
(*                                                                         *)
(* A message is what its sender made of it: the lengths of its texts,      *)
(* which of them are printable, and the last byte of its plain text.  The  *)
(* HMAC holds for exactly the cipher text the sender produced.  A text of  *)
(* one context never reads as the other's layout.                          *)
(***************************************************************************)
EXTENDS Dispatcher, Functions

CONSTANTS
  Messages,   \* messages somebody may send to this device
  Unruly      \* TRUE: cables are unplugged and hosts send out of turn

MAX_MESSAGE_LENGTH == 324
MAX_SEND_FIRST_MESSAGE == 200
TEXT_LIMIT == 200                    \* ui_displayAsciiBufferScreen's buffer2
U16 == 65536                         \* bufferLen
Byte == 0..255                       \* the length of a text, the padding

None == [none |-> TRUE]
Contexts == {"newfundsreq", "recordobt"}
Texts == {"payee", "payer", "amount", "chain_code", "token_code", "status",
          "obt_id", "memo", "hash", "offline_url"}

ASSUME MessageAssumption == \A m \in Messages :
  /\ m.context \in Contexts
  /\ \E opt \in SUBSET {"memo", "hash", "offline_url"} :
       DOMAIN m.length = opt \cup
         (IF m.context = "newfundsreq"
            THEN {"payee", "amount", "chain_code", "token_code"}
            ELSE {"payer", "payee", "amount", "chain_code", "token_code", "status", "obt_id"})
  /\ Range(m.length) \subseteq Byte
  /\ m.unprintable \subseteq DOMAIN m.length
  /\ m.written \in Nat /\ m.written % 16 = 0 /\ m.written > 0   \* whole cipher blocks
  /\ m.pad \in Byte                          \* the last byte of the plain text
  /\ m.key \notin {"foreign", "malformed"}    \* the pair of keys it was made for

\* The instructions this module has the handlers of.
ASSUME HandlersAssumption ==
  {"getVersion", "getSerial", "getPublicKey", "decode"} \subseteq Instructions

VARIABLES
  ctx,      \* the context of the instruction (a union: one at a time)
  flow,     \* the rest of the UI state machine; its head is on the display
  shown,    \* history: the screens confirmed in this call
  answer    \* the answer under way

vars == <<frame, ctx, flow, shown, answer>>

ZeroCtx == [stage |-> "NONE", buffer |-> <<>>, message |-> None, bufferLen |-> 0,
            bufferSentLen |-> 0, path |-> "none", show |-> "none"]

Init == FrameInit /\ ctx = ZeroCtx /\ flow = <<>> /\ shown = <<>> /\ answer = None

-------------------------------------------------------------------------------
\* A cipher text as the host sends it: 16 bytes of IV, the blocks, an HMAC.
WireSize(m) == 16 + m.written + 32
Parts(m) ==
  IF WireSize(m) <= 200 THEN <<WireSize(m)>> ELSE <<200, WireSize(m) - 200>>
Part(m, i) == [of |-> m, nr |-> i, size |-> Parts(m)[i]]
CipherText(m) == [i \in 1..Len(Parts(m)) |-> Part(m, i)]

\* The layout of the two contexts, and the size of a message read by its own.
Strings(context) ==
  IF context = "newfundsreq"
    THEN <<"payee", "amount", "chain_code", "token_code">>
    ELSE <<"payer", "payee", "amount", "chain_code", "token_code", "status", "obt_id">>
Optional == {"memo", "hash", "offline_url"}
\* Each text has its length before it, each optional one a flag before that.
Field(m, t) == IF t \in DOMAIN m.length THEN 1 + m.length[t] ELSE 0
LayoutSize(m) ==
  Field(m, "payee") + Field(m, "payer") + Field(m, "amount") + Field(m, "chain_code")
    + Field(m, "token_code") + Field(m, "status") + Field(m, "obt_id")
    + (1 + Field(m, "memo")) + (1 + Field(m, "hash")) + (1 + Field(m, "offline_url"))

Has(m, texts) == DOMAIN m.length \cap Optional = texts
\* mutant: what was read need not be all there is
ParsesAPrefix(m, context, bufferLen) ==
  /\ m.context = context
  /\ LayoutSize(m) <= bufferLen
  /\ Has(m, {"memo"}) \/ Has(m, {"hash", "offline_url"})

Parses(m, context, bufferLen) ==
  /\ m.context = context
  /\ LayoutSize(m) = bufferLen
  /\ Has(m, {"memo"}) \/ Has(m, {"hash", "offline_url"})

\* The screens of a decoded message.
\* mutant: the second of the two optional texts has no screen
ScreensWithoutURL(m) ==
  <<"MESSAGE1", "MESSAGE2">>
    \o (IF m.context = "newfundsreq"
          THEN Strings(m.context)
          ELSE <<"payee", "payer", "amount", "chain_code", "token_code", "status", "obt_id">>)
    \o (IF Has(m, {"memo"}) THEN <<"memo">> ELSE <<"hash">>)
    \o <<"CONFIRM">>

Screens(m) ==
  <<"MESSAGE1", "MESSAGE2">>
    \o (IF m.context = "newfundsreq"
          THEN Strings(m.context)
          ELSE <<"payee", "payer", "amount", "chain_code", "token_code", "status", "obt_id">>)
    \o (IF Has(m, {"memo"}) THEN <<"memo">> ELSE <<"hash", "offline_url">>)
    \o <<"CONFIRM">>

KindOf(s) == IF s = "CONFIRM" THEN "prompt" ELSE "text"

\* ui_displayAsciiBufferScreen: printable, not empty, and short enough.
Displayable(s) ==
  s \in Texts => /\ s \notin ctx.message.unprintable
                 /\ ctx.message.length[s] \in 1..TEXT_LIMIT - 1

-------------------------------------------------------------------------------
\* A new call starts from a zeroed union.
NewCall == currentInstruction = INS_NONE
Ctx == IF NewCall THEN ZeroCtx ELSE ctx
Shown == IF NewCall THEN <<>> ELSE shown

\* How a handler ends, in the terms of the frame.
Success(data) == [code |-> "SUCCESS", data |-> data]
Error(code)   == [code |-> code, data |-> None]

AnswersNow(ins, c, a, follow) ==
  /\ HandlerAnswers(ins, follow)
  /\ ctx' = c /\ answer' = a /\ shown' = Shown
  /\ UNCHANGED flow

Throws(ins, c, code) ==
  /\ HandlerThrows(ins)
  /\ ctx' = c /\ answer' = Error(code) /\ shown' = Shown
  /\ UNCHANGED flow

Shows(ins, c, screens) ==
  /\ HandlerShows(ins, KindOf(Head(screens)))
  /\ ctx' = c /\ flow' = screens /\ shown' = Shown
  /\ UNCHANGED answer

Crashes == /\ Restart
           /\ ctx' = ZeroCtx /\ flow' = <<>> /\ shown' = <<>> /\ answer' = None

-------------------------------------------------------------------------------
GetVersion(a) ==
  /\ a.ins = "getVersion"
  /\ IF a.p1 = "UNUSED"
       THEN AnswersNow(a.ins, Ctx, Success([version |-> "1.0"]), "idle")
       ELSE Throws(a.ins, Ctx, "ERR_INVALID_REQUEST_PARAMETERS")

GetSerial(a) ==
  /\ a.ins = "getSerial"
  /\ IF a.p1 = "UNUSED"
       THEN AnswersNow(a.ins, Ctx, Success([serial |-> "serial"]), "idle")
       ELSE Throws(a.ins, Ctx, "ERR_INVALID_REQUEST_PARAMETERS")

\* The policies of a path: "usual", "unusual" (a large address index), and
\* "foreign" for the prefixes and lengths that are denied.
\* mutant: who asks not to be shown the key is not warned either
PolicyAllowFirst(path, show) ==
  CASE path = "foreign"       -> "DENY"
    [] path # "foreign" /\ show = "DO_NOT_SHOW" -> "ALLOW"
    [] path = "unusual" /\ show # "DO_NOT_SHOW" -> "WARN"
    [] OTHER                  -> "PROMPT"

policyForGetPublicKey(path, show) ==
  CASE path = "foreign"       -> "DENY"
    [] path = "unusual"       -> "WARN"
    [] path = "usual" /\ show # "DO_NOT_SHOW" -> "PROMPT"
    [] OTHER                  -> "ALLOW"

GetPublicKey(a) ==
  LET c == [ZeroCtx EXCEPT !.stage = "INIT", !.path = a.data, !.show = a.p1]
      policy == policyForGetPublicKey(a.data, a.p1)
  IN /\ a.ins = "getPublicKey"
     /\ CASE ~NewCall -> Throws(a.ins, ctx, "ERR_INVALID_STATE")
          [] NewCall /\ a.p1 \notin {"SHOW", "DO_NOT_SHOW"} ->
               Throws(a.ins, ZeroCtx, "ERR_INVALID_REQUEST_PARAMETERS")
          [] NewCall /\ a.p1 \in {"SHOW", "DO_NOT_SHOW"} ->
               IF a.data = "malformed" THEN Throws(a.ins, c, "ERR_INVALID_DATA") ELSE
               CASE policy = "DENY"   -> Throws(a.ins, c, "ERR_REJECTED_BY_POLICY")
                 [] policy = "WARN"   -> Shows(a.ins, c, <<"WARNING", "PATH", "PUBKEY", "CONFIRM">>)
                 [] policy = "PROMPT" -> Shows(a.ins, c, <<"PUBKEY", "CONFIRM">>)
                 [] policy = "ALLOW"  ->
                      AnswersNow(a.ins, [c EXCEPT !.stage = "NONE"],
                                 Success([pubkey |-> a.data]), "idle")

-------------------------------------------------------------------------------
\* The messages the key (a path and the other side's public key) opens, if the
\* buffer holds exactly one of them: dh_decode()'s checks and its result.
Opened(buffer, key) == {m \in Messages : CipherText(m) = buffer /\ m.key = key}
\* mutant: a whole block of padding is taken for none
DecodedLenInBlock(m) == (m.written - (m.pad % 16)) % U16

DecodedLen(m) == (m.written - m.pad) % U16

DecodeReceive(a, c) ==
  /\ a.p1 = "RECEIVE"
  /\ IF c.stage # "RECEIVE" THEN Throws(a.ins, c, "ERR_INVALID_STATE")
     ELSE IF a.data.size + c.bufferLen > MAX_MESSAGE_LENGTH
       THEN Crashes                                     \* ERR_DATA_TOO_LARGE
       ELSE AnswersNow(a.ins, [c EXCEPT !.buffer = Append(@, a.data),
                                        !.bufferLen = @ + a.data.size],
                       Success(None), "busy")

DecodeDecode(a, c) ==
  LET d == [c EXCEPT !.stage = "DECODE"]
      size == c.bufferLen
  IN /\ a.p1 = "DECODE"
     /\ CASE c.stage # "RECEIVE" -> Throws(a.ins, c, "ERR_INVALID_STATE")
          [] c.stage = "RECEIVE" /\ a.data.key = "malformed" ->
               Throws(a.ins, d, "ERR_INVALID_DATA")
          [] c.stage = "RECEIVE" /\ a.data.key = "foreign" ->
               Throws(a.ins, d, "ERR_REJECTED_BY_POLICY")
          [] c.stage = "RECEIVE" /\ a.data.key \notin {"malformed", "foreign"}
               /\ (size < 16 + 16 + 32 \/ size % 16 # 0) ->
               Throws(a.ins, d, "ERR_INVALID_DATA")
          [] OTHER ->
               IF Opened(c.buffer, a.data.key) = {}
                 THEN Throws(a.ins, d, "ERR_INVALID_HMAC")
                 ELSE LET m == CHOOSE n \in Opened(c.buffer, a.data.key) : TRUE
                          e == [d EXCEPT !.buffer = <<>>, !.message = m,
                                         !.bufferLen = DecodedLen(m), !.bufferSentLen = 0]
                      IN IF Parses(m, a.data.context, DecodedLen(m))
                           THEN Shows(a.ins, e, Screens(m))
                           ELSE Throws(a.ins, e, "ERR_INVALID_DATA")

\* mutant: the last chunk leaves the call open
DecodeSendRestOpen(a, c) ==
  LET to == IF c.bufferLen - c.bufferSentLen > MAX_SEND_FIRST_MESSAGE
              THEN c.bufferSentLen + MAX_SEND_FIRST_MESSAGE ELSE c.bufferLen
      chunk == [of |-> c.message, from |-> c.bufferSentLen, to |-> to, total |-> c.bufferLen]
  IN /\ a.p1 = "SEND_REST"
     /\ IF c.stage # "SEND_REST" THEN Throws(a.ins, c, "ERR_INVALID_STATE")
        ELSE AnswersNow(a.ins, [c EXCEPT !.bufferSentLen = to,
                                         !.stage = IF to = c.bufferLen THEN "NONE" ELSE @],
                        Success(chunk), "busy")

DecodeSendRest(a, c) ==
  LET to == IF c.bufferLen - c.bufferSentLen > MAX_SEND_FIRST_MESSAGE
              THEN c.bufferSentLen + MAX_SEND_FIRST_MESSAGE ELSE c.bufferLen
      chunk == [of |-> c.message, from |-> c.bufferSentLen, to |-> to, total |-> c.bufferLen]
  IN /\ a.p1 = "SEND_REST"
     /\ CASE c.stage # "SEND_REST" -> Throws(a.ins, c, "ERR_INVALID_STATE")
          [] c.stage = "SEND_REST" /\ to = c.bufferLen ->
               AnswersNow(a.ins, [c EXCEPT !.bufferSentLen = to, !.stage = "NONE"],
                          Success(chunk), "idle")
          [] OTHER ->
               AnswersNow(a.ins, [c EXCEPT !.bufferSentLen = to], Success(chunk), "busy")

Decode(a) ==
  LET c == IF NewCall THEN [ZeroCtx EXCEPT !.stage = "RECEIVE"] ELSE ctx
  IN /\ a.ins = "decode"
     /\ IF NewCall /\ a.p1 # "RECEIVE" THEN Throws(a.ins, ZeroCtx, "ERR_INVALID_STATE")
        ELSE \/ DecodeReceive(a, c) \/ DecodeDecode(a, c) \/ DecodeSendRest(a, c)
             \/ a.p1 = "BAD" /\ Throws(a.ins, c, "ERR_INVALID_REQUEST_PARAMETERS")

-------------------------------------------------------------------------------
Apdus ==
  [ins : {"getVersion", "getSerial"}, p1 : {"UNUSED", "BAD"}, data : {None}]
    \cup [ins : {"getPublicKey"}, p1 : {"SHOW", "DO_NOT_SHOW", "BAD"},
          data : {"usual", "unusual", "foreign", "malformed"}]
    \cup [ins : {"decode"}, p1 : {"RECEIVE"},
          data : UNION {Range(CipherText(m)) : m \in Messages}]
    \cup [ins : {"decode"}, p1 : {"DECODE"},
          data : [key : {m.key : m \in Messages} \cup {"foreign", "malformed"},
                  context : Contexts]]
    \cup [ins : {"decode"}, p1 : {"SEND_REST", "BAD"}, data : {None}]

\* A command that passes the checks of the loop is handled by its instruction.
Command(a) ==
  /\ Receives
  /\ IF MayCall(a.ins)
       THEN GetVersion(a) \/ GetSerial(a) \/ GetPublicKey(a) \/ Decode(a)
       ELSE Throws(currentInstruction, ctx, "ERR_STILL_IN_CALL")

\* A locked device, a malformed header, a wrong class or instruction.
Refused == \E code \in {"ERR_DEVICE_LOCKED", "ERR_MALFORMED_REQUEST_HEADER"} :
  Receives /\ Throws(currentInstruction, ctx, code)

AnswerSent == Sent /\ answer' = None /\ UNCHANGED <<ctx, flow, shown>>

-------------------------------------------------------------------------------
\* The callback of the screen on the display runs the next step of the flow.
Respond ==
  /\ IF currentInstruction = "decode"
       THEN /\ CallbackAnswers("busy")
            /\ answer' = Success(None)
            /\ ctx' = [ctx EXCEPT !.stage = "SEND_REST"]
       ELSE /\ CallbackAnswers("idle")
            /\ answer' = Success([pubkey |-> ctx.path])
            /\ ctx' = [ctx EXCEPT !.stage = "NONE"]
  /\ flow' = <<>>
  /\ shown' = Append(shown, Head(flow))

NextScreen ==
  /\ CallbackShows(KindOf(Head(Tail(flow))))
  /\ flow' = Tail(flow)
  /\ shown' = Append(shown, Head(flow))
  /\ UNCHANGED <<ctx, answer>>

UserConfirms ==
  /\ flow # <<>>
  /\ Pressed(KindOf(Head(flow)))
  /\ IF Len(flow) = 1 THEN Respond
     ELSE IF Displayable(Head(Tail(flow))) THEN NextScreen
     ELSE Crashes

\* A decoded message is wiped before the answer.
\* mutant: the device goes idle and forgets to tell the host
RejectForgotten ==
  /\ Pressed("prompt")
  /\ screen' = Menu /\ currentInstruction' = INS_NONE
  /\ UNCHANGED <<io_state, sending, owed>>
  /\ flow' = <<>>
  /\ UNCHANGED <<ctx, shown, answer>>

UserRejects ==
  /\ Reject
  /\ answer' = Error("ERR_REJECTED_BY_USER")
  /\ flow' = <<>>
  /\ ctx' = IF currentInstruction = "decode" THEN [ctx EXCEPT !.message = None] ELSE ctx
  /\ UNCHANGED shown

\* What the device cannot prevent.
Disturbed == Unruly /\ io_state # "EXPECT_IO" /\ sending = <<>> /\ Crashes
Unplugged == Unruly /\ Crashes

Next ==
  \/ \E a \in Apdus : Command(a)
  \/ Refused
  \/ AnswerSent \/ UserConfirms \/ UserRejects
  \/ Disturbed \/ Unplugged

Spec == Init /\ [][Next]_vars

\* The transport takes an answer that is ready, and the user goes through the
\* screens (or rejects, on the last one).
FairSpec == Spec /\ WF_vars(AnswerSent) /\ WF_vars(UserConfirms)

-------------------------------------------------------------------------------
TypeOK ==
  /\ FrameTypeOK
  /\ ctx.stage \in {"NONE", "INIT", "RECEIVE", "DECODE", "SEND_REST"}
  /\ ctx.message \in Messages \cup {None}
  /\ ctx.bufferSentLen \in 0..U16 - 1 /\ ctx.bufferLen \in 0..U16 - 1
  /\ flow # <<>> <=> screen.callback = "NOT_RUN"
  /\ answer # None <=> sending # <<>>

Carries(field) ==
  answer # None /\ answer.data # None /\ field \in DOMAIN answer.data

\* Plain text leaves the device only after every text of it was on the display
\* and the user confirmed, all in the call that sends it (decodeDH.c's screens
\* run over many callbacks; the texts are sent later, in other commands).
ShownBeforeSent ==
  Carries("of") => DOMAIN answer.data.of.length \cup {"CONFIRM"} \subseteq Range(shown)

\* A public key leaves after the user confirmed it if the host asked for that,
\* after a warning and the path if its index is unusual whatever the host asked,
\* and never for a foreign path (securityPolicy.c).
KeyShownAsAsked ==
  Carries("pubkey") =>
    /\ ctx.path # "foreign"
    /\ ctx.show = "SHOW" => {"PUBKEY", "CONFIRM"} \subseteq Range(shown)
    /\ ctx.path = "unusual" =>
         {"WARNING", "PATH", "PUBKEY", "CONFIRM"} \subseteq Range(shown)

\* What is displayed and sent lies within what was decrypted: a padding byte
\* that is larger than the plain text makes bufferLen wrap, and no such message
\* gets past the parser (diffieHellman.c:374, decodeDH.c's last check).
DecodedWithinMessage ==
  (ctx.message # None /\ (flow # <<>> \/ ctx.stage = "SEND_REST")) =>
    /\ ctx.bufferSentLen <= ctx.bufferLen
    /\ ctx.bufferLen <= ctx.message.written
    /\ WireSize(ctx.message) <= MAX_MESSAGE_LENGTH

\* A call that is open while the device waits can go on: its stage has a command
\* that succeeds, and when the last chunk has left the call is over - the stage
\* and the current instruction never disagree.
OpenCallContinues ==
  (owed = 0 /\ currentInstruction # INS_NONE) =>
    /\ currentInstruction = "decode"
    /\ \/ ctx.stage = "RECEIVE"
       \/ ctx.stage = "SEND_REST" /\ ctx.bufferSentLen < ctx.bufferLen

\* "Any such error will reset multi-APDU exchange" (errors.h:8-10): once an error
\* has been sent no call is open.
ErrorEndsCall ==
  [][(answer # None /\ answer.code # "SUCCESS" /\ answer' = None)
       => currentInstruction' = INS_NONE]_vars

\* Every command is answered, or the device restarts, as long as the user goes
\* on through the screens.
Answered == owed = 1 ~> owed = 0
===============================================================================
