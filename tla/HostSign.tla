-------------------------------- MODULE HostSign --------------------------------
(***************************************************************************)
(* Fio.signTransaction against the device: what is parsed and compiled by  *)
(* HostParse and HostTemplates is sent, command by command, to SignTx.     *)
(*                                                                         *)
(* Each call asks for the version first.  A call fails when its request is *)
(* not valid, when the device refuses a command or goes away, or when an   *)
(* answer is not as long as expected; the host may also stop a call, which *)
(* leaves the device where it is.                                          *)
(***************************************************************************)
EXTENDS DeviceCommands, HostTemplates
LOCAL INSTANCE FiniteSetsExt
LOCAL INSTANCE Functions

CONSTANTS
  Requests,   \* the requests that may be made, a sequence
  Shipped,    \* of those, one for each chain of commands the device lists
  Again       \* of those, the ones made after an earlier call

ASSUME RequestsAssumption ==
  /\ Requests \in Seq(SignTransactionRequest)
  /\ Shipped \cup Again \subseteq DOMAIN Requests

VARIABLE
  host   \* the call: its state, its request, the next command, the characters
         \* of cipher text received, why it failed

device   == vars
hostVars == <<instr, ctx, hist, ui, reply, host>>

\* What a request is parsed to, and the commands that it is compiled to.
ParsedAs(requests) == [id \in DOMAIN requests |-> parseSignTransactionRequest(requests[id])]
parsed == ParsedAs(Requests)
CompiledTo(p) == IF p = Invalid THEN Invalid ELSE templete_all(p.chainId, p.tx, p.path)
PlanOf(all) == [id \in DOMAIN all |-> CompiledTo(all[id])]
Plan  == PlanOf(parsed)
Plans == Range(Plan) \ {Invalid, <<>>}

ASSUME ProvidedAssumption ==
  \A id \in DOMAIN Plan : Plan[id] \notin {Invalid, <<>>} =>
    \A i \in DOMAIN Plan[id] : Accepted(Plan[id][i]) => Provided(Plan[id][i])

\* The chains that ship, and all of their constant parts, which is what
\* allowedHashes is made from.
ChainsOf(plan) == UNION {Asked(plan[id]) : id \in Shipped}
ShippedChains == ChainsOf(Plan)
ConstantsOf(commands) ==
  [i \in DOMAIN commands |-> <<commands[i].command, commands[i].p2, commands[i].const>>]
AllConstantsOf(plan) == {ConstantsOf(plan[id]) : id \in Shipped}
ShippedConstants == AllConstantsOf(Plan)

-----------------------------------------------------------------------------
(* The host.                                                               *)

NoRequest == 0
InCall == host.state \in {"version", "sending", "awaiting"}
Ends(why) == host' = [host EXCEPT !.state = "failed", !.why = why]
NextCommand == Plan[host.id][host.next]

\* A request that does not parse is refused without the device.
Call(id) ==
  /\ \/ host.state = "idle"
     \/ host.state \in {"signed", "failed"} /\ id \in Again
  /\ host' = [state |-> IF parsed[id] = Invalid THEN "failed" ELSE "version",
              id |-> id, next |-> 1, dh |-> 0,
              why |-> IF parsed[id] = Invalid THEN "invalid data" ELSE "none"]
  /\ UNCHANGED device

\* ERR_STILL_IN_CALL arrives as a DeviceStatusError, which has a code and not
\* the statusCode that wrapRetryStillInCall looks at: there is no retry.
RefusedInPlace ==               \* mutant: the device stays in the call
  /\ host.state = "version" /\ ui = "none" /\ instr # "NONE"
  /\ Ends("ERR_STILL_IN_CALL")
  /\ UNCHANGED device
VersionRefused ==
  /\ host.state = "version" /\ ui = "none" /\ instr # "NONE"
  /\ BadRequest
  /\ Ends("ERR_STILL_IN_CALL")
VersionDisturbs ==
  /\ host.state = "version" /\ ui # "none"
  /\ Restart
  /\ Ends("disconnected")
VersionAnswered ==
  /\ host.state = "version" /\ ui = "none" /\ instr = "NONE"
  /\ IF Plan[host.id] \in {Invalid, <<>>} THEN Ends("invalid data")
     ELSE host' = [host EXCEPT !.state = "sending"]
  /\ UNCHANGED device

\* mutant: as if all of the command were in hexadecimal digits.
FitsInDigits(c) == 2 * (c.const.bytes + c.var.len) + 2 <= 255
\* The check before a command counts the constant part in hexadecimal digits.
FitsApdu(c) == 2 * c.const.bytes + c.var.len + 2 <= 255
Refuse ==
  /\ host.state = "sending" /\ ~FitsApdu(NextCommand)
  /\ Ends("unexpected error")
  /\ UNCHANGED device
Send ==
  /\ host.state = "sending" /\ FitsApdu(NextCommand)
  /\ DeviceHandles(NextCommand)
  /\ host' = [host EXCEPT !.state = "awaiting"]

\* _send and the dataAction of the command.
AsExpected(c) == c.expectedResponseLength \in {NoExpectation, reply.length}
\* mutant: of the cipher text, only the last answer is kept.
ReceiveLast ==
  /\ host.state = "awaiting" /\ reply.status = "success"
  /\ host' = IF NextCommand.command = "FINISH"
             THEN [host EXCEPT !.state = "signed"]
             ELSE [host EXCEPT !.state = "sending", !.next = @ + 1, !.dh = reply.length]
  /\ UNCHANGED device
Receive ==
  /\ host.state = "awaiting" /\ reply.status # "pending"
  /\ CASE reply.status = "error" -> Ends("device error")
       [] reply.status = "reset" -> Ends("disconnected")
       [] reply.status = "success" /\ ~AsExpected(NextCommand) -> Ends("unexpected length")
       [] OTHER ->
            host' = IF NextCommand.command = "FINISH"
                    THEN [host EXCEPT !.state = "signed"]
                    ELSE [host EXCEPT !.state = "sending", !.next = @ + 1,
                                      !.dh = @ + reply.length]
  /\ UNCHANGED device

\* The program that made the call is gone; the device does not notice.
Abandon ==
  /\ InCall
  /\ Ends("abandoned")
  /\ UNCHANGED device

Unplug ==
  /\ Restart
  /\ IF InCall THEN Ends("disconnected") ELSE UNCHANGED host

UserActs == User /\ UNCHANGED host

HostInit ==
  Init /\ host = [state |-> "idle", id |-> NoRequest, next |-> 1, dh |-> 0, why |-> "none"]
HostStep == VersionRefused \/ VersionDisturbs \/ VersionAnswered \/ Refuse \/ Send \/ Receive
HostNext ==
  \/ \E id \in DOMAIN parsed : Call(id)
  \/ HostStep
  \/ UserActs
  \/ Abandon
  \/ Unplug
HostSpec == HostInit /\ [][HostNext]_hostVars

\* The host goes on with a call, and the user acts on every screen.
FairHostSpec == HostSpec /\ WF_hostVars(HostStep) /\ WF_hostVars(UserActs)

-----------------------------------------------------------------------------
(* Properties.                                                             *)

\* A call under way has a parsed request of the types of internal.ts.
HostTypeOK ==
  /\ host \in [state : {"idle", "version", "sending", "awaiting", "signed", "failed"},
               id : DOMAIN parsed \cup {NoRequest}, next : Nat \ {0}, dh : Nat,
               why : {"none", "invalid data", "ERR_STILL_IN_CALL", "disconnected",
                      "unexpected error", "device error", "unexpected length", "abandoned"}]
  /\ InCall =>
       /\ parsed[host.id].path \in ValidBIP32Path
       /\ parsed[host.id].chainId \in HexString
       /\ parsed[host.id].tx \in ParsedTransaction

\* Lengths of serialized fields, for what a transaction should come to.
Packed(v) == IF v.kind \in {"uint64", "name"} THEN 8 ELSE lenlen(v.len) + v.len
PackedRecord(r) == MapThenSumSet(LAMBDA f : Packed(r[f]), DOMAIN r)
PackedList(s) == lenlen(Len(s)) + MapThenSumSet(LAMBDA i : PackedRecord(s[i]), DOMAIN s)
PackedOptional(v) == IF v = Undefined THEN 1 ELSE 1 + Packed(v)

\* Base64 of the IV, the padded plain text and the HMAC.
CipherText(n) == 4 * ((16 + 16 * (n \div 16 + 1) + 32 + 2) \div 3)
Clear == {"payer_fio_address", "payee_fio_address", "max_fee", "actor", "tpid", "fio_request_id"}
Optional == {"memo", "hash", "offline_url"}
PlainText(d) ==
  MapThenSumSet(LAMBDA f : Packed(d[f]), DOMAIN d \ (Clear \cup Optional \cup {"other_public_key"}))
    + PackedOptional(d.memo) + PackedOptional(d.hash)
    + (IF d.memo # Undefined THEN 1 ELSE PackedOptional(d.offline_url))
PackedData(d) ==
  IF "other_public_key" \in DOMAIN d
  THEN LET n == CipherText(PlainText(d))
       IN  lenlen(n) + n + MapThenSumSet(LAMBDA f : Packed(d[f]), DOMAIN d \cap Clear)
  ELSE MapThenSumSet(LAMBDA f : IF f = "is_public" THEN 1 ELSE Packed(d[f]), DOMAIN d \ Lists)
         + MapThenSumSet(LAMBDA f : IF f = "producers"
                                    THEN lenlen(Len(d[f]))
                                           + MapThenSumSet(LAMBDA i : Packed(d[f][i]), DOMAIN d[f])
                                    ELSE PackedList(d[f]), DOMAIN d \cap Lists)
\* Chain id; header; no context free actions; one action, with one
\* authorization; no extensions; no context free data.
SerializedLength(d) ==
  LET n == PackedData(d)
  IN  32 + 13 + 1 + (1 + 16) + (1 + 16) + lenlen(n) + n + 1 + 32

Data(id) == parsed[id].tx.actions[1].data
Signs == host.state = "awaiting" /\ host'.state = "signed"

\* What the device has hashed when a call ends with a signature is as long as
\* the serialized transaction of the request, chain id, one action and no
\* extensions included.
SignsTheWholeTransaction == [][ Signs => hist.out = SerializedLength(Data(host.id)) ]_hostVars

\* dhEncryptedData of a result is the whole cipher text of the content.
CipherTextReturned ==
  [][ Signs => host.dh = IF "other_public_key" \in DOMAIN Data(host.id)
                         THEN CipherText(PlainText(Data(host.id))) ELSE 0 ]_hostVars

\* The action is done in the name of the actor that authorizes it, as spelled
\* where the action carries a text.
SignsForTheActor ==
  [][ Signs => LET actor == Data(host.id).actor
                   authorized == parsed[host.id].tx.actions[1].authorization[1].actor
               IN  actor \in {authorized, NameOf[authorized]} ]_hostVars

\* Constant parts depend on the action and the number of its list elements
\* alone: those of any signed request are the ones of a shipped sequence, and
\* the device has seen just these commands.
SignsAListedSequence ==
  [][ Signs => /\ ctx.integrity = EntriesOf(Plan[host.id])
               /\ ConstantsOf(Plan[host.id]) \in ShippedConstants ]_hostVars

\* The actor of the action is not the one that authorizes it, or is a text and
\* spelled differently.
OtherActor(c) ==
  c.command = "APPEND_DATA" /\ CheckFails(ctx, c.const.storage, c.var) = "error"
\* An append in an encrypted part whose characters responseLength cannot hold.
LongAppend(c) == ctx.dhIsActive /\ AppendWritten(ctx.dh, c.var.len) >= U8

\* Commands of a template never run into each other: lengths of sections,
\* nesting, registers and the sequence are as the device wants them, and it
\* refuses a command only for the value in it.
RefusedForAValue ==
  [][ host.state = "sending" /\ host'.state = "awaiting" /\ reply'.status \in {"error", "reset"}
      => \/ ~Accepted(NextCommand)
         \/ OtherActor(NextCommand)
         \/ LongAppend(NextCommand) ]_hostVars

\* A command too long for one APDU is noticed when it is next, with the device
\* in the middle of the call.  No request stops there for its constant parts or
\* the length of a list: it takes a value that the device refuses anyway, or one
\* of more than 179 bytes, which the longest key of the templates, 17 characters,
\* leaves of 255 after two length bytes and the constant part as digits.
LONGEST_VALUE == 255 - 2 - 2 * (20 + 17)
HostStopsForAValue ==
  [][ host'.why = "unexpected error" /\ host.why # "unexpected error"
      => ~Accepted(NextCommand) \/ NextCommand.var.len > LONGEST_VALUE ]_hostVars

\* The assertion of _send on the length of an answer does not fail.
LengthsAsExpected == host.why # "unexpected length"

\* ERR_STILL_IN_CALL frees the device: the call after it is not refused so.
StillInCallOnce ==
  [][ host'.why = "ERR_STILL_IN_CALL" /\ host.why # "ERR_STILL_IN_CALL"
      => instr' = "NONE" /\ ui' = "none" ]_hostVars

\* "We can therefore transparently retry the request" (fio.ts:67-68).
RetriedTransparently == host.why # "ERR_STILL_IN_CALL"

\* A value each of which the device would show is not the reason a call fails.
AcceptedValuesSign ==
  [][ host.state = "sending" /\ host'.state = "awaiting" /\ reply'.status \in {"error", "reset"}
      => ~Accepted(NextCommand) \/ OtherActor(NextCommand) ]_hostVars

=============================================================================
