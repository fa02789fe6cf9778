------------------------------ MODULE HostCalls ------------------------------
(***************************************************************************)
(* Calls of the host library (fio.ts) over one transport to one device.    *)
(* Every call asks for the version first and then sends the commands of    *)
(* its interaction; decodeMessage collects the plain text chunk by chunk.  *)
(*                                                                         *)
(* The transport is not in the repository.  It carries one exchange at a   *)
(* time, and the methods given to decorateAppAPIMethods() take a lock on   *)
(* it.  The device answers with the only compatible version, and each      *)
(* answer has the length its command expects.                              *)
(***************************************************************************)
EXTENDS Device

CONSTANTS
  Callers,     \* parts of a host program that use the library concurrently
  Jobs,        \* the calls each caller may make
  MaxCalls,    \* bound on the calls of a caller
  MayAbandon   \* TRUE: a program may give a call up and open the transport anew

Methods == {"getVersion", "getSerial", "getPublicKey", "decodeMessage"}

\* What validate() and the parsers let through to an interaction.
Arguments(j) ==
  /\ j.method = "getPublicKey" =>
       j.path \in {"usual", "unusual", "foreign"} /\ j.show \in {"SHOW", "DO_NOT_SHOW"}
  /\ j.method = "decodeMessage" =>
       /\ j.message \in Messages /\ j.context \in Contexts
       /\ j.key \in {m.key : m \in Messages} \cup {"foreign"}

ASSUME CallsAssumption ==
  /\ DOMAIN Jobs = Callers
  /\ \A c \in Callers : \A j \in Jobs[c] : j.method \in Methods /\ Arguments(j)
  /\ MaxCalls \in Nat /\ MayAbandon \in BOOLEAN

VARIABLES
  call,       \* the call each caller is in, or the last one
  lock,       \* the caller whose method holds the transport, if any
  exchange    \* the caller whose command is being answered, if any

host == <<call, lock, exchange>>
all == <<vars, host>>

NoCall == [state |-> "none", job |-> None, step |-> 0, chunks |-> <<>>, len |-> 0,
           error |-> "none", before |-> "none", nr |-> 0]
Running(c) == call[c].state \in {"ready", "awaiting"}

HostInit ==
  /\ Init
  /\ call = [c \in Callers |-> NoCall] /\ lock = {} /\ exchange = {}

-------------------------------------------------------------------------------
VersionRequest == [ins |-> "getVersion", p1 |-> "UNUSED", data |-> None]
SerialRequest  == [ins |-> "getSerial", p1 |-> "UNUSED", data |-> None]
RestRequest    == [ins |-> "decode", p1 |-> "SEND_REST", data |-> None]

decodeMessage(j) ==
  [i \in DOMAIN CipherText(j.message) |->
     [ins |-> "decode", p1 |-> "RECEIVE", data |-> CipherText(j.message)[i]]]
  \o <<[ins |-> "decode", p1 |-> "DECODE",
        data |-> [key |-> j.key, context |-> j.context]]>>

\* The commands of a call up to where an answer decides about the next one.
Script(j) ==
  <<VersionRequest>> \o
    CASE j.method = "getVersion"    -> <<>>
      [] j.method = "getSerial"     -> <<SerialRequest>>
      [] j.method = "getPublicKey"  -> <<[ins |-> "getPublicKey", p1 |-> j.show, data |-> j.path]>>
      [] j.method = "decodeMessage" -> decodeMessage(j)

Request(c) ==
  LET s == Script(call[c].job) IN
  IF call[c].step <= Len(s) THEN s[call[c].step] ELSE RestRequest

\* Methods that lock the transport while they run.
\* mutant: a method is missing from the list
lockedButKey == {"getVersion", "getSerial"}

locked == {"getVersion", "getSerial", "getPublicKey"}

-------------------------------------------------------------------------------
\* How a call goes on, as a function of what it was.
Throw(k, error) == [k EXCEPT !.state = "threw", !.error = error]

\* mutant: the loop over the chunks ends with the first one
NextChunkFirstOnly(k, chunk) ==
  [k EXCEPT !.step = @ + 1, !.chunks = Append(@, chunk), !.state = "returned"]

NextChunk(k, chunk) ==
  LET chunks == Append(k.chunks, chunk)
      total == Head(chunks).total
      len == k.len + (chunk.to - chunk.from)
      l == [k EXCEPT !.step = @ + 1, !.chunks = chunks, !.len = len]
  IN CASE chunk.total # total \/ len > total -> Throw(l, "ERR_INVALID_STATE")
       [] chunk.total = total /\ len < total -> [l EXCEPT !.state = "ready"]
       [] chunk.total = total /\ len = total -> [l EXCEPT !.state = "returned"]

Continue(k, a) ==
  CASE a.code # "SUCCESS" -> Throw(k, a.code)
    [] a.code = "SUCCESS" /\ Carries("of") -> NextChunk(k, a.data)
    [] OTHER ->
         [k EXCEPT !.step = @ + 1,
                   !.state = IF k.job.method # "decodeMessage" /\ k.step = Len(Script(k.job))
                               THEN "returned" ELSE "ready"]

\* A method that ends, in whatever way, gives the lock up.
Update(c, k) ==
  /\ call' = [call EXCEPT ![c] = k]
  /\ lock' = IF k.state \in {"returned", "threw"} THEN lock \ {c} ELSE lock

-------------------------------------------------------------------------------
Start(c, j) ==
  LET k == [NoCall EXCEPT !.state = "ready", !.job = j, !.step = 1,
                          !.before = call[c].state, !.nr = call[c].nr + 1]
  IN /\ ~Running(c) /\ call[c].nr < MaxCalls
     /\ IF j.method \in locked /\ lock # {}
          THEN call' = [call EXCEPT ![c] = Throw(k, "TransportError")] /\ UNCHANGED lock
          ELSE /\ call' = [call EXCEPT ![c] = k]
               /\ lock' = IF j.method \in locked THEN {c} ELSE lock
     /\ UNCHANGED <<vars, exchange>>

\* A command reaches the device; one that is not awaited restarts it.
Send(c) ==
  /\ call[c].state = "ready" /\ exchange = {} /\ sending = <<>>
  /\ IF io_state = "EXPECT_IO" THEN Command(Request(c)) ELSE Crashes
  /\ IF owed' = 1
       THEN exchange' = {c} /\ Update(c, [call[c] EXCEPT !.state = "awaiting"])
       ELSE UNCHANGED exchange /\ Update(c, Throw(call[c], "DisconnectedDevice"))

\* While another exchange is open the transport refuses, or lets the call wait.
SendRefused(c) ==
  /\ call[c].state = "ready" /\ exchange # {}
  /\ Update(c, Throw(call[c], "TransportRaceCondition"))
  /\ UNCHANGED <<vars, exchange>>

Deliver ==
  /\ AnswerSent
  /\ exchange' = {}
  /\ \/ \E c \in exchange : Update(c, Continue(call[c], answer))
     \/ exchange = {} /\ UNCHANGED <<call, lock>>

\* The user acts on the screen; if that restarts the device the call that
\* waits for the answer fails.
User ==
  /\ UserConfirms \/ UserRejects
  /\ IF owed' < owed /\ exchange # {}
       THEN exchange' = {} /\ \E c \in exchange : Update(c, Throw(call[c], "DisconnectedDevice"))
       ELSE UNCHANGED host

\* The program reloads: its call is gone, and the transport is a new one.
Abandon(c) ==
  /\ MayAbandon /\ Running(c)
  /\ call' = [call EXCEPT ![c].state = "abandoned"]
  /\ lock' = {} /\ exchange' = {}
  /\ UNCHANGED vars

Finished == \A c \in Callers : ~Running(c) /\ call[c].nr = MaxCalls

HostNext ==
  \/ \E c \in Callers : \/ \E j \in Jobs[c] : Start(c, j)
                        \/ Send(c) \/ SendRefused(c) \/ Abandon(c)
  \/ Deliver \/ User
  \/ Finished /\ UNCHANGED all

HostSpec == HostInit /\ [][HostNext]_all

\* A caller that may send does, the transport delivers, the user goes on.
FairHostSpec ==
  /\ HostSpec
  /\ \A c \in Callers : WF_all(Send(c))
  /\ WF_all(Deliver) /\ WF_all(User)

-------------------------------------------------------------------------------
Covers(chunks, m) ==
  /\ \A i \in DOMAIN chunks :
       /\ chunks[i].of = m
       /\ chunks[i].from = IF i = 1 THEN 0 ELSE chunks[i - 1].to
  /\ chunks[Len(chunks)].to = LayoutSize(m)

\* decodeMessage "returns decoded message" (fio.ts:246): all of the message the
\* caller passed, in order, and nothing of another one, over all the commands
\* it took to send it, decode it and fetch it.
DecodesItsOwnMessage ==
  \A c \in Callers :
    (call[c].state = "returned" /\ call[c].job.method = "decodeMessage")
      => Covers(call[c].chunks, call[c].job.message)

\* A message that follows the format and fits into the device's buffer, for the
\* key and the context the caller names, can fail for two reasons only: the user
\* rejects it, or a program before this one gave a call up and left the device in
\* the middle of it.
Readable(m) ==
  /\ m.pad \in 1..16 /\ LayoutSize(m) = m.written - m.pad
  /\ WireSize(m) <= MAX_MESSAGE_LENGTH
  /\ Has(m, {"memo"}) \/ Has(m, {"hash", "offline_url"})
  /\ m.unprintable = {} /\ Range(m.length) \subseteq 1..TEXT_LIMIT - 1
RefusedForAReason ==
  \A c \in Callers :
    LET k == call[c] IN
    (/\ k.state = "threw" /\ k.job.method = "decodeMessage"
     /\ Readable(k.job.message)
     /\ k.job.key = k.job.message.key /\ k.job.context = k.job.message.context)
    => \/ k.error = "ERR_REJECTED_BY_USER"
       \/ k.before = "abandoned" /\ k.error \in {"ERR_STILL_IN_CALL", "DisconnectedDevice"}

\* A call that ends - with a result or with an error - leaves the device with no
\* call open and no answer owed, so the next call starts from the menu.
CallFreesDevice ==
  \A c \in Callers :
    call[c].state \in {"returned", "threw"} => currentInstruction = INS_NONE /\ owed = 0

\* The methods that lock the transport never meet one another on it: as long as
\* nobody decodes a message, each of them ends as if it were alone, or is told
\* at once that the transport is taken.
LockedCallsComplete ==
  (\A c \in Callers : call[c].state # "none" => call[c].job.method # "decodeMessage") =>
    \A c \in Callers : call[c].state = "threw" =>
      \/ call[c].error = "TransportError" /\ call[c].step = 1
      \/ /\ call[c].job.method = "getPublicKey"
         /\ call[c].error \in {"ERR_REJECTED_BY_USER", "ERR_REJECTED_BY_POLICY"}

\* Every call ends unless the program gives it up.
CallsEnd == \A c \in Callers : Running(c) ~> ~Running(c)

\* "handlerFn is responsible for calling io_send either during its call or
\* subsequent UI actions" (main.c): a call that nobody disturbs gets an answer
\* to each of its commands, an error code at worst.
CallsAreAnswered ==
  \A c \in Callers : call[c].state = "threw" => call[c].error # "DisconnectedDevice"
==============================================================================
