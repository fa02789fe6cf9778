----------------------------- MODULE MCHostCalls -----------------------------
(***************************************************************************)
(* HostCalls with one caller that tries everything, with one that decodes  *)
(* a message it was sent, and with three that share the transport: one or  *)
(* two of them decode.                                                     *)
(***************************************************************************)
EXTENDS HostCalls, MCDevice

DecodeOf(m) == [method |-> "decodeMessage", message |-> m, key |-> m.key, context |-> m.context]
Plain(method) == [method |-> method]
KeyOf(path, show) == [method |-> "getPublicKey", path |-> path, show |-> show]

\* Seven bytes make the sender's plain text longer than 200 by less than a block.
Edge(n) == Sealed("recordobt", WithMemo("recordobt", 20, n))
EdgeMessages == {Edge(n) : n \in 48..50}          \* 199, 200 and 201 bytes

HostMessages == AllMessages \cup EdgeMessages
EveryJob ==
  {DecodeOf(m) : m \in HostMessages}
    \cup {[DecodeOf(Short) EXCEPT !.key = "k2"], [DecodeOf(Short) EXCEPT !.context = "recordobt"]}
    \cup {Plain("getVersion"), Plain("getSerial")}
    \cup {KeyOf(p, s) : p \in {"usual", "unusual", "foreign"}, s \in {"SHOW", "DO_NOT_SHOW"}}
OneCaller == {"A"}
OneCallerJobs == [c \in OneCaller |-> EveryJob]

Decoder == [c \in OneCaller |-> {DecodeOf(Unprintable), DecodeOf(Short)}]

ThreeCallers == {"A", "B", "C"}
OtherShort == Sealed("newfundsreq", WithMemo("newfundsreq", 5, 5))
Sharing == [A |-> {Plain("getVersion")}, B |-> {DecodeOf(Short)}, C |-> {DecodeOf(OtherShort)}]
Locking == [A |-> {Plain("getVersion"), Plain("getSerial")},
            B |-> {KeyOf("unusual", "SHOW"), KeyOf("foreign", "SHOW")},
            C |-> {DecodeOf(Short)}]
SharedMessages == {Short, OtherShort}
DroppedMessages == {Short, Unprintable}
===============================================================================
