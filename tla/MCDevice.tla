------------------------------- MODULE MCDevice -------------------------------
(***************************************************************************)
(* Device with messages on both sides of its limits: one and two parts,    *)
(* one and two chunks, a whole block of padding, and what a sender may get *)
(* wrong - padding, the layout, a text that cannot be displayed.           *)
(***************************************************************************)
EXTENDS Device

Fields(context, each) == [t \in Range(Strings(context)) |-> each]
WithMemo(context, each, memo) ==
  [t \in Range(Strings(context)) \cup {"memo"} |-> IF t = "memo" THEN memo ELSE each]
WithHash(context, each, hash, url) ==
  [t \in Range(Strings(context)) \cup {"hash", "offline_url"} |->
     IF t = "hash" THEN hash ELSE IF t = "offline_url" THEN url ELSE each]

Layout(length) == LayoutSize([length |-> length])
\* PKCS padding: 1 to 16 bytes.
Sealed(context, length) ==
  LET pad == 16 - (Layout(length) % 16)
  IN [context |-> context, length |-> length, unprintable |-> {}, key |-> "k1",
      written |-> Layout(length) + pad, pad |-> pad]

Short    == Sealed("newfundsreq", WithMemo("newfundsreq", 4, 24))      \* 48 bytes: a block of padding
Two      == Sealed("newfundsreq", WithHash("newfundsreq", 25, 30, 50)) \* two parts, one chunk
Long     == Sealed("recordobt", WithHash("recordobt", 20, 64, 48))     \* two parts, two chunks
AllOver  == [Sealed("recordobt", WithMemo("recordobt", 4, 2)) EXCEPT !.key = "k2"]
Wrapping == [Sealed("newfundsreq", WithMemo("newfundsreq", 1, 2)) EXCEPT !.pad = 255]
Both     == Sealed("newfundsreq", [t \in Range(Strings("newfundsreq")) \cup Optional |-> 3])
Odd      == [Short EXCEPT !.unprintable = {"memo"}, !.pad = 17]
Unprintable == [Sealed("newfundsreq", WithMemo("newfundsreq", 5, 16)) EXCEPT !.unprintable = {"memo"}]
TooLong  == Sealed("newfundsreq", WithMemo("newfundsreq", 1, 200))

AllMessages == {Short, Two, Long, AllOver, Wrapping, Both, Odd, Unprintable, TooLong}
AllInstructions == {"getVersion", "getSerial", "getPublicKey", "decode"}
===============================================================================
