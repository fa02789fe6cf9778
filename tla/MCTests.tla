-------------------------------- MODULE MCTests --------------------------------
(***************************************************************************)
(* All tests of test-integration/ that are modelled, on one device: calls  *)
(* of the library and scripts of commands follow one another in any order. *)
(* The device is a DEVEL build, which lists the chains of both.            *)
(*                                                                         *)
(* Before them come two checks that no test makes: one number is parsed,   *)
(* or one encrypted part gets appends around the limit of responseLength.  *)
(***************************************************************************)
EXTENDS HostTests, DeviceTests, VarUIntLoop

EmptyText == Text(0)
TestRequests == [id \in DOMAIN Tests |-> Tests[id].request]
SigningTests == {id \in DOMAIN Tests : Tests[id].ends = "signed"}

\* The values that the tests hand over, and more like them.
GivenNames ==
  {parseNameString(TestActor), parseNameString(Active), FioToken}
GivenValues ==
  {Text(n) : n \in 0..220} \cup {Hex(n) : n \in 0..65} \cup GivenNames \cup {TestActor}
    \cup {Value("uint64", 8, <<w>>) : w \in 0..65} \cup {Value("buffer", 10, <<>>)}
    \cup {WithLength(Text(n)) : n \in 0..80}
    \cup {Value("memo", 15, <<11>>), Value("hash", 26, <<11, 10>>)}
    \cup {Value("address", 3 + t + p + 3, <<t, 3, p>>) : t \in {3, 4}, p \in {1, 23, 26, 27}}
    \cup {Value("hex", 6, <<1>>)} \cup {Value("other", n, <<>>) : n \in 0..35}
TestPlans  == Plans \cup {CommandsOf(Scripts[id]) : id \in DOMAIN Scripts}
TestChains == ShippedChains \cup DevelChains

MCRequests == TestRequests
MCShipped  == SigningTests
MCAgain    == DOMAIN TestRequests
MCValues   == WithSpellings(GivenValues)
MCNameOf   == SpellingsOf(GivenValues)
MCSize     == SizesOf(MCValues)
MCSections == SectionsBelow(4000)
MCAllowed  == TestChains

-----------------------------------------------------------------------------
(* Numbers next to the powers of 2 at which another byte is needed, and bytes  *)
(* around the limits of nine bytes and of 32 bits.                             *)

Near(k) == {0..k - 1, {k}, {0, k}, 0..k, {k - 1}}
MCNumbers == {{}} \cup UNION {Near(k) : k \in {1, 7, 14, 21, 28, 31}}

SomeBytes == {0, 1, 127, 128, 255}
Repeated(byte, n) == [i \in 1..n |-> byte]
MCGiven ==
  UNION {[1..n -> SomeBytes] : n \in 0..4}
    \cup {Repeated(b, n) \o <<last>> :
            b \in {128, 255}, n \in 4..11, last \in SomeBytes \cup {15, 16}}

NoNumber ==
  /\ valueBytes = <<>> /\ numberSent = {} /\ numberRead = {}
  /\ bitShift = 0 /\ readPosition = 0
  /\ pc = "idle"
Forget ==
  /\ pc \in {"accepted", "refused"}
  /\ valueBytes' = <<>> /\ numberSent' = {} /\ numberRead' = {}
  /\ bitShift' = 0 /\ readPosition' = 0
  /\ pc' = "idle"
NumberTest == LoopNext \/ Forget

-----------------------------------------------------------------------------
(* Up to five appends of 15, 176 and 177 bytes: 15 bytes in the cache, and     *)
(* then 11 and 12 blocks at once.  The fifth is long enough after the start of *)
(* the encrypted part for 12 blocks to be lost without an error.               *)

Appending == [id |-> 1, step |-> 1, state |-> "appending", cipher |-> 0]
NoTest == [id |-> 1, step |-> 1, state |-> "idle", cipher |-> 0]
AppendTest ==
  /\ test.state = "appending"
  /\ \/ /\ reply.status # "pending"
        /\ \/ test.step = 1 /\ HandleInit
           \/ test.step = 2 /\ HandleStartDHEncoding
           \/ test.step \in 3..7 /\ \E n \in {15, 176, 177} : HandleAppendConstData(n)
        /\ test' = [test EXCEPT !.step = @ + 1]
     \/ UserReads /\ UNCHANGED test
     \/ Restart /\ test' = NoTest

-----------------------------------------------------------------------------
(* One after the other.                                                        *)

NoCall == [state |-> "idle", id |-> NoRequest, next |-> 1, dh |-> 0, why |-> "none"]

\* A call or a script begins when the one before has ended, which is forgotten.
LibraryTest == test.state \in {"idle", "passed"} /\ ReviewNext /\ test' = NoTest
CommandTest == ~InCall /\ TestNext /\ host' = NoCall /\ read' = <<0>>

TestsInit ==
  /\ ReviewInit
  /\ \/ test = NoTest /\ LoopInit
     \/ test = Appending /\ NoNumber
TestsNext ==
  \/ NumberTest /\ UNCHANGED <<testVars, test>>
  \/ /\ pc = "idle" /\ UNCHANGED loopVars
     /\ \/ LibraryTest \/ CommandTest
        \/ AppendTest /\ UNCHANGED <<host, read>>
TestsSpec == TestsInit /\ [][TestsNext]_<<testVars, test, loopVars>>

\* The scripts of commands pass, whatever ran before them.
ScriptsPass == AnsweredAsTested
=============================================================================
