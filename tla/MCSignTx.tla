------------------------------- MODULE MCSignTx -------------------------------
(* Instances of SignTx for TLC. *)
EXTENDS SignTx

CONSTANTS v0, name, actor, other      \* values

MCValues == {v0, name, actor, other}
MCSize   == [v \in MCValues |-> CASE v = v0 -> 0 [] v = name -> 8 [] v = actor -> 12 [] OTHER -> 8]
MCNames  == [v \in {name} |-> actor]

NoValues == {v0}
NoSize   == [v \in NoValues |-> 0]
NoNames  == [v \in {} |-> v]

\* 108 bytes hold the encrypted part of 16 to 31 bytes of plain text: an
\* append of 17 bytes, or a section in it that holds one.
FramingSections == {<<17, 1>>, <<108, 1>>}

\* Two kinds of transaction: one whose fields are tied by register 1, one with
\* an encrypted part, which is complete twice, at DH_END and at FINISH.
TiedChain ==
  << <<"INIT", 0, 0>>, <<"STORE_VALUE", 1, 0>>,
     <<"APPEND_DATA", 0, <<"R1", "ALLOW">> >>,
     <<"APPEND_DATA", 0, <<"R1_DECODE_NAME", "SHOW_IF_NONEMPTY">> >>,
     <<"FINISH", 0, 0>> >>
EncryptedChain ==
  << <<"INIT", 0, 0>>, <<"DH_START", 0, 0>>,
     <<"APPEND_DATA", 0, <<"R1", "ALLOW">> >>, <<"DH_END", 0, 0>> >>
MCAllowed == {TiedChain, EncryptedChain, Append(EncryptedChain, <<"FINISH", 0, 0>>)}
=============================================================================
