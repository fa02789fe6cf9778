------------------------------- MODULE HostTests -------------------------------
(***************************************************************************)
(* The transaction tests of test-integration/ run against HostSign: each   *)
(* has the library sign a transaction, presses the buttons through a       *)
(* number of screens and compares the answer with the serialization of     *)
(* another library.  Tests follow one another in any order.                *)
(***************************************************************************)
EXTENDS HostSign
LOCAL INSTANCE TLC

VARIABLE
  read     \* texts read so far, up to each confirmation

testVars == <<instr, ctx, hist, ui, reply, host, read>>

-----------------------------------------------------------------------------
(* A test: a request, the texts reviewed up to each confirmation, and how   *)
(* it ends.  The last text is that of FINISH.                               *)

TestActor == Spelled(<<6, 11, 25, 30, 10, 23, 24, 13, 8, 26, 2, 2>>)
Active == Spelled(<<6, 8, 25, 14, 27, 10>>)
TestPath == FioPrefix \o <<Index(1, 0)>>
Fee == Number(29)

basicTx(account, name, data) ==
  [expiration |-> Date, ref_block_num |-> Number(13), ref_block_prefix |-> Number(30),
   context_free_actions |-> <<>>,
   actions |-> <<[account |-> account, name |-> name,
                  authorization |-> <<[actor |-> TestActor, permission |-> Active]>>,
                  data |-> data]>>]
RequestOf(account, name, data) ==
  [path |-> TestPath, chainId |-> Chain(TRUE), tx |-> basicTx(account, name, data)]
Reviewed(request, review) == [request |-> request, review |-> review, ends |-> "signed"]
OfAction(account, name, data, review) == Reviewed(RequestOf(account, name, data), review)

Common  == [max_fee |-> Fee, tpid |-> Text(14), actor |-> TestActor]
Address53 == Common @@ [fio_address |-> Text(53)]
Domain10  == Common @@ [fio_domain |-> Text(10)]

-----------------------------------------------------------------------------
(* Address and domain actions: signTransactionOtherFioAddress.js            *)

SignRemalladdr == OfAction("fio.address", "remalladdr", Address53, <<5>>)
SignAddbundles ==
  OfAction("fio.address", "addbundles", Address53 @@ [bundle_sets |-> Number(30)], <<6>>)
SignRegaddress ==
  OfAction("fio.address", "regaddress", Address53 @@ [owner_fio_public_key |-> Text(17)], <<6>>)
SignXferaddress ==
  OfAction("fio.address", "xferaddress",
           Address53 @@ [new_owner_fio_public_key |-> Text(17)], <<6>>)
SignRegdomain ==
  OfAction("fio.address", "regdomain", Domain10 @@ [owner_fio_public_key |-> Text(17)], <<6>>)
SignRenewdomain == OfAction("fio.address", "renewdomain", Domain10, <<5>>)
SignSetdomainpubTrue ==
  OfAction("fio.address", "setdomainpub", Domain10 @@ [is_public |-> Flag(TRUE)], <<6>>)
SignSetdomainpubFalse ==
  OfAction("fio.address", "setdomainpub", Domain10 @@ [is_public |-> Flag(FALSE)], <<6>>)
SignXferdomain ==
  OfAction("fio.address", "xferdomain",
           Domain10 @@ [new_owner_fio_public_key |-> Text(17)], <<6>>)
SignRemallnfts == OfAction("fio.address", "remallnfts", Address53, <<5>>)

-----------------------------------------------------------------------------
(* Lists: signTransactionAddaddress.js, ...Remaddress.js, ...Addnft.js,     *)
(* ...Remnft.js                                                             *)

BtcAddress(n) == [chain_code |-> Text(3), token_code |-> Text(3), public_address |-> Text(n)]
Btc2(n) == [BtcAddress(n) EXCEPT !.token_code = Text(4)]
Adds(addresses, review) ==
  OfAction("fio.address", "addaddress", Address53 @@ [public_addresses |-> addresses], review)
Removes(addresses, review) ==
  OfAction("fio.address", "remaddress", Address53 @@ [public_addresses |-> addresses], review)
First  == BtcAddress(23)
Second == BtcAddress(27)
Third  == BtcAddress(26)
Fourth == BtcAddress(27)

AddAddress1 == Adds(<<First>>, <<6>>)
AddAddress2 == Adds(<<First, Btc2(27)>>, <<7>>)
AddAddress3 == Adds(<<First, BtcAddress(1), Third>>, <<8>>)
AddAddress4 == Adds(<<First, Second, Third, Fourth>>, <<9>>)
AddAddress5 == Adds(<<First, Second, Third, Fourth, BtcAddress(26)>>, <<10>>)
RemAddress1 == Removes(<<First>>, <<6>>)
RemAddress2 == Removes(<<First, Second>>, <<7>>)
RemAddress3 == Removes(<<First, Second, Third>>, <<8>>)
RemAddress4 == Removes(<<First, Second, Third, Fourth>>, <<9>>)
RemAddress5 == Removes(<<First, Second, Third, Fourth, Btc2(26)>>, <<10>>)

\* The first NFT; a later one has longer texts.
Id(more, contract) ==
  [chain_code |-> Text(3 + more), contract_address |-> Text(contract), token_id |-> Text(6)]
Whole(more, contract) ==
  Id(more, contract) @@
  [url |-> Text(6 + more), hash |-> Text(7 + more), metadata |-> Text(11 + more)]
Nfts53(nfts) == Address53 @@ [nfts |-> nfts]

AddNft1 == OfAction("fio.address", "addnft", Nfts53(<<Whole(0, 16)>>), <<9>>)
AddNft2 == OfAction("fio.address", "addnft", Nfts53(<<Whole(0, 16), Whole(1, 17)>>), <<13>>)
AddNft3 ==
  OfAction("fio.address", "addnft", Nfts53(<<Whole(0, 16), Whole(1, 17), Whole(1, 71)>>), <<17>>)
RemNft1 == OfAction("fio.address", "remnft", Nfts53(<<Id(0, 16)>>), <<9>>)
RemNft2 == OfAction("fio.address", "remnft", Nfts53(<<Id(0, 16), Id(1, 17)>>), <<13>>)
RemNft3 ==
  OfAction("fio.address", "remnft", Nfts53(<<Id(0, 16), Id(1, 17), Id(1, 17)>>), <<17>>)

-----------------------------------------------------------------------------
(* signTransactionOtherEosio.js, ...OtherFioOracle.js, ...OtherFioReqobt.js, *)
(* ...OtherFioStaking.js, ...Trnsfiopubky.js                                *)

Voter == [fio_address |-> Text(53), max_fee |-> Fee, actor |-> TestActor]
VoteFor(i) ==
  OfAction("eosio", "voteproducer",
           Voter @@ [producers |-> [k \in 1..i |-> Text(IF k < 10 THEN 5 ELSE 6)]], <<5 + i>>)
SignVoteproxy == OfAction("eosio", "voteproxy", Voter @@ [proxy |-> Text(5)], <<6>>)

Wrapped == Common @@ [chain_code |-> Text(5), public_address |-> Text(10),
                      max_oracle_fee |-> Number(31)]
SignWrapdomain == OfAction("fio.oracle", "wrapdomain", Wrapped @@ [fio_domain |-> Text(11)], <<8>>)
SignWraptokens == OfAction("fio.oracle", "wraptokens", Wrapped @@ [amount |-> Number(41)], <<8>>)

OfRequest == Common @@ [fio_request_id |-> Text(14)]
SignCancelfndreq == OfAction("fio.reqobt", "cancelfndreq", OfRequest, <<5>>)
SignRejectfndreq == OfAction("fio.reqobt", "rejectfndreq", OfRequest, <<5>>)

SignStakefio   == OfAction("fio.staking", "stakefio", Address53 @@ [amount |-> Number(7)], <<6>>)
SignUnstakefio == OfAction("fio.staking", "unstakefio", Address53 @@ [amount |-> Number(7)], <<6>>)

Transfer(amount, fee) ==
  RequestOf("fio.token", "trnsfiopubky",
            [payee_public_key |-> Text(53), amount |-> amount, max_fee |-> fee,
             tpid |-> Text(14), actor |-> TestActor])
Twenty == Transfer(Number(5), Fee)
SignTestnet  == Reviewed(Twenty, <<6>>)
SignMainnet  == Reviewed(Twenty, <<6>>)
NameInvalid  ==
  [request |-> [Twenty EXCEPT !.tx.actions[1].name = "name.error"], review |-> <<0>>,
   ends |-> "invalid data"]
PathInvalid  ==
  [request |-> [Twenty EXCEPT !.path[4] = Index(1, 1)], review |-> <<0>>,
   ends |-> "device error"]
SignRejected == [request |-> Twenty, review |-> <<6>>, ends |-> "device error"]
SignLarge    == Reviewed(Transfer(Number(55), Number(55)), <<6>>)

-----------------------------------------------------------------------------
(* signTransactionNewfundsreq.js, ...Recordobt.js                           *)

Funds == Common @@ [payer_fio_address |-> Text(16), payee_fio_address |-> Text(16),
                    other_public_key |-> Hex(65), payee_public_address |-> Text(23),
                    amount |-> Text(11), chain_code |-> Text(3), token_code |-> Text(3)]
Record(id) == Funds @@ [fio_request_id |-> Text(id), payer_public_address |-> Text(23),
                        status |-> Text(6), obt_id |-> Text(6)]
WithMemo(data) ==
  data @@ [memo |-> Text(11), hash |-> Undefined, offline_url |-> Undefined]
WithHash(data) ==
  data @@ [memo |-> Undefined, hash |-> Text(11), offline_url |-> Text(10)]

NewfundsreqMemo == OfAction("fio.reqobt", "newfundsreq", WithMemo(Funds), <<9, 2>>)
NewfundsreqHash == OfAction("fio.reqobt", "newfundsreq", WithHash(Funds), <<9, 2>>)
RecordobtMemo == OfAction("fio.reqobt", "recordobt", WithMemo(Record(14)), <<13, 2>>)
RecordobtHash == OfAction("fio.reqobt", "recordobt", WithHash(Record(0)), <<12, 2>>)

Tests ==
  <<SignRemalladdr, SignAddbundles, SignRegaddress, SignXferaddress, SignRegdomain,
    SignRenewdomain, SignSetdomainpubTrue, SignSetdomainpubFalse, SignXferdomain,
    SignRemallnfts, AddAddress1, AddAddress2, AddAddress3, AddAddress4, AddAddress5,
    RemAddress1, RemAddress2, RemAddress3, RemAddress4, RemAddress5, AddNft1, AddNft2,
    AddNft3, RemNft1, RemNft2, RemNft3, SignVoteproxy, SignWrapdomain, SignWraptokens,
    SignCancelfndreq, SignRejectfndreq, SignStakefio, SignUnstakefio, SignTestnet,
    SignMainnet, NameInvalid, PathInvalid, SignRejected, SignLarge, NewfundsreqMemo,
    NewfundsreqHash, RecordobtMemo, RecordobtHash>>
  \o [i \in 1..30 |-> VoteFor(i)]

-----------------------------------------------------------------------------
(* Running them.                                                            *)

ToBeSigned(t) == t.ends = "signed"
Now == Tests[host.id]
Last == Len(read)

Start(id) ==
  /\ host.state \in {"idle", "signed", "failed"}
  /\ Call(id)
  /\ read' = <<0>>
ReadOn ==
  /\ UserReads /\ UNCHANGED host
  /\ read' = [read EXCEPT ![Last] = @ + 1]
Approve ==
  /\ ui = "finishConfirm" => ToBeSigned(Now)
  /\ UserConfirms /\ UNCHANGED host
  /\ read' = IF ui = "dhConfirm" THEN Append(read, 0) ELSE read
Reject ==
  /\ ui = "finishConfirm" /\ ~ToBeSigned(Now)
  /\ UserRejects /\ UNCHANGED <<host, read>>
GoOn == (HostStep /\ UNCHANGED read) \/ ReadOn \/ Approve \/ Reject

ReviewInit == HostInit /\ read = <<0>>
ReviewNext == GoOn \/ \E id \in DOMAIN Tests : Start(id)
ReviewSpec == ReviewInit /\ [][ReviewNext]_testVars

-----------------------------------------------------------------------------
(* Properties.                                                              *)

\* Every call ends as its test asserts, whichever tests ran before, and the user
\* is shown as many texts, up to each confirmation, as the test pages through:
\* no value is left out, none is shown twice.
EndsAsTested ==
  /\ host.state = "signed" => ToBeSigned(Now)
  /\ host.state = "failed" => host.why = Now.ends
  /\ host.state \in {"signed", "failed"} => read = Now.review
=============================================================================
