------------------------------ MODULE MCHostSign ------------------------------
(* Requests for TLC: one request for each action, and requests that differ   *)
(* from it in one field.                                                      *)
EXTENDS HostSign
LOCAL INSTANCE FiniteSetsExt
LOCAL INSTANCE TLC

EmptyText == Text(0)

Alice == Spelled(<<6, 17, 14, 8, 10>>)
Unprintable == Value("other", 2, <<6, 32>>)
Path  == FioPrefix \o <<Index(1, 0)>>

AnAddress == [chain_code |-> Text(3), token_code |-> Text(3), public_address |-> Text(42)]
AnNft == [chain_code |-> Text(3), contract_address |-> Text(42), token_id |-> Text(1),
          url |-> Text(20), hash |-> Text(64), metadata |-> Text(0)]
ASmallNft == [chain_code |-> Text(3), contract_address |-> Text(42), token_id |-> Text(1)]
Times(x, n) == [i \in 1..n |-> x]

Handle0  == [fio_address |-> Text(10), max_fee |-> Number(30), tpid |-> Text(9), actor |-> Alice]
Domain0  == [fio_domain |-> Text(5), max_fee |-> Number(30), tpid |-> Text(9), actor |-> Alice]
Request0 == [fio_request_id |-> Text(2), max_fee |-> Number(30), tpid |-> Text(9), actor |-> Alice]
Obt0 == [payer_fio_address |-> Text(10), payee_fio_address |-> Text(12),
         max_fee |-> Number(30), actor |-> Alice, tpid |-> Text(9),
         other_public_key |-> Hex(65), payee_public_address |-> Text(34), amount |-> Text(6),
         chain_code |-> Text(3), token_code |-> Text(3), memo |-> Text(4),
         hash |-> Undefined, offline_url |-> Undefined]

Transfer0 == [payee_public_key |-> Text(53), amount |-> Number(20), max_fee |-> Number(30),
              tpid |-> Text(9), actor |-> Alice]

\* Of each action, the account and the data.
Actions0 ==
  ("trnsfiopubky" :> <<"fio.token", Transfer0>>) @@
  ("newfundsreq" :> <<"fio.reqobt", Obt0>>) @@
  ("recordobt" :> <<"fio.reqobt",
     [Obt0 EXCEPT !.payee_public_address = Text(10), !.amount = Text(3)] @@
     [fio_request_id |-> Text(2), payer_public_address |-> Text(10),
      status |-> Text(4), obt_id |-> Text(8)]>>) @@
  ("addaddress" :> <<"fio.address", Handle0 @@ [public_addresses |-> Times(AnAddress, 1)]>>) @@
  ("remaddress" :> <<"fio.address", Handle0 @@ [public_addresses |-> Times(AnAddress, 1)]>>) @@
  ("addnft" :> <<"fio.address", Handle0 @@ [nfts |-> Times(AnNft, 1)]>>) @@
  ("remnft" :> <<"fio.address", Handle0 @@ [nfts |-> Times(ASmallNft, 1)]>>) @@
  ("remalladdr" :> <<"fio.address", Handle0>>) @@
  ("cancelfndreq" :> <<"fio.reqobt", Request0>>) @@
  ("rejectfndreq" :> <<"fio.reqobt", Request0>>) @@
  ("addbundles" :> <<"fio.address", Handle0 @@ [bundle_sets |-> Number(1)]>>) @@
  ("regaddress" :> <<"fio.address", Handle0 @@ [owner_fio_public_key |-> Text(53)]>>) @@
  ("xferaddress" :> <<"fio.address", Handle0 @@ [new_owner_fio_public_key |-> Text(53)]>>) @@
  ("regdomain" :> <<"fio.address", Domain0 @@ [owner_fio_public_key |-> Text(53)]>>) @@
  ("renewdomain" :> <<"fio.address", Domain0>>) @@
  ("setdomainpub" :> <<"fio.address", Domain0 @@ [is_public |-> Flag(TRUE)]>>) @@
  ("xferdomain" :> <<"fio.address", Domain0 @@ [new_owner_fio_public_key |-> Text(53)]>>) @@
  ("remallnfts" :> <<"fio.address", Handle0>>) @@
  ("stakefio" :> <<"fio.staking", Handle0 @@ [amount |-> Number(20)]>>) @@
  ("unstakefio" :> <<"fio.staking", Handle0 @@ [amount |-> Number(20)]>>) @@
  ("voteproducer" :> <<"eosio",
     [producers |-> Times(Text(10), 1), fio_address |-> Text(10), actor |-> Alice,
      max_fee |-> Number(30)]>>) @@
  ("voteproxy" :> <<"eosio",
     [proxy |-> Text(10), fio_address |-> Text(10), actor |-> Alice, max_fee |-> Number(30)]>>) @@
  ("wrapdomain" :> <<"fio.oracle",
     Domain0 @@ [chain_code |-> Text(3), public_address |-> Text(42),
                 max_oracle_fee |-> Number(30)]>>) @@
  ("wraptokens" :> <<"fio.oracle",
     [amount |-> Number(20), chain_code |-> Text(3), public_address |-> Text(42),
      max_oracle_fee |-> Number(30), max_fee |-> Number(30), tpid |-> Text(9),
      actor |-> Alice]>>)
Names == DOMAIN Actions0

Transaction0(name, account, data) ==
  [expiration |-> Date, ref_block_num |-> Number(16), ref_block_prefix |-> Number(32),
   context_free_actions |-> <<>>,
   actions |-> <<[account |-> account, name |-> name,
                  authorization |-> <<[actor |-> Alice, permission |-> Spelled(<<6, 8>>)]>>,
                  data |-> data]>>]
RequestFor(name, account, data) ==
  [path |-> Path, chainId |-> Chain(TRUE), tx |-> Transaction0(name, account, data)]

\* Variants of a field.
Texts    == {Text(n) : n \in {0, 2, 3, 10, 11, 62, 63, 64, 65, 128, 129, 177, 178, 180}} \cup {Garbled}
Numbers  == {Number(1), Number(64), Number(65), Malformed}
Actors   == {Spelled(s) : s \in {<<>>, <<32>>, <<6, 17, 14, 8, 10, 0>>, <<6, 17, 14, 32, 10>>,
                                 Times(7, 12), Times(7, 13)}} \cup {Garbled, Unprintable}
Flags    == {Flag(TRUE), Flag(FALSE), Number(2), Malformed, EmptyText}
Keys     == {Hex(n) : n \in {16, 17, 64, 65, 66}} \cup {Text(64)}
Memos    == {Text(n) : n \in {0, 126, 127}} \cup {Undefined}
HashUrls == {Value("hash", h + u, <<h, u>>) : h \in {0, 1, 100, 105},
                                            u \in {0, 20, 95, 103, 104}}
Count(n) == Value("list", n, <<>>)
ListFields == {"public_addresses", "nfts", "producers"}
Lengths(f) == CASE f = "public_addresses" -> 1..5 [] f = "nfts" -> 1..3 [] OTHER -> 1..30

Variants(v) ==
  CASE v.kind = "number" -> Numbers [] v.kind = "flag" -> Flags [] v.kind = "hex" -> Keys
    [] v.kind = "undefined" -> {} [] v.kind = "text" /\ v.content # <<>> -> Actors
    [] OTHER -> Texts

\* A field is one of the data or of the elements of a list in it; a list is
\* varied in its length, too.
ListOf(data) == CHOOSE l \in DOMAIN data \cap ListFields : TRUE
Element(data) ==
  IF DOMAIN data \cap (ListFields \ {"producers"}) = {} THEN <<>> ELSE data[ListOf(data)][1]
FieldVariants(data, f) ==
  CASE f = "producers" -> Texts \cup {Count(n) : n \in 0..31}
    [] f = "nfts" -> {Count(n) : n \in 0..4}
    [] f = "public_addresses" -> {Count(n) : n \in 0..6}
    [] f = "memo" -> Memos \cup HashUrls
    [] OTHER -> Variants((data @@ Element(data))[f])
Varied(data, f, v) ==
  CASE f = "producers" /\ v.kind # "list" -> [data EXCEPT ![f] = <<v>>]
    [] f \in ListFields /\ v.kind = "list" -> [data EXCEPT ![f] = Times(data[f][1], v.len)]
    [] f = "memo" /\ v.kind = "hash" ->
         [data EXCEPT !.memo = Undefined, !.hash = Text(v.content[1]),
                      !.offline_url = Text(v.content[2])]
    [] f \in DOMAIN data -> [data EXCEPT ![f] = v]
    [] OTHER -> [data EXCEPT ![ListOf(data)][1][f] = v]
VariedRequest(name, action, f, v) == RequestFor(name, action[1], Varied(action[2], f, v))

\* Requests that differ around the action.
Around(base) ==
  {[base EXCEPT !.path = SubSeq(Path, 1, 4)],
   [base EXCEPT !.path = Append(Path, Index(1, 0))],
   [base EXCEPT !.path[5] = Index(31, 7)],
   [base EXCEPT !.path[5] = Index(33, 7)],
   [base EXCEPT !.path[1] = Index(32, 49)],
   [base EXCEPT !.chainId = Chain(FALSE)],
   [base EXCEPT !.chainId = Garbled],
   [base EXCEPT !.tx.expiration = Text(8)],
   [base EXCEPT !.tx.ref_block_num = Number(17)],
   [base EXCEPT !.tx.ref_block_prefix = Number(33)],
   [base EXCEPT !.tx.actions = Times(base.tx.actions[1], 2)],
   [base EXCEPT !.tx.context_free_actions = base.tx.actions],
   [base EXCEPT !.tx.actions[1].authorization = Times(@[1], 2)],
   [base EXCEPT !.tx.actions[1].authorization[1].actor = Spelled(Times(7, 12))],
   [base EXCEPT !.tx.actions[1].authorization[1].actor = Unprintable,
                !.tx.actions[1].data.actor = Unprintable],
   [base EXCEPT !.tx.actions[1].name = "burnaddress"],
   [base EXCEPT !.tx.actions[1].name = "addbundles"],
   [base EXCEPT !.tx.actions[1].name = "addnft"]}
AroundRequests == Around(RequestFor("remalladdr", "fio.address", Handle0))

Listed(S) == FoldSet(LAMBDA x, s : Append(s, x), <<>>, S)
Joined(Seq0(_), S) == FoldSet(LAMBDA x, s : s \o Seq0(x), <<>>, S)
VaryingOf(name, action) ==
  Joined(LAMBDA f :
    Listed({VariedRequest(name, action, f, v) : v \in FieldVariants(action[2], f)}),
    DOMAIN (action[2] @@ Element(action[2])))
Varying(names) == Joined(LAMBDA name : VaryingOf(name, Actions0[name]), names)

\* The sequences of commands that ship: of each action, of each list length.
ShippedAs(name, action) ==
  CASE "is_public" \in DOMAIN action[2] ->
         {VariedRequest(name, action, "is_public", Flag(b)) : b \in BOOLEAN}
    [] DOMAIN action[2] \cap ListFields # {} ->
         UNION {{VariedRequest(name, action, f, Count(n)) : n \in Lengths(f)} :
                  f \in DOMAIN action[2] \cap ListFields}
    [] OTHER -> {RequestFor(name, action[1], action[2])}
ShippedRequests == Listed(UNION {ShippedAs(name, Actions0[name]) : name \in Names})

AllRequests == ShippedRequests \o Varying(Names) \o Listed(AroundRequests)
AllShipped  == DOMAIN ShippedRequests

\* Records of transactions alone; requests that follow one another: the first
\* does, after a request that signs, one refused by the device for a value and
\* one that the host gives up in the middle.
ObtRequests ==
  Listed(ShippedAs("recordobt", Actions0["recordobt"])) \o Varying({"recordobt"})
FewRequests ==
  <<RequestFor("remalladdr", "fio.address", Handle0),
    RequestFor("newfundsreq", "fio.reqobt", Obt0),
    RequestFor("newfundsreq", "fio.reqobt", [Obt0 EXCEPT !.payee_public_address = Text(180)]),
    RequestFor("trnsfiopubky", "fio.token", [Transfer0 EXCEPT !.amount = Number(64)])>>

\* The values of these requests as commands carry them, and more like them.
GivenSpellings == (Actors \ {Garbled, Unprintable}) \cup {Alice, Spelled(<<6, 8>>)}
GivenNames == {parseNameString(a) : a \in GivenSpellings \cup {Unprintable}} \ {Invalid}
GivenValues ==
  {Text(n) : n \in 0..220} \cup {Hex(n) : n \in {17, 64, 65}}
    \cup GivenSpellings \cup GivenNames
    \cup {Value("uint64", 8, <<w>>) : w \in 0..65} \cup {Value("buffer", 10, <<>>)}
    \cup {WithLength(Text(n)) : n \in 0..180}
    \cup {Value("memo", n + 3 + lenlen(n), <<n>>) : n \in {4, 126, 127}}
    \cup {Value("hash", h + u + 5, <<h, u>>) : h \in {1, 100, 105},
                                                u \in {20, 95, 103, 104}}
    \cup UNION {{Value("address", c + t + p + 3, <<t, c, p>>) :
                   c \in {2, 3, 10}, t \in {2, 3, 10}} : p \in {2, 3, 10, 11, 42, 62, 63, 64}}

MCRequests == AllRequests
MCShipped  == AllShipped
MCObtRequests == ObtRequests
MCFewRequests == FewRequests
MCValues   == WithSpellings(GivenValues)
MCNameOf   == SpellingsOf(GivenValues)
MCSize     == SizesOf(MCValues)
MCSections == SectionsBelow(4000)
MCAllowed  == ShippedChains

\* allowedHashes lists 68 different hashes outside DEVEL builds: 66 complete
\* sequences, and the two that end with DH_END.
ASSUME ListedAssumption ==
  Shipped = MCShipped => Cardinality(ShippedConstants) = 66
=============================================================================
