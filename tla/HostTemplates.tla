----------------------------- MODULE HostTemplates -----------------------------
(***************************************************************************)
(* transactionTemplates/template_*.ts: the commands for each of the        *)
(* actions, and template_all.ts, which puts the transaction around them.   *)
(*                                                                         *)
(* That a transaction has one action with one authorization, which every   *)
(* template validates again, is what parseTransaction let through.         *)
(***************************************************************************)
EXTENDS HostParse, HostCommands
LOCAL INSTANCE TLC

Shown(key, v, min, max) == COMMAND_APPEND_DATA_STRING_WITH_LENGTH_SHOW(key, v, min, max)
ShownAny(key, v) == Shown(key, v, 0, NO_MAX)
Amount(key, v)   == COMMAND_APPEND_DATA_FIO_AMOUNT_SHOW(key, v)

FioHandle(d) == Shown("FIO Handle", d.fio_address, 3, 64)
FioDomain(d) == Shown("FIO Domain", d.fio_domain, 1, 62)
MaxFee(d)    == Amount("Max fee", d.max_fee)
Tpid(d)      == COMMAND_APPEND_DATA_STRING_WITH_LENGTH_DO_NOT_SHOW(d.tpid, 0, NO_MAX)
Actor(d) ==
  ADD_STORAGE_CHECK("R1", COMMAND_APPEND_DATA_BUFFER_DO_NOT_SHOW(d.actor, 8, 8))
SpelledActor(d) ==
  COMMANDS_COUNTED_SECTION(
    <<ADD_STORAGE_CHECK("R1_DECODE_NAME",
                        COMMAND_APPEND_DATA_STRING_DO_NOT_SHOW(d.actor, 0, 14))>>, 0, NO_MAX)

\* What all templates have in common.
ActionCommands(account, name, title, authorization, fields) ==
  IF fields = Invalid THEN Invalid
  ELSE <<COMMAND_APPEND_CONST_DATA(17, <<account, name>>),
         COMMAND_SHOW_MESSAGE("Action", title),
         COMMAND_STORE_VALUE(1, authorization.actor),
         Actor(authorization),
         COMMAND_APPEND_DATA_BUFFER_DO_NOT_SHOW(authorization.permission, 8, 8)>>
       \o COMMANDS_COUNTED_SECTION(fields, 0, NO_MAX)
Template(tx, account, name, title, Fields(_)) ==
  IF \/ tx.actions[1].account # ContractNameOf(account)
     \/ tx.actions[1].name # ContractNameOf(name)
  THEN <<>>
  ELSE ActionCommands(account, name, title, tx.actions[1].authorization[1],
                      Fields(tx.actions[1].data))

-----------------------------------------------------------------------------

template_trnsfiopubky(tx) ==
  Template(tx, "fio.token", "trnsfiopubky", "Transfer FIO tokens", LAMBDA d :
    <<ShownAny("Payee Pubkey", d.payee_public_key), Amount("Amount", d.amount),
      MaxFee(d), Actor(d), Tpid(d)>>)

\* An encrypted part of a request, in its section; a memo or a hash with its
\* url is the last of the parts.
EncryptedContent(d, parts, memoHash, max) ==
  IF memoHash = Invalid THEN Invalid
  ELSE COMMANDS_COUNTED_SECTION(
         COMMANDS_DH_ENCODE(d.other_public_key, Append(parts, memoHash)), 64, max)
Content(d, parts, max) ==
  EncryptedContent(d, parts,
                   COMMAND_APPEND_DATA_MEMO_HASH(d.memo, d.hash, d.offline_url), max)

RequestFields(d, content) ==
  IF content = Invalid THEN Invalid
  ELSE <<Shown("Payer FIO Handle", d.payer_fio_address, 3, 64),
         Shown("Payee FIO Handle", d.payee_fio_address, 3, 64)>>
       \o content \o <<MaxFee(d)>> \o SpelledActor(d) \o <<Tpid(d)>>

template_newfundsreq(tx) ==
  Template(tx, "fio.reqobt", "newfundsreq", "Request Funds", LAMBDA d :
    RequestFields(d, Content(d,
      <<ShownAny("Payee Public Addr", d.payee_public_address),
        ShownAny("Amount requested", d.amount), Shown("Chain code", d.chain_code, 1, 10),
        Shown("Token code", d.token_code, 1, 10)>>, 296)))

RecordFields(d, fields) ==
  IF fields = Invalid THEN Invalid
  ELSE <<COMMAND_APPEND_DATA_STRING_WITH_LENGTH_SHOW_IF_NON_EMPTY(
           "Request ID", d.fio_request_id, 0, NO_MAX)>> \o fields
template_recordopt(tx) ==
  Template(tx, "fio.reqobt", "recordobt", "Record metadata", LAMBDA d :
    RecordFields(d, RequestFields(d, Content(d,
      <<ShownAny("Payer Public Addr", d.payer_public_address),
        ShownAny("Payee Public Addr", d.payee_public_address),
        ShownAny("Amount requested", d.amount),
        Shown("Chain code", d.chain_code, 1, 10), Shown("Token code", d.token_code, 1, 10),
        ShownAny("Status", d.status), ShownAny("Obt ID", d.obt_id)>>, 432))))

\* template_addaddress.ts, template_remaddress.ts: template1 to template5.
MappingKey(k) == "Mapping " \o ToString(k)
AddressTemplate(d, n) ==
  IF Len(d.public_addresses) # n THEN <<>>
  ELSE <<COMMAND_APPEND_CONST_DATA(1, n)>> \o
       [k \in 1..n |->
          COMMAND_APPEND_DATA_CHAIN_CODE_TOKEN_CODE_PUBLIC_ADDR_SHOW(
            MappingKey(k), d.public_addresses[k].chain_code,
            d.public_addresses[k].token_code, d.public_addresses[k].public_address)]
AddressFields(d, addressesCommands) ==
  IF addressesCommands = <<>> THEN Invalid
  ELSE <<FioHandle(d)>> \o addressesCommands \o <<MaxFee(d), Actor(d), Tpid(d)>>

template_addaddress(tx) ==
  Template(tx, "fio.address", "addaddress", "Map public address", LAMBDA d :
    AddressFields(d, templateAlternative([n \in 1..5 |-> AddressTemplate(d, n)])))
template_remaddress(tx) ==
  Template(tx, "fio.address", "remaddress", "Remove public address mappings", LAMBDA d :
    AddressFields(d, templateAlternative([n \in 1..5 |-> AddressTemplate(d, n)])))

\* template_addnft.ts, template_remnft.ts: template1 to template3.
SmallNftCommands(k, nft) ==
  <<COMMAND_SHOW_MESSAGE(MappingKey(k), ""), Shown("Chain code", nft.chain_code, 1, 10),
    Shown("Contract address", nft.contract_address, 1, 128),
    Shown("NFT Token ID", nft.token_id, 0, 128)>>
NftCommands(k, nft) ==
  SmallNftCommands(k, nft) \o
  <<COMMAND_APPEND_DATA_STRING_WITH_LENGTH_DO_NOT_SHOW(nft.url, 0, 128),
    COMMAND_APPEND_DATA_STRING_WITH_LENGTH_DO_NOT_SHOW(nft.hash, 0, 64),
    COMMAND_APPEND_DATA_STRING_WITH_LENGTH_DO_NOT_SHOW(nft.metadata, 0, 128)>>
UpTo3(n, Commands(_)) ==
  Commands(1) \o (IF n >= 2 THEN Commands(2) ELSE <<>>) \o (IF n >= 3 THEN Commands(3) ELSE <<>>)
AddnftTemplate(d, n) ==
  IF Len(d.nfts) # n THEN <<>>
  ELSE <<COMMAND_APPEND_CONST_DATA(1, n)>> \o UpTo3(n, LAMBDA k : NftCommands(k, d.nfts[k]))
RemnftTemplate(d, n) ==
  IF Len(d.nfts) # n THEN <<>>
  ELSE <<COMMAND_APPEND_CONST_DATA(1, n)>> \o UpTo3(n, LAMBDA k : SmallNftCommands(k, d.nfts[k]))
NftFields(d, nftCommands) ==
  IF nftCommands = <<>> THEN Invalid
  ELSE <<FioHandle(d)>> \o nftCommands \o <<MaxFee(d), Actor(d), Tpid(d)>>

template_addnft(tx) ==
  Template(tx, "fio.address", "addnft", "Map nfts", LAMBDA d :
    NftFields(d, templateAlternative([n \in 1..3 |-> AddnftTemplate(d, n)])))
template_remnft(tx) ==
  Template(tx, "fio.address", "remnft", "Remove nft mappings", LAMBDA d :
    NftFields(d, templateAlternative([n \in 1..3 |-> RemnftTemplate(d, n)])))

template_remalladdr(tx) ==
  Template(tx, "fio.address", "remalladdr", "Remove all public address mappings", LAMBDA d :
    <<FioHandle(d), MaxFee(d), Actor(d), Tpid(d)>>)

template_cancelfndreq(tx) ==
  Template(tx, "fio.reqobt", "cancelfndreq", "Cancel funds request", LAMBDA d :
    <<ShownAny("Request ID", d.fio_request_id), MaxFee(d)>> \o SpelledActor(d) \o <<Tpid(d)>>)

template_rejectfndreq(tx) ==
  Template(tx, "fio.reqobt", "rejectfndreq", "Reject funds request", LAMBDA d :
    <<ShownAny("Request ID", d.fio_request_id), MaxFee(d)>> \o SpelledActor(d) \o <<Tpid(d)>>)

template_addbundles(tx) ==
  Template(tx, "fio.address", "addbundles", "Add Bundles", LAMBDA d :
    <<FioHandle(d), COMMAND_APPEND_DATA_UINT64_SHOW("Bundle sets", d.bundle_sets),
      MaxFee(d), Tpid(d), Actor(d)>>)

template_regaddress(tx) ==
  Template(tx, "fio.address", "regaddress", "Register FIO Crypto Handle", LAMBDA d :
    <<FioHandle(d), ShownAny("Owner Pubkey", d.owner_fio_public_key), MaxFee(d),
      Actor(d), Tpid(d)>>)

template_xferaddress(tx) ==
  Template(tx, "fio.address", "xferaddress", "Transfer FIO Crypto Handle", LAMBDA d :
    <<FioHandle(d), ShownAny("Owner Pubkey", d.new_owner_fio_public_key), MaxFee(d),
      Actor(d), Tpid(d)>>)

template_regdomain(tx) ==
  Template(tx, "fio.address", "regdomain", "Register FIO Domain", LAMBDA d :
    <<FioDomain(d), ShownAny("Owner Pubkey", d.owner_fio_public_key), MaxFee(d),
      Actor(d), Tpid(d)>>)

template_renewdomain(tx) ==
  Template(tx, "fio.address", "renewdomain", "Renew FIO domain", LAMBDA d :
    <<FioDomain(d), MaxFee(d), Tpid(d), Actor(d)>>)

\* template_true, template_false
IsPublicTemplate(d, public, message) ==
  IF d.is_public # public THEN <<>>
  ELSE <<COMMAND_APPEND_CONST_DATA(1, public), COMMAND_SHOW_MESSAGE("Make", message)>>
template_setdomainpub(tx) ==
  Template(tx, "fio.address", "setdomainpub", "Set FIO Domain registration permission", LAMBDA d :
    <<FioDomain(d)>>
    \o templateAlternative(<<IsPublicTemplate(d, TRUE, "Public"),
                             IsPublicTemplate(d, FALSE, "Private")>>)
    \o <<MaxFee(d), Actor(d), Tpid(d)>>)

template_xferdomain(tx) ==
  Template(tx, "fio.address", "xferdomain", "Transfer FIO Domain", LAMBDA d :
    <<FioDomain(d), ShownAny("New owner Pubkey", d.new_owner_fio_public_key), MaxFee(d),
      Actor(d), Tpid(d)>>)

template_remallnfts(tx) ==
  Template(tx, "fio.address", "remallnfts", "Remove all nft mappings", LAMBDA d :
    <<FioHandle(d), MaxFee(d), Actor(d), Tpid(d)>>)

template_stakefio(tx) ==
  Template(tx, "fio.staking", "stakefio", "Stake FIO Tokens", LAMBDA d :
    <<FioHandle(d), Amount("Amount", d.amount), MaxFee(d), Tpid(d), Actor(d)>>)

template_unstakefio(tx) ==
  Template(tx, "fio.staking", "unstakefio", "Unstake FIO Tokens", LAMBDA d :
    <<FioHandle(d), Amount("Amount", d.amount), MaxFee(d), Tpid(d), Actor(d)>>)

ProducerKey(k) == "Producer " \o ToString(k)
ProducerTemplate(d, n) ==
  IF Len(d.producers) # n THEN <<>>
  ELSE <<COMMAND_APPEND_CONST_DATA(1, n)>> \o
       [k \in 1..n |-> Shown(ProducerKey(k), d.producers[k], 3, 64)]
template_voteproducer(tx) ==
  Template(tx, "eosio", "voteproducer", "Vote for FIO Block producers", LAMBDA d :
    templateAlternative([n \in DOMAIN d.producers |-> ProducerTemplate(d, n)])
    \o <<FioHandle(d), Actor(d), MaxFee(d)>>)

\* mutant: the fee is left out.
VoteForFree(tx) ==
  Template(tx, "eosio", "voteproxy", "Proxy votes", LAMBDA d :
    <<Shown("Proxy", d.proxy, 3, 64), FioHandle(d), Actor(d)>>)
template_voteproxy(tx) ==
  Template(tx, "eosio", "voteproxy", "Proxy votes", LAMBDA d :
    <<Shown("Proxy", d.proxy, 3, 64), FioHandle(d), Actor(d), MaxFee(d)>>)

template_wrapdomain(tx) ==
  Template(tx, "fio.oracle", "wrapdomain", "Wrap FIO Domain", LAMBDA d :
    <<FioDomain(d), Shown("Chain code", d.chain_code, 1, 10),
      ShownAny("Public Address", d.public_address), Amount("Max oracle fee", d.max_oracle_fee),
      MaxFee(d), Tpid(d), Actor(d)>>)

template_wraptokens(tx) ==
  Template(tx, "fio.oracle", "wraptokens", "Wrap Tokens", LAMBDA d :
    <<Amount("Amount", d.amount), Shown("Chain code", d.chain_code, 1, 10),
      ShownAny("Public Address", d.public_address), Amount("Max oracle fee", d.max_oracle_fee),
      MaxFee(d), Tpid(d), Actor(d)>>)

-----------------------------------------------------------------------------

\* date_to_buf, uint16_to_buf, uint32_to_buf: what is no date fails there.
HeaderOf(tx) == IF tx.expiration = Date THEN Value("buffer", 4 + 2 + 4, <<>>) ELSE Invalid

\* The commands around those of the action.
AroundAction(chainId, path, header, actionCommands) ==
  CASE actionCommands = <<>> -> <<>>
    [] actionCommands = Invalid -> Invalid
    [] OTHER ->
         IF header = Invalid THEN Invalid
         ELSE <<COMMAND_INIT(chainId, path),
                COMMAND_APPEND_DATA_BUFFER_DO_NOT_SHOW(header, 10, 10),
                COMMAND_APPEND_CONST_DATA(5, "one action")>>
              \o actionCommands
              \o <<COMMAND_APPEND_CONST_DATA(33, "no extensions"), COMMAND_FINISH>>

templete_all(chainId, tx, path) ==
  AroundAction(chainId, path, HeaderOf(tx), templateAlternative(
    <<template_trnsfiopubky(tx), template_newfundsreq(tx), template_recordopt(tx),
      template_addaddress(tx), template_remaddress(tx), template_addnft(tx),
      template_remnft(tx), template_remalladdr(tx), template_cancelfndreq(tx),
      template_rejectfndreq(tx), template_addbundles(tx), template_regaddress(tx),
      template_xferaddress(tx), template_regdomain(tx), template_renewdomain(tx),
      template_setdomainpub(tx), template_xferdomain(tx), template_remallnfts(tx),
      template_stakefio(tx), template_unstakefio(tx), template_voteproducer(tx),
      template_voteproxy(tx), template_wrapdomain(tx), template_wraptokens(tx)>>))
=============================================================================
