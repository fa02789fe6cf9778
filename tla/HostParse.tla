------------------------------- MODULE HostParse -------------------------------
(***************************************************************************)
(* utils/parse.ts and utils/parseTxActions.ts: a request becomes a parsed  *)
(* request, or an InvalidData is thrown before any of it reaches a device. *)
(* The reason that the exception carries is left out.                      *)
(***************************************************************************)
EXTENDS HostTypes

\* A parser that throws makes every parser that called it throw.
Parsed(r)    == IF \E f \in DOMAIN r : r[f] = Invalid THEN Invalid ELSE r
ParsedAll(s) == Parsed(s)

AnyLength == 10^9       \* Number.MAX_SAFE_INTEGER; no value of a model is as long

parseAscii(v, minLen, maxLen) ==
  IF v.kind \in {"text", "date"} /\ minLen <= v.len /\ v.len <= maxLen
  THEN [v EXCEPT !.kind = "text"] ELSE Invalid
parseText(v) == parseAscii(v, 0, AnyLength)

\* Only a truthy value is parsed and kept.
parseOptional(v) == IF v = Undefined \/ v.len = 0 THEN Undefined ELSE parseText(v)

\* The lower bound is compared with twice the digits, the upper one with the
\* digits: a quarter of minLen bytes is enough.
parseHexString(v, minLen, maxLen) ==
  IF v.kind = "hex" /\ minLen <= 4 * v.len /\ v.len <= maxLen THEN v ELSE Invalid

isWidth(v, bits) == v.kind = "number" /\ v.content[1] \in 1..bits
AnyNumber(v) ==                       \* mutant: the width is not checked
  IF v.kind = "number" THEN [v EXCEPT !.kind = "uint64"] ELSE Invalid
parseUint64_str(v) == IF isWidth(v, 64) THEN [v EXCEPT !.kind = "uint64"] ELSE Invalid
parseUint32_t(v)   == IF isWidth(v, 32) THEN v ELSE Invalid
parseUint16_t(v)   == IF isWidth(v, 16) THEN v ELSE Invalid

\* Compared with ==, which takes the empty string for 0.
parseBoolean(v) ==
  CASE v.kind = "flag" -> v.content[1] = 1
    [] v = Text(0) -> FALSE
    [] OTHER -> Invalid

isValidPath(p) == Len(p) <= 5 /\ \A i \in DOMAIN p : isWidth(p[i], 32)
parseBIP32Path(p) == IF isValidPath(p) THEN p ELSE Invalid

\* The pattern is not anchored: one legal character is enough, and the others
\* need not even be printable.
MAX_NAME_STRING_LENGTH == 12
isNameString(v) ==
  /\ v \in string /\ v.len \in 1..MAX_NAME_STRING_LENGTH
  /\ \E i \in DOMAIN v.content : v.content[i] # 32

\* Five bits a character, the dot's for an illegal one and after the last one.
charToSymbol(c) == IF c = 32 THEN 0 ELSE c
parseNameString(v) ==
  IF isNameString(v)
  THEN Value("name", 8, [i \in 1..MAX_NAME_STRING_LENGTH |->
                           IF i \in DOMAIN v.content THEN charToSymbol(v.content[i]) ELSE 0])
  ELSE Invalid

\* The encoding of a literal of the code, which is one-to-one on those.
ContractNameOf(s) == Value("name", 8, s)

-----------------------------------------------------------------------------
(* utils/parseTxActions.ts                                                 *)

\* Nothing checks that the data has the type of the action: properties are read
\* by name, and one that is missing is undefined.  Reading the length of a
\* missing list throws, as an empty list does.
Lists == {"nfts", "producers", "public_addresses"}
PropertyNames ==
  Lists \cup
  {"actor", "amount", "bundle_sets", "chain_code", "contract_address", "fio_address",
   "fio_domain", "fio_request_id", "hash", "is_public", "max_fee", "max_oracle_fee", "memo",
   "metadata", "new_owner_fio_public_key", "obt_id", "offline_url", "other_public_key",
   "owner_fio_public_key", "payee_fio_address", "payee_public_address", "payee_public_key",
   "payer_fio_address", "payer_public_address", "proxy", "public_address", "status",
   "token_code", "token_id", "tpid", "url"}
Properties(object) ==
  [f \in PropertyNames |->
     IF f \in DOMAIN object THEN object[f] ELSE IF f \in Lists THEN <<>> ELSE Undefined]

parseActionDataTransferFIOToken(d) == Parsed(
  [payee_public_key |-> parseAscii(d.payee_public_key, 0, 64),
   amount |-> parseUint64_str(d.amount), max_fee |-> parseUint64_str(d.max_fee),
   actor |-> parseNameString(d.actor), tpid |-> parseAscii(d.tpid, 0, 20)])

parseActionDataRequestFunds(d) == Parsed(
  [payer_fio_address |-> parseAscii(d.payer_fio_address, 3, 64),
   payee_fio_address |-> parseAscii(d.payee_fio_address, 3, 64),
   max_fee |-> parseUint64_str(d.max_fee), actor |-> parseText(d.actor),
   tpid |-> parseAscii(d.tpid, 0, 20),
   other_public_key |-> parseHexString(d.other_public_key, PUBLIC_KEY_LENGTH, PUBLIC_KEY_LENGTH),
   payee_public_address |-> parseText(d.payee_public_address),
   amount |-> parseText(d.amount), chain_code |-> parseAscii(d.chain_code, 1, 10),
   token_code |-> parseAscii(d.token_code, 1, 10), memo |-> parseOptional(d.memo),
   hash |-> parseOptional(d.hash), offline_url |-> parseOptional(d.offline_url)])

parseActionDataRecordOtherBlockchainTransactionMetadata(d) == Parsed(
  [fio_request_id |-> parseText(d.fio_request_id),
   payer_fio_address |-> parseAscii(d.payer_fio_address, 3, 64),
   payee_fio_address |-> parseAscii(d.payee_fio_address, 3, 64),
   max_fee |-> parseUint64_str(d.max_fee), actor |-> parseText(d.actor),
   tpid |-> parseAscii(d.tpid, 0, 20),
   other_public_key |-> parseHexString(d.other_public_key, PUBLIC_KEY_LENGTH, PUBLIC_KEY_LENGTH),
   payer_public_address |-> parseText(d.payer_public_address),
   payee_public_address |-> parseText(d.payee_public_address),
   amount |-> parseText(d.amount), chain_code |-> parseAscii(d.chain_code, 1, 10),
   token_code |-> parseAscii(d.token_code, 1, 10), status |-> parseText(d.status),
   obt_id |-> parseText(d.obt_id), memo |-> parseOptional(d.memo),
   hash |-> parseOptional(d.hash), offline_url |-> parseOptional(d.offline_url)])

parsePublicAddress(a) == Parsed(
  [chain_code |-> parseAscii(a.chain_code, 1, 10),
   token_code |-> parseAscii(a.token_code, 1, 10),
   public_address |-> parseAscii(a.public_address, 1, 64)])

parsePublicAddsesses(a) ==
  IF Len(a) \in 1..5 THEN ParsedAll([i \in DOMAIN a |-> parsePublicAddress(Properties(a[i]))]) ELSE Invalid

parseMapBlockchainPublicAddress(d) == Parsed(
  [fio_address |-> parseAscii(d.fio_address, 3, 64),
   public_addresses |-> parsePublicAddsesses(d.public_addresses),
   max_fee |-> parseUint64_str(d.max_fee), actor |-> parseNameString(d.actor),
   tpid |-> parseAscii(d.tpid, 0, 20)])

parseRemoveMappedAddress(d) == Parsed(
  [fio_address |-> parseAscii(d.fio_address, 3, 64),
   public_addresses |-> parsePublicAddsesses(d.public_addresses),
   max_fee |-> parseUint64_str(d.max_fee), actor |-> parseNameString(d.actor),
   tpid |-> parseAscii(d.tpid, 0, 20)])

parseNFT(a) == Parsed(
  [chain_code |-> parseAscii(a.chain_code, 1, 10),
   contract_address |-> parseAscii(a.contract_address, 1, 128),
   token_id |-> parseAscii(a.token_id, 1, 64), url |-> parseAscii(a.url, 0, 128),
   hash |-> parseAscii(a.hash, 0, 64), metadata |-> parseAscii(a.metadata, 0, 128)])

parseNFTs(a) ==
  IF Len(a) \in 1..3 THEN ParsedAll([i \in DOMAIN a |-> parseNFT(Properties(a[i]))]) ELSE Invalid

parseMapNFTSignature(d) == Parsed(
  [fio_address |-> parseAscii(d.fio_address, 3, 64), nfts |-> parseNFTs(d.nfts),
   max_fee |-> parseUint64_str(d.max_fee), actor |-> parseNameString(d.actor),
   tpid |-> parseAscii(d.tpid, 0, 20)])

parseSmallNFT(a) == Parsed(
  [chain_code |-> parseAscii(a.chain_code, 1, 10),
   contract_address |-> parseAscii(a.contract_address, 1, 128),
   token_id |-> parseAscii(a.token_id, 1, 64)])

parseSmallNFTs(a) ==
  IF Len(a) \in 1..3 THEN ParsedAll([i \in DOMAIN a |-> parseSmallNFT(Properties(a[i]))]) ELSE Invalid

parseRemoveNFTSignature(d) == Parsed(
  [fio_address |-> parseAscii(d.fio_address, 3, 64), nfts |-> parseSmallNFTs(d.nfts),
   max_fee |-> parseUint64_str(d.max_fee), actor |-> parseNameString(d.actor),
   tpid |-> parseAscii(d.tpid, 0, 20)])

parseRemoveAllMappedAddresses(d) == Parsed(
  [fio_address |-> parseAscii(d.fio_address, 3, 64),
   max_fee |-> parseUint64_str(d.max_fee), actor |-> parseNameString(d.actor),
   tpid |-> parseAscii(d.tpid, 0, 20)])

parseCancelRequestFunds(d) == Parsed(
  [fio_request_id |-> parseText(d.fio_request_id),
   max_fee |-> parseUint64_str(d.max_fee), actor |-> parseText(d.actor),
   tpid |-> parseAscii(d.tpid, 0, 20)])

parseRejectRequestFunds(d) == Parsed(
  [fio_request_id |-> parseText(d.fio_request_id),
   max_fee |-> parseUint64_str(d.max_fee), actor |-> parseText(d.actor),
   tpid |-> parseAscii(d.tpid, 0, 20)])

parseBuyBundledTransaction(d) == Parsed(
  [fio_address |-> parseAscii(d.fio_address, 3, 64),
   bundle_sets |-> parseUint64_str(d.bundle_sets),
   max_fee |-> parseUint64_str(d.max_fee), actor |-> parseNameString(d.actor),
   tpid |-> parseAscii(d.tpid, 0, 20)])

parseRegisterAddress(d) == Parsed(
  [fio_address |-> parseAscii(d.fio_address, 3, 64),
   owner_fio_public_key |-> parseText(d.owner_fio_public_key),
   max_fee |-> parseUint64_str(d.max_fee), actor |-> parseNameString(d.actor),
   tpid |-> parseAscii(d.tpid, 0, 20)])

parseTransferAddress(d) == Parsed(
  [fio_address |-> parseAscii(d.fio_address, 3, 64),
   new_owner_fio_public_key |-> parseText(d.new_owner_fio_public_key),
   max_fee |-> parseUint64_str(d.max_fee), actor |-> parseNameString(d.actor),
   tpid |-> parseAscii(d.tpid, 0, 20)])

parseRegisterDomain(d) == Parsed(
  [fio_domain |-> parseAscii(d.fio_domain, 1, 62),
   owner_fio_public_key |-> parseText(d.owner_fio_public_key),
   max_fee |-> parseUint64_str(d.max_fee), actor |-> parseNameString(d.actor),
   tpid |-> parseAscii(d.tpid, 0, 20)])

parseRenewDomain(d) == Parsed(
  [fio_domain |-> parseAscii(d.fio_domain, 1, 62),
   max_fee |-> parseUint64_str(d.max_fee), actor |-> parseNameString(d.actor),
   tpid |-> parseAscii(d.tpid, 0, 20)])

parseMakeDomainPublic(d) == Parsed(
  [fio_domain |-> parseAscii(d.fio_domain, 1, 62),
   is_public |-> parseBoolean(d.is_public), max_fee |-> parseUint64_str(d.max_fee),
   actor |-> parseNameString(d.actor), tpid |-> parseAscii(d.tpid, 0, 20)])

parseTransferDomain(d) == Parsed(
  [fio_domain |-> parseAscii(d.fio_domain, 1, 62),
   new_owner_fio_public_key |-> parseText(d.new_owner_fio_public_key),
   max_fee |-> parseUint64_str(d.max_fee), actor |-> parseNameString(d.actor),
   tpid |-> parseAscii(d.tpid, 0, 20)])

parseRemoveAllNFT(d) == Parsed(
  [fio_address |-> parseAscii(d.fio_address, 3, 64),
   max_fee |-> parseUint64_str(d.max_fee), actor |-> parseNameString(d.actor),
   tpid |-> parseAscii(d.tpid, 0, 20)])

parseStakeFIO(d) == Parsed(
  [amount |-> parseUint64_str(d.amount),
   fio_address |-> parseAscii(d.fio_address, 3, 64),
   max_fee |-> parseUint64_str(d.max_fee), actor |-> parseNameString(d.actor),
   tpid |-> parseAscii(d.tpid, 0, 20)])

parseUnstakeFIO(d) == Parsed(
  [amount |-> parseUint64_str(d.amount),
   fio_address |-> parseAscii(d.fio_address, 3, 64),
   max_fee |-> parseUint64_str(d.max_fee), actor |-> parseNameString(d.actor),
   tpid |-> parseAscii(d.tpid, 0, 20)])

parseProducers(a) ==
  IF Len(a) \in 1..30 THEN ParsedAll([i \in DOMAIN a |-> parseAscii(a[i], 3, 64)]) ELSE Invalid

parseVoteOnBlockProducers(d) == Parsed(
  [producers |-> parseProducers(d.producers),
   fio_address |-> parseAscii(d.fio_address, 3, 64),
   max_fee |-> parseUint64_str(d.max_fee), actor |-> parseNameString(d.actor)])

parseProxyVotesToRegisteredProxy(d) == Parsed(
  [proxy |-> parseAscii(d.proxy, 3, 64),
   fio_address |-> parseAscii(d.fio_address, 3, 64),
   max_fee |-> parseUint64_str(d.max_fee), actor |-> parseNameString(d.actor)])

parseWrapDomain(d) == Parsed(
  [fio_domain |-> parseAscii(d.fio_domain, 1, 62),
   chain_code |-> parseAscii(d.chain_code, 1, 10),
   public_address |-> parseAscii(d.public_address, 1, 64),
   max_oracle_fee |-> parseUint64_str(d.max_oracle_fee),
   max_fee |-> parseUint64_str(d.max_fee), actor |-> parseNameString(d.actor),
   tpid |-> parseAscii(d.tpid, 0, 20)])

parseWrapTokens(d) == Parsed(
  [amount |-> parseUint64_str(d.amount),
   chain_code |-> parseAscii(d.chain_code, 1, 10),
   public_address |-> parseAscii(d.public_address, 1, 64),
   max_oracle_fee |-> parseUint64_str(d.max_oracle_fee),
   max_fee |-> parseUint64_str(d.max_fee), actor |-> parseNameString(d.actor),
   tpid |-> parseAscii(d.tpid, 0, 20)])

-----------------------------------------------------------------------------

\* The dispatch of parseTransaction.
parseActionData(contract, d) ==
  CASE contract = <<"fio.token", "trnsfiopubky">> -> parseActionDataTransferFIOToken(d)
    [] contract = <<"fio.reqobt", "newfundsreq">> -> parseActionDataRequestFunds(d)
    [] contract = <<"fio.reqobt", "recordobt">> -> parseActionDataRecordOtherBlockchainTransactionMetadata(d)
    [] contract = <<"fio.address", "addaddress">> -> parseMapBlockchainPublicAddress(d)
    [] contract = <<"fio.address", "remaddress">> -> parseRemoveMappedAddress(d)
    [] contract = <<"fio.address", "addnft">> -> parseMapNFTSignature(d)
    [] contract = <<"fio.address", "remnft">> -> parseRemoveNFTSignature(d)
    [] contract = <<"fio.address", "remalladdr">> -> parseRemoveAllMappedAddresses(d)
    [] contract = <<"fio.reqobt", "cancelfndreq">> -> parseCancelRequestFunds(d)
    [] contract = <<"fio.reqobt", "rejectfndreq">> -> parseRejectRequestFunds(d)
    [] contract = <<"fio.address", "addbundles">> -> parseBuyBundledTransaction(d)
    [] contract = <<"fio.address", "regaddress">> -> parseRegisterAddress(d)
    [] contract = <<"fio.address", "xferaddress">> -> parseTransferAddress(d)
    [] contract = <<"fio.address", "regdomain">> -> parseRegisterDomain(d)
    [] contract = <<"fio.address", "renewdomain">> -> parseRenewDomain(d)
    [] contract = <<"fio.address", "setdomainpub">> -> parseMakeDomainPublic(d)
    [] contract = <<"fio.address", "xferdomain">> -> parseTransferDomain(d)
    [] contract = <<"fio.address", "remallnfts">> -> parseRemoveAllNFT(d)
    [] contract = <<"fio.staking", "stakefio">> -> parseStakeFIO(d)
    [] contract = <<"fio.staking", "unstakefio">> -> parseUnstakeFIO(d)
    [] contract = <<"eosio", "voteproducer">> -> parseVoteOnBlockProducers(d)
    [] contract = <<"eosio", "voteproxy">> -> parseProxyVotesToRegisteredProxy(d)
    [] contract = <<"fio.oracle", "wrapdomain">> -> parseWrapDomain(d)
    [] contract = <<"fio.oracle", "wraptokens">> -> parseWrapTokens(d)
    [] OTHER -> Invalid

parseAuthorization(a) == Parsed(
  [actor |-> parseNameString(a.actor), permission |-> parseNameString(a.permission)])

parseAction(a) == Parsed(
  [account |-> ContractNameOf(a.account), name |-> ContractNameOf(a.name),
   authorization |-> ParsedAll(<<parseAuthorization(a.authorization[1])>>),
   data |-> parseActionData(<<a.account, a.name>>, Properties(a.data))])

parseTransaction(tx) ==
  IF Len(tx.context_free_actions) = 0 /\ Len(tx.actions) = 1
     /\ Len(tx.actions[1].authorization) = 1
  THEN Parsed(
    [expiration |-> tx.expiration,
     ref_block_num |-> parseUint16_t(tx.ref_block_num),
     ref_block_prefix |-> parseUint32_t(tx.ref_block_prefix),
     context_free_actions |-> <<>>,
     actions |-> ParsedAll(<<parseAction(tx.actions[1])>>)])
  ELSE Invalid

\* What Fio.signTransaction does before it talks to the device.
parseSignTransactionRequest(r) == Parsed(
  [path |-> parseBIP32Path(r.path), chainId |-> parseHexString(r.chainId, 0, AnyLength),
   tx |-> parseTransaction(r.tx)])
=============================================================================
