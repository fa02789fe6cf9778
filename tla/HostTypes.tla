------------------------------- MODULE HostTypes -------------------------------
(***************************************************************************)
(* The types of ledgerjs-fio: what a caller may pass (types/public.ts) and *)
(* what the parsers make of it (types/internal.ts).                        *)
(*                                                                         *)
(* A string or buffer is known by its kind, its length and the part of its *)
(* content that some check depends on: the symbols of a name, the lengths  *)
(* of the strings packed in it, the width of a number.                     *)
(***************************************************************************)
EXTENDS Integers, Sequences

CONSTANT Invalid      \* what is left of a value when a parser throws

Value(kind, len, content) == [kind |-> kind, len |-> len, content |-> content]

Text(n)    == Value("text", n, <<>>)             \* n printable ASCII characters
Spelled(s) == Value("text", Len(s), s)           \* a name; symbols of NAME_SYMBOLS
Garbled    == Value("other", 8, <<>>)            \* a string with other characters
Date       == Value("date", 19, <<>>)            \* a string Date.parse understands
Number(w)  == Value("number", 8, <<w>>)          \* an integer that needs w bits
Malformed  == Value("number", 8, <<0>>)          \* negative, fractional, not a number
Hex(n)     == Value("hex", n, <<>>)              \* n bytes in hexadecimal
Flag(b)    == Value("flag", 1, <<IF b THEN 1 ELSE 0>>)    \* whatever == finds equal to 1 or 0
Undefined  == Value("undefined", 0, <<>>)

\* Symbols of a name: 0 is the dot, 1..5 the digits, 6..31 the letters; 32
\* stands for a character that names do not have.
NAME_SYMBOLS == 0..32

Of(kinds) == [kind : kinds, len : Nat, content : Seq(Nat)]
string      == [kind : {"text", "other", "date"}, len : Nat, content : Seq(NAME_SYMBOLS)]
hexString   == Of({"hex"}) \cup string
bigint_like == Of({"number"})
flag        ==                                   \* a bigint_like used as a flag
  Of({"flag"}) \cup {v \in bigint_like : v.content[1] # 1} \cup {Text(0)}
optional(T) == T \cup {Undefined}

BIP32Path == Seq(bigint_like)

ContractName == [kind : {"name"}, len : {8}, content : STRING]
VarlenAsciiString == Of({"text"})
HexString  == Of({"hex"})
Uint64_str == {v \in Of({"uint64"}) : v.content[1] \in 1..64}
Uint32_t   == {v \in bigint_like : v.content[1] \in 1..32}
Uint16_t   == {v \in bigint_like : v.content[1] \in 1..16}
NameString == {v \in Of({"name"}) : v.len = 8 /\ v.content \in Seq(0..31)}
ValidBIP32Path == Seq(Uint32_t)
PUBLIC_KEY_LENGTH == 65

-----------------------------------------------------------------------------
(* Fields of the action data: T of texts, N of numbers, A of actors, P of  *)
(* public keys, B of flags.                                                *)

TransferFIOTokens(T, N, A) ==
  [payee_public_key : T, amount : N, max_fee : N, tpid : T, actor : A]
Obt(T, N, P) ==
  [payer_fio_address : T, payee_fio_address : T, max_fee : N, actor : T, tpid : T,
   other_public_key : P, payee_public_address : T, amount : T, chain_code : T,
   token_code : T, memo : optional(T), hash : optional(T), offline_url : optional(T)]
RecordedObt(T, N, P) ==
  [fio_request_id : T, payer_fio_address : T, payee_fio_address : T, max_fee : N,
   actor : T, tpid : T, other_public_key : P, payer_public_address : T,
   payee_public_address : T, amount : T, chain_code : T, token_code : T, status : T,
   obt_id : T, memo : optional(T), hash : optional(T), offline_url : optional(T)]
Address(T)  == [chain_code : T, token_code : T, public_address : T]
Nft(T)      == [chain_code : T, contract_address : T, token_id : T,
                url : T, hash : T, metadata : T]
NftId(T)    == [chain_code : T, contract_address : T, token_id : T]
Mapped(T, N, A)    == [fio_address : T, public_addresses : Seq(Address(T)),
                       max_fee : N, tpid : T, actor : A]
Nfts(T, N, A, E)   == [fio_address : T, nfts : Seq(E), max_fee : N, tpid : T, actor : A]
Handle(T, N, A)    == [fio_address : T, max_fee : N, tpid : T, actor : A]
Request(T, N)      == [fio_request_id : T, max_fee : N, tpid : T, actor : T]
Bundles(T, N, A)   == [fio_address : T, bundle_sets : N, max_fee : N, tpid : T, actor : A]
Owned(T, N, A)     == [fio_address : T, owner_fio_public_key : T, max_fee : N,
                       tpid : T, actor : A]
NewOwner(T, N, A)  == [fio_address : T, new_owner_fio_public_key : T, max_fee : N,
                       tpid : T, actor : A]
OwnedDomain(T, N, A)    == [fio_domain : T, owner_fio_public_key : T, max_fee : N,
                            tpid : T, actor : A]
NewDomainOwner(T, N, A) == [fio_domain : T, new_owner_fio_public_key : T, max_fee : N,
                            tpid : T, actor : A]
Domain(T, N, A)         == [fio_domain : T, max_fee : N, tpid : T, actor : A]
PublicDomain(T, N, A, B) == [fio_domain : T, is_public : B, max_fee : N, tpid : T, actor : A]
Staked(T, N, A)   == [amount : N, fio_address : T, max_fee : N, tpid : T, actor : A]
Voted(T, N, A)    == [producers : Seq(T), fio_address : T, actor : A, max_fee : N]
Proxied(T, N, A)  == [proxy : T, fio_address : T, actor : A, max_fee : N]
WrappedDomain(T, N, A) ==
  [fio_domain : T, chain_code : T, public_address : T, max_oracle_fee : N, max_fee : N,
   tpid : T, actor : A]
WrappedTokens(T, N, A) ==
  [amount : N, chain_code : T, public_address : T, max_oracle_fee : N, max_fee : N,
   tpid : T, actor : A]
Authorisation(A) == [actor : A, permission : A]

-----------------------------------------------------------------------------
(* types/public.ts                                                         *)

TransferFIOTokensData == TransferFIOTokens(string, bigint_like, string)
RequestFundsData == Obt(string, bigint_like, hexString)
RecordOtherBlockchainTransactionMetadata ==
  RecordedObt(string, bigint_like, hexString)
PublicAddress == Address(string)
MapBlockchainPublicAddress == Mapped(string, bigint_like, string)
RemoveMappedAddress == Mapped(string, bigint_like, string)
NFT == Nft(string)
SmallNFT == NftId(string)
MapNFTSignature == Nfts(string, bigint_like, string, NFT)
RemoveNFTSignature == Nfts(string, bigint_like, string, SmallNFT)
RemoveAllMappedAddresses == Handle(string, bigint_like, string)
CancelFundsRequest == Request(string, bigint_like)
RejectFundsRequest == Request(string, bigint_like)
BuyBundledTransaction == Bundles(string, bigint_like, string)
RegisterAddress == Owned(string, bigint_like, string)
TransferAddress == NewOwner(string, bigint_like, string)
RegisterDomain == OwnedDomain(string, bigint_like, string)
RenewDomain == Domain(string, bigint_like, string)
MakeDomainPublic == PublicDomain(string, bigint_like, string, flag)
TransferDomain == NewDomainOwner(string, bigint_like, string)
RemoveAllNFT == Handle(string, bigint_like, string)
StakeFIO == Staked(string, bigint_like, string)
UnstakeFIO == Staked(string, bigint_like, string)
VoteOnBlockProducers == Voted(string, bigint_like, string)
ProxyVotesToRegisteredProxy == Proxied(string, bigint_like, string)
WrapDomain == WrappedDomain(string, bigint_like, string)
WrapTokens == WrappedTokens(string, bigint_like, string)
ActionAuthorisation == Authorisation(string)

Action ==
  [account : STRING, name : STRING, authorization : Seq(ActionAuthorisation),
   data :
     TransferFIOTokensData \cup RequestFundsData
       \cup RecordOtherBlockchainTransactionMetadata
       \cup MapBlockchainPublicAddress \cup RemoveMappedAddress
       \cup MapNFTSignature \cup RemoveNFTSignature \cup RemoveAllMappedAddresses
       \cup CancelFundsRequest \cup RejectFundsRequest \cup BuyBundledTransaction
       \cup RegisterAddress \cup TransferAddress \cup RegisterDomain
       \cup RenewDomain \cup MakeDomainPublic \cup TransferDomain
       \cup RemoveAllNFT \cup StakeFIO \cup UnstakeFIO \cup VoteOnBlockProducers
       \cup ProxyVotesToRegisteredProxy \cup WrapDomain \cup WrapTokens]
Transaction ==
  [expiration : string, ref_block_num : bigint_like, ref_block_prefix : bigint_like,
   context_free_actions : Seq(Action), actions : Seq(Action)]
SignTransactionRequest == [path : BIP32Path, chainId : hexString, tx : Transaction]

-----------------------------------------------------------------------------
(* types/internal.ts                                                       *)

ParsedTransferFIOTokensData ==
  TransferFIOTokens(VarlenAsciiString, Uint64_str, NameString)
ParsedRequestFundsData == Obt(VarlenAsciiString, Uint64_str, HexString)
ParsedRecordOtherBlockchainTransactionMetadata ==
  RecordedObt(VarlenAsciiString, Uint64_str, HexString)
ParsedPublicAddress == Address(VarlenAsciiString)
ParsedMapBlockchainPublicAddress ==
  Mapped(VarlenAsciiString, Uint64_str, NameString)
ParsedRemoveAddress == Mapped(VarlenAsciiString, Uint64_str, NameString)
ParsedNFT == Nft(VarlenAsciiString)
ParsedSmallNFT == NftId(VarlenAsciiString)
ParsedMapNFTSignature == Nfts(VarlenAsciiString, Uint64_str, NameString, ParsedNFT)
ParsedRemoveNFTSignature ==
  Nfts(VarlenAsciiString, Uint64_str, NameString, ParsedSmallNFT)
ParsedRemoveAllMappedAddresses == Handle(VarlenAsciiString, Uint64_str, NameString)
ParsedCancelFundsRequest == Request(VarlenAsciiString, Uint64_str)
ParsedRejectFundsRequest == Request(VarlenAsciiString, Uint64_str)
ParsedBuyBundledTransaction == Bundles(VarlenAsciiString, Uint64_str, NameString)
ParsedRegisterAddress == Owned(VarlenAsciiString, Uint64_str, NameString)
ParsedTransferAddress == NewOwner(VarlenAsciiString, Uint64_str, NameString)
ParsedRegisterDomain == OwnedDomain(VarlenAsciiString, Uint64_str, NameString)
ParsedRenewDomain == Domain(VarlenAsciiString, Uint64_str, NameString)
ParsedMakeDomainPublic ==
  PublicDomain(VarlenAsciiString, Uint64_str, NameString, BOOLEAN)
ParsedTransferDomain == NewDomainOwner(VarlenAsciiString, Uint64_str, NameString)
ParsedRemoveAllNFT == Handle(VarlenAsciiString, Uint64_str, NameString)
ParsedStakeFIO == Staked(VarlenAsciiString, Uint64_str, NameString)
ParsedUnstakeFIO == Staked(VarlenAsciiString, Uint64_str, NameString)
ParsedVoteOnBlockProducers == Voted(VarlenAsciiString, Uint64_str, NameString)
ParsedProxyVotesToRegisteredProxy ==
  Proxied(VarlenAsciiString, Uint64_str, NameString)
ParsedWrapDomain == WrappedDomain(VarlenAsciiString, Uint64_str, NameString)
ParsedWrapTokens == WrappedTokens(VarlenAsciiString, Uint64_str, NameString)
ParsedActionAuthorisation == Authorisation(NameString)

ParsedActionData ==
  ParsedTransferFIOTokensData \cup ParsedRequestFundsData
    \cup ParsedRecordOtherBlockchainTransactionMetadata
    \cup ParsedMapBlockchainPublicAddress \cup ParsedRemoveAddress
    \cup ParsedMapNFTSignature \cup ParsedRemoveNFTSignature
    \cup ParsedRemoveAllMappedAddresses \cup ParsedCancelFundsRequest
    \cup ParsedRejectFundsRequest \cup ParsedBuyBundledTransaction
    \cup ParsedRegisterAddress \cup ParsedTransferAddress
    \cup ParsedRegisterDomain \cup ParsedRenewDomain
    \cup ParsedMakeDomainPublic \cup ParsedTransferDomain
    \cup ParsedRemoveAllNFT \cup ParsedStakeFIO \cup ParsedUnstakeFIO
    \cup ParsedVoteOnBlockProducers \cup ParsedProxyVotesToRegisteredProxy
    \cup ParsedWrapDomain \cup ParsedWrapTokens
ParsedAction ==
  [account : ContractName, name : ContractName,
   authorization : Seq(ParsedActionAuthorisation), data : ParsedActionData]
ParsedTransaction ==
  [expiration : string, ref_block_num : Uint16_t, ref_block_prefix : Uint32_t,
   context_free_actions : {<<>>}, actions : Seq(ParsedAction)]
=============================================================================
