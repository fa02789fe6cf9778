---------------------------- MODULE SignTx_proofs ----------------------------
(***************************************************************************)
(* Proofs about transaction signing, for every set of values, checks,      *)
(* sections and allowed sequences, every nesting limit and every bound.    *)
(*                                                                         *)
(* A command handler is an operator from a context and a history to a      *)
(* result; there is one lemma per handler saying what its result keeps,    *)
(* one saying that Execute turns a good result into a good state, and one  *)
(* for the steps of the user.                                              *)
(***************************************************************************)
EXTENDS SignTx, TLAPS

-----------------------------------------------------------------------------
(* Types.                                                                  *)

Results == [status : {"ok", "error", "crash"}, c : Contexts, h : Histories]

\* The sizes given to the counted sections and to the encoder are naturals.
LEMMA Sizes ==
  /\ \A v \in Values : Size[v] \in Nat
  /\ ConstLens \subseteq Nat
  /\ \A s \in Sections : s[1] \in Nat /\ s[2] \in Nat
  /\ Empty \in Values
  BY SignAssumption DEF MAX_APPEND

\* The operations on counted sections return counted sections, whether they
\* are allowed or (CsProcess) fail halfway.
LEMMA SectionTypes ==
  ASSUME NEW cs \in CountedSections, NEW n \in Nat
  PROVE  /\ CsProcess(cs, n) \in CountedSections
         /\ CsProcess(cs, n).currentLevel = cs.currentLevel
         /\ CsCanBegin(cs) => CsBegin(cs, n) \in CountedSections
  <1>1. cs.currentLevel \in 0..MAX_NESTED /\ cs.count \in [Levels -> Nat]
    BY DEF CountedSections
  <1> DEFINE Fits(i) == i <= cs.currentLevel /\ \A j \in 1..i : cs.count[j] >= n
             left == [i \in Levels |-> IF Fits(i) THEN cs.count[i] - n ELSE cs.count[i]]
  <1>2. left \in [Levels -> Nat]
    <2> SUFFICES ASSUME NEW i \in Levels, Fits(i) PROVE cs.count[i] - n \in Nat
      BY <1>1
    <2>1. cs.count[i] >= n /\ cs.count[i] \in Nat
      BY <1>1, NestedAssumption DEF Levels
    <2>2. QED  BY <2>1
  <1>3. CsProcess(cs, n) = [cs EXCEPT !.count = left]
    BY DEF CsProcess
  <1>4. CsProcess(cs, n) \in CountedSections /\ CsProcess(cs, n).currentLevel = cs.currentLevel
    BY <1>2, <1>3 DEF CountedSections
  <1>5. CsCanBegin(cs) => CsBegin(cs, n) \in CountedSections
    <2> SUFFICES ASSUME CsCanBegin(cs) PROVE CsBegin(cs, n) \in CountedSections
      OBVIOUS
    <2> DEFINE k == cs.currentLevel + 1
    <2>1. k \in 0..MAX_NESTED
      BY <1>1, NestedAssumption DEF CsCanBegin
    <2>2. [cs.count EXCEPT ![k] = n] \in [Levels -> Nat]
      BY <1>1
    <2> HIDE DEF k
    <2>3. [currentLevel |-> k, count |-> [cs.count EXCEPT ![k] = n]] \in CountedSections
      BY <2>1, <2>2 DEF CountedSections
    <2>4. QED  BY <2>3 DEF CsBegin, k
  <1>6. QED  BY <1>4, <1>5

\* Ending a section goes one level up.
LEMMA EndTypes ==
  ASSUME NEW cs \in CountedSections, CsCanEnd(cs)
  PROVE  CsEnd(cs) \in CountedSections
  BY NestedAssumption DEF CsCanEnd, CsEnd, CountedSections

\* The encoder's closed forms return characters and encoder states.
LEMMA EncoderTypes ==
  ASSUME NEW d \in Encoders, NEW n \in Nat
  PROVE  /\ AppendWritten(d, n) \in Nat
         /\ AfterAppend(d, n) \in Encoders
  <1>1. d.cacheLength \in 0..15 /\ d.base64Len \in 0..2
    BY DEF Encoders, AES_BLOCK_SIZE, B64_IN
  <1>2. BlocksOf(d, n) \in Nat
    BY <1>1 DEF BlocksOf, AES_BLOCK_SIZE
  <1>3. AppendWritten(d, n) \in Nat
    BY <1>1, <1>2 DEF AppendWritten, WholeBlocksOut, AES_BLOCK_SIZE, B64_IN, B64_OUT
  <1>4. AfterAppend(d, n) \in Encoders
    BY <1>1, <1>2 DEF AfterAppend, WholeBlocksLeft, Encoders, AES_BLOCK_SIZE, B64_IN
  <1>5. QED  BY <1>3, <1>4

\* The characters of dh_encode_finalize fit the 8-bit response length.
LEMMA FinalTypes ==
  ASSUME NEW d \in Encoders
  PROVE  FinalWritten(d) \in Nat /\ FinalWritten(d) \in 64..72
  <1>1. d.base64Len \in 0..2
    BY DEF Encoders, B64_IN
  <1>2. QED
    BY <1>1 DEF FinalWritten, PaddedOut, AES_BLOCK_SIZE, HMAC_SIZE, B64_IN, B64_OUT

\* A session starts with a context and a history of the right types.
LEMMA FreshTypes == FreshCtx \in Contexts /\ FreshHist \in Histories
  <1>1. CsInit \in CountedSections
    BY NestedAssumption DEF CsInit, CountedSections, Levels
  <1>2. QED
    BY <1>1, Sizes, NestedAssumption
    DEF FreshCtx, FreshHist, Contexts, Histories, Hashes, Encoders,
        AES_BLOCK_SIZE, B64_IN, U8, U16

\* The integrity chain of a received command is in the type of hashes.
LEMMA ReceivedTypes ==
  ASSUME NEW p1, NEW p2, NEW const, Ctx \in Contexts
  PROVE  Received(p1, p2, const) \in Contexts
  BY DEF Received, ChainAfter, Contexts, Hashes

\* Writing n bytes keeps the types, whatever the narrowing conversions yield.
LEMMA AppendedTypes ==
  ASSUME NEW c \in Contexts, NEW h \in Histories, NEW n \in Nat
  PROVE  Appended(c, h, n) \in Results
  <1> DEFINE w == AppendWritten(c.dh, n)
             r == w % U8
             d == (c.difference + r - n) % U16
             long == n > LONGEST_RETURNED
  <1>1. c.dh \in Encoders /\ c.difference \in Nat
    BY DEF Contexts
  <1>2. w \in Nat /\ AfterAppend(c.dh, n) \in Encoders
    BY <1>1, EncoderTypes
  <1> HIDE DEF w
  <1>3. r \in 0..U8 - 1
    BY <1>2 DEF U8
  <1>4. d \in 0..U16 - 1
    <2>1. \A x \in Int : x % U16 \in 0..U16 - 1
      BY DEF U16
    <2>2. r \in Nat
      BY <1>3 DEF U8
    <2> HIDE DEF r
    <2>3. c.difference + r - n \in Int
      BY <1>1, <2>2
    <2>4. QED  BY <2>1, <2>3
  <1>5. r \in Nat
    BY <1>3 DEF U8
  <1> HIDE DEF r, d, long
  <1>6. h.out + n \in Nat /\ h.out + r \in Nat /\ h.plain + n \in Nat /\ h.made + w \in Nat
    BY <1>2, <1>5 DEF Histories
  <1>7. Ok([c EXCEPT !.responseLength = 0], [h EXCEPT !.out = @ + n]) \in Results
    BY <1>6 DEF Ok, Results, Contexts, Histories, U8
  <1>8. Ok([c EXCEPT !.dh = AfterAppend(@, n), !.responseLength = r, !.difference = d],
           [h EXCEPT !.out = @ + r, !.plain = @ + n, !.made = @ + w, !.long = @ \/ long])
        \in Results
    <2>1. (h.long \/ long) \in BOOLEAN
      OBVIOUS
    <2>2. QED  BY <1>2, <1>3, <1>4, <1>6, <2>1 DEF Ok, Results, Contexts, Histories
  <1>9. Crash(c, h) \in Results /\ Error(c, h) \in Results
    BY DEF Crash, Error, Results
  <1>10. QED
    BY <1>7, <1>8, <1>9 DEF Appended, w, r, d, long

\* Counting and writing, and with it INIT and APPEND_CONST_DATA.
LEMMA CountedTypes ==
  ASSUME NEW c \in Contexts, NEW h \in Histories, NEW n \in Nat
  PROVE  CountedAppend(c, h, n) \in Results
  <1> DEFINE counted == [c EXCEPT !.cs = CsProcess(@, n)]
  <1>1. counted \in Contexts
    BY SectionTypes DEF Contexts
  <1>2. Error(counted, h) \in Results
    BY <1>1 DEF Error, Results
  <1> HIDE DEF counted
  <1>3. Appended(counted, h, n) \in Results
    BY <1>1, AppendedTypes
  <1>4. QED  BY <1>2, <1>3 DEF CountedAppend, counted

\* The handlers return results of the right types; first INIT ...
LEMMA InitTypes ==
  ASSUME NEW c \in Contexts, NEW h \in Histories
  PROVE  InitResult(c, h) \in Results
  <1>1. [c EXCEPT !.pathSet = TRUE] \in Contexts
    BY DEF Contexts
  <1>2. CountedAppend([c EXCEPT !.pathSet = TRUE], h, CHAIN_ID_LENGTH) \in Results
    BY <1>1, CountedTypes DEF CHAIN_ID_LENGTH
  <1>3. QED  BY <1>2 DEF InitResult, Error, Results

\* A passed check adds a value to the history of its register.
LEMMA TieTypes ==
  ASSUME NEW c \in Contexts, NEW h \in Histories, NEW check, NEW v \in Values
  PROVE  Tie(h, c, check, v) \in Histories
  <1>1. h.tied \in [Registers -> SUBSET Values]
    BY DEF Histories
  <1>2. RegisterOf(check) \in Registers /\ 1 \in Registers
    BY DEF RegisterOf, Registers
  <1>3. \A r \in Registers, S \in SUBSET Values : [h EXCEPT !.tied[r] = @ \cup S] \in Histories
    <2> SUFFICES ASSUME NEW r \in Registers, NEW S \in SUBSET Values
                 PROVE  [h EXCEPT !.tied[r] = @ \cup S] \in Histories
      OBVIOUS
    <2>1. [h.tied EXCEPT ![r] = @ \cup S] \in [Registers -> SUBSET Values]
      BY <1>1
    <2>2. QED  BY <2>1 DEF Histories
  <1>4. {n \in DOMAIN NameOf : NameOf[n] = v} \in SUBSET Values
    BY SignAssumption
  <1>5. {v} \in SUBSET Values
    OBVIOUS
  <1>6. QED  BY <1>2, <1>3, <1>4, <1>5 DEF Tie

\* ... APPEND_DATA, with its check against a register,
LEMMA DataTypes ==
  ASSUME NEW c \in Contexts, NEW h \in Histories, NEW v \in Values, NEW check, NEW policy
  PROVE  AppendDataResult(c, h, v, check, policy) \in Results
  <1>1. CountedAppend(c, Tie(h, c, check, v), Size[v]) \in Results
    BY TieTypes, CountedTypes, Sizes
  <1>2. Crash(c, h) \in Results /\ Error(c, h) \in Results
    BY DEF Crash, Error, Results
  <1>3. QED  BY <1>1, <1>2 DEF AppendDataResult

\* ... START_COUNTED_SECTION,
LEMMA StartSectionTypes ==
  ASSUME NEW c \in Contexts, NEW h \in Histories, NEW declared \in Nat, NEW n \in Nat
  PROVE  StartSectionResult(c, h, declared, n) \in Results
  <1> DEFINE level   == c.cs.currentLevel + 1
             counted == [c EXCEPT !.cs = CsProcess(@, n)]
             begun   == [counted EXCEPT !.cs = CsBegin(@, declared)]
             r       == Appended(begun, h, n)
  <1>1. c.cs \in CountedSections /\ CsProcess(c.cs, n) \in CountedSections
        /\ CsProcess(c.cs, n).currentLevel = c.cs.currentLevel
    BY SectionTypes DEF Contexts
  <1>2. counted \in Contexts /\ counted.cs = CsProcess(c.cs, n)
    BY <1>1 DEF Contexts
  <1>3. Error(counted, h) \in Results
    BY <1>2 DEF Error, Results
  <1>4. ASSUME CsCanBegin(c.cs)
        PROVE  [r EXCEPT !.h.start[level] = IF c.dhIsActive THEN r.h.plain ELSE r.h.out,
                         !.h.declared[level] = declared,
                         !.h.inDh[level] = c.dhIsActive] \in Results
    <2>1. CsBegin(counted.cs, declared) \in CountedSections
      BY <1>1, <1>2, <1>4, SectionTypes DEF CsCanBegin
    <2> HIDE DEF counted
    <2>2. begun \in Contexts
      BY <1>2, <2>1 DEF Contexts
    <2> HIDE DEF begun
    <2>3. r \in Results
      BY <2>2, AppendedTypes
    <2> HIDE DEF r
    <2>4. r.h \in Histories /\ r.h.plain \in Nat /\ r.h.out \in Nat
      BY <2>3 DEF Results, Histories
    <2> DEFINE at == IF c.dhIsActive THEN r.h.plain ELSE r.h.out
               g == [r.h EXCEPT !.start[level] = at, !.declared[level] = declared,
                                !.inDh[level] = c.dhIsActive]
    <2>5. at \in Nat /\ c.dhIsActive \in BOOLEAN
      BY <2>4 DEF Contexts
    <2> HIDE DEF at, level
    <2>6. g \in Histories
      <3>1. [r.h.start EXCEPT ![level] = at] \in [Levels -> Nat]
        BY <2>4, <2>5 DEF Histories
      <3>2. [r.h.declared EXCEPT ![level] = declared] \in [Levels -> Nat]
        BY <2>4 DEF Histories
      <3>3. [r.h.inDh EXCEPT ![level] = c.dhIsActive] \in [Levels -> BOOLEAN]
        BY <2>4, <2>5 DEF Histories
      <3>4. QED  BY <2>4, <3>1, <3>2, <3>3 DEF Histories
    <2> HIDE DEF g
    <2>7. [r EXCEPT !.h = g] \in Results
      BY <2>3, <2>6 DEF Results
    <2>8. QED  BY <2>3, <2>4, <2>7 DEF g, at, Results, Histories
  <1>5. QED  BY <1>3, <1>4 DEF StartSectionResult

\* ... END_COUNTED_SECTION,
LEMMA EndSectionTypes ==
  ASSUME NEW c \in Contexts, NEW h \in Histories
  PROVE  EndSectionResult(c, h) \in Results
  <1> DEFINE level == c.cs.currentLevel
             g == [h EXCEPT !.start[level] = 0, !.declared[level] = 0, !.inDh[level] = FALSE]
             e == [c EXCEPT !.cs = CsEnd(@), !.responseLength = 0]
  <1>1. g \in Histories
    <2>1. /\ [h.start EXCEPT ![level] = 0] \in [Levels -> Nat]
          /\ [h.declared EXCEPT ![level] = 0] \in [Levels -> Nat]
          /\ [h.inDh EXCEPT ![level] = FALSE] \in [Levels -> BOOLEAN]
      BY DEF Histories
    <2>2. QED  BY <2>1 DEF Histories
  <1>2. CsCanEnd(c.cs) => e \in Contexts
    <2>1. c.cs \in CountedSections /\ 0 \in 0..U8 - 1
      BY DEF Contexts, U8
    <2>2. CsCanEnd(c.cs) => CsEnd(c.cs) \in CountedSections
      BY <2>1, EndTypes
    <2>3. QED  BY <2>1, <2>2 DEF Contexts
  <1>3. Error(c, h) \in Results
    BY DEF Error, Results
  <1>4. CsCanEnd(c.cs) => Ok(e, g) \in Results
    BY <1>1, <1>2 DEF Ok, Results
  <1>5. QED  BY <1>3, <1>4 DEF EndSectionResult

\* ... STORE_VALUE,
LEMMA StoreTypes ==
  ASSUME NEW c \in Contexts, NEW h \in Histories, NEW r \in Registers, NEW v \in Values
  PROVE  StoreResult(c, h, r, v) \in Results
  <1>1. [c.storage EXCEPT ![r] = v] \in [Registers -> Values]
    BY DEF Contexts
  <1>2. [h.tied EXCEPT ![r] = {v}] \in [Registers -> SUBSET Values]
    BY DEF Histories
  <1>3. [c EXCEPT !.storage[r] = v, !.responseLength = 0] \in Contexts
    <2>1. 0 \in 0..U8 - 1
      BY DEF U8
    <2>2. QED  BY <1>1, <2>1 DEF Contexts
  <1>4. [h EXCEPT !.tied[r] = {v}] \in Histories
    BY <1>2 DEF Histories
  <1>5. QED  BY <1>3, <1>4 DEF StoreResult, Ok, Error, Results

\* ... DH_START,
LEMMA StartDhTypes ==
  ASSUME NEW c \in Contexts, NEW h \in Histories
  PROVE  StartDhResult(c, h) \in Results
  <1>1. InitWritten = 20 /\ InitDh \in Encoders
    BY DEF InitWritten, InitDh, Encoders, WholeBlocksOut, WholeBlocksLeft, IV_SIZE,
           AES_BLOCK_SIZE, B64_IN, B64_OUT
  <1>2. InitWritten \in 0..U8 - 1 /\ InitWritten \in 0..U16 - 1 /\ InitWritten \in Nat
    BY <1>1 DEF U8, U16
  <1>3. c.cs.currentLevel \in 0..MAX_NESTED
    BY DEF Contexts, CountedSections
  <1>4. [c EXCEPT !.dhIsActive = TRUE, !.entryLevel = c.cs.currentLevel, !.dh = InitDh,
                  !.responseLength = InitWritten, !.difference = InitWritten] \in Contexts
    BY <1>1, <1>2, <1>3 DEF Contexts
  <1>5. h.out + InitWritten \in Nat
    BY <1>2 DEF Histories
  <1>6. [h EXCEPT !.out = @ + InitWritten, !.plain = 0, !.made = InitWritten, !.long = FALSE]
          \in Histories
    BY <1>2, <1>5 DEF Histories
  <1>7. QED  BY <1>4, <1>6 DEF StartDhResult, Ok, Error, Results

\* ... DH_END, whose difference is taken modulo 2^16,
LEMMA EndDhTypes ==
  ASSUME NEW c \in Contexts, NEW h \in Histories
  PROVE  EndDhResult(c, h) \in Results
  <1> DEFINE w == FinalWritten(c.dh)
             d == (c.difference + w) % U16
             counted == [c EXCEPT !.cs = CsProcess(@, d), !.difference = d, !.responseLength = w]
  <1>1. w \in 64..72
    BY FinalTypes DEF Contexts
  <1> HIDE DEF w
  <1>2. d \in 0..U16 - 1 /\ d \in Nat
    <2>1. \A x \in Int : x % U16 \in 0..U16 - 1 /\ x % U16 \in Nat
      BY DEF U16
    <2>2. c.difference + w \in Int
      BY <1>1 DEF Contexts
    <2>3. QED  BY <2>1, <2>2
  <1> HIDE DEF d
  <1>3. counted \in Contexts
    <2>1. w \in 0..U8 - 1
      BY <1>1 DEF U8
    <2>2. CsProcess(c.cs, d) \in CountedSections
      BY <1>2, SectionTypes DEF Contexts
    <2>3. QED  BY <1>2, <2>1, <2>2 DEF Contexts
  <1>4. [counted EXCEPT !.dhIsActive = FALSE] \in Contexts
    BY <1>3 DEF Contexts
  <1>5. [h EXCEPT !.out = @ + w, !.made = @ + w] \in Histories
    <2>1. h.out + w \in Nat /\ h.made + w \in Nat
      BY <1>1 DEF Histories
    <2>2. QED  BY <2>1 DEF Histories
  <1>6. QED
    BY <1>3, <1>4, <1>5 DEF EndDhResult, w, d, Ok, Error, Results

\* ... and FINISH, which changes nothing in the context.
LEMMA FinishTypes ==
  ASSUME NEW c \in Contexts, NEW h \in Histories
  PROVE  FinishResult(c, h) \in Results
  BY DEF FinishResult, Ok, Error, Results

\* Whatever a handler returns, the answer to the command leaves a typed state.
LEMMA ExecuteTypes ==
  ASSUME TypeOK, NEW p1 \in Commands, NEW r \in Results, NEW screen \in Screens,
         Execute(p1, r, screen)
  PROVE  TypeOK'
  <1>1. r.c \in Contexts /\ r.h \in Histories
    BY DEF Results
  <1>2. r.c.responseLength \in Nat
    BY <1>1 DEF Contexts, U8
  <1>3. CASE r.status = "ok"
    BY <1>1, <1>2, <1>3 DEF Execute, TypeOK, Replies
  <1>4. CASE r.status = "error"
    BY <1>1, <1>4 DEF Execute, TypeOK, Replies
  <1>5. CASE r.status = "crash"
    BY FreshTypes, <1>5 DEF Execute, TypeOK, Replies
  <1>6. QED  BY <1>3, <1>4, <1>5 DEF Execute

\* What a command starts from is typed, in a running session and in a new one.
LEMMA StartTypes == TypeOK => Ctx \in Contexts /\ Hist \in Histories
  BY FreshTypes DEF TypeOK, Ctx, Hist

\* Every command of the host keeps the types.
LEMMA CommandTypes == TypeOK /\ Command => TypeOK'
  <1> SUFFICES ASSUME TypeOK, Command PROVE TypeOK'
    OBVIOUS
  <1>1. Hist \in Histories /\ \A p1, p2, const : Received(p1, p2, const) \in Contexts
    BY StartTypes, ReceivedTypes
  <1>2. Screens = {"none", "details", "dhStart", "dhConfirm", "finishDetails", "finishConfirm"}
    BY DEF Screens
  <1>3. CASE HandleInit
    <2> DEFINE r == InitResult(Received("INIT", 0, 0), Hist)
    <2>1. r \in Results
      BY <1>1, InitTypes
    <2>2. Execute("INIT", r, "details")
      BY <1>3 DEF HandleInit
    <2> HIDE DEF r
    <2>3. QED  BY <1>2, <2>1, <2>2, ExecuteTypes DEF Commands
  <1>4. ASSUME NEW n \in ConstLens,
               HandleAppendConstData(n)
        PROVE  TypeOK'
    <2> DEFINE r == CountedAppend(Received("APPEND_CONST_DATA", 0, n), Hist, n)
    <2>1. r \in Results
      BY <1>1, CountedTypes, Sizes
    <2>2. Execute("APPEND_CONST_DATA", r, "none")
      BY <1>4 DEF HandleAppendConstData
    <2> HIDE DEF r
    <2>3. QED  BY <1>2, <2>1, <2>2, ExecuteTypes DEF Commands
  <1>5. CASE HandleShowMessage
    <2> DEFINE r == Ok([Received("SHOW_MESSAGE", 0, 0) EXCEPT !.responseLength = 0], Hist)
    <2>1. r \in Results
      BY <1>1 DEF Ok, Results, Contexts, U8
    <2>2. Execute("SHOW_MESSAGE", r, "details")
      BY <1>5 DEF HandleShowMessage
    <2> HIDE DEF r
    <2>3. QED  BY <1>2, <2>1, <2>2, ExecuteTypes DEF Commands
  <1>6. ASSUME NEW v \in Values, NEW check \in Checks, NEW policy \in Policies,
               NEW blank \in BOOLEAN,
               HandleAppendData(v, check, policy, blank)
        PROVE  TypeOK'
    <2> DEFINE r == AppendDataResult(Received("APPEND_DATA", 0, <<check, policy>>), Hist, v, check, policy)
    <2>1. r \in Results
      BY <1>1, DataTypes
    <2>2. Execute("APPEND_DATA", r, IF policy = "ALLOW" \/ (policy = "SHOW_IF_NONEMPTY" /\ blank)
                             THEN "none" ELSE "details")
      BY <1>6 DEF HandleAppendData
    <2> HIDE DEF r
    <2>3. QED  BY <1>2, <2>1, <2>2, ExecuteTypes DEF Commands
  <1>7. ASSUME NEW s \in Sections,
               HandleStartCountedSection(s[1], s[2])
        PROVE  TypeOK'
    <2> DEFINE r == StartSectionResult(Received("START_COUNTED_SECTION", 0, 0), Hist, s[1], s[2])
    <2>1. r \in Results
      BY <1>1, StartSectionTypes, Sizes
    <2>2. Execute("START_COUNTED_SECTION", r, "none")
      BY <1>7 DEF HandleStartCountedSection
    <2> HIDE DEF r
    <2>3. QED  BY <1>2, <2>1, <2>2, ExecuteTypes DEF Commands
  <1>8. CASE HandleEndCountedSection
    <2> DEFINE r == EndSectionResult(Received("END_COUNTED_SECTION", 0, 0), Hist)
    <2>1. r \in Results
      BY <1>1, EndSectionTypes
    <2>2. Execute("END_COUNTED_SECTION", r, "none")
      BY <1>8 DEF HandleEndCountedSection
    <2> HIDE DEF r
    <2>3. QED  BY <1>2, <2>1, <2>2, ExecuteTypes DEF Commands
  <1>9. ASSUME NEW k \in Registers, NEW v \in Values,
               HandleStoreValue(k, v)
        PROVE  TypeOK'
    <2> DEFINE r == StoreResult(Received("STORE_VALUE", k, 0), Hist, k, v)
    <2>1. r \in Results
      BY <1>1, StoreTypes
    <2>2. Execute("STORE_VALUE", r, "none")
      BY <1>9 DEF HandleStoreValue
    <2> HIDE DEF r
    <2>3. QED  BY <1>2, <2>1, <2>2, ExecuteTypes DEF Commands
  <1>10. CASE HandleStartDHEncoding
    <2> DEFINE r == StartDhResult(Received("DH_START", 0, 0), Hist)
    <2>1. r \in Results
      BY <1>1, StartDhTypes
    <2>2. Execute("DH_START", r, "dhStart")
      BY <1>10 DEF HandleStartDHEncoding
    <2> HIDE DEF r
    <2>3. QED  BY <1>2, <2>1, <2>2, ExecuteTypes DEF Commands
  <1>11. CASE HandleEndDHEncoding
    <2> DEFINE r == EndDhResult(Received("DH_END", 0, 0), Hist)
    <2>1. r \in Results
      BY <1>1, EndDhTypes
    <2>2. Execute("DH_END", r, "dhConfirm")
      BY <1>11 DEF HandleEndDHEncoding
    <2> HIDE DEF r
    <2>3. QED  BY <1>2, <2>1, <2>2, ExecuteTypes DEF Commands
  <1>12. CASE HandleFinish
    <2> DEFINE r == FinishResult(Received("FINISH", 0, 0), Hist)
    <2>1. r \in Results
      BY <1>1, FinishTypes
    <2>2. Execute("FINISH", r, "finishDetails")
      BY <1>12 DEF HandleFinish
    <2> HIDE DEF r
    <2>3. QED  BY <1>2, <2>1, <2>2, ExecuteTypes DEF Commands
  <1>13. CASE BadRequest
    <2> DEFINE r == Error(Ctx, Hist)
    <2>1. r \in Results
      BY StartTypes DEF Error, Results
    <2>2. Execute("BAD_REQUEST", r, "none")
      BY <1>13 DEF BadRequest
    <2> HIDE DEF r
    <2>3. QED  BY <1>2, <2>1, <2>2, ExecuteTypes DEF Commands
  <1>14. QED
    BY <1>3, <1>4, <1>5, <1>6, <1>7, <1>8, <1>9, <1>10, <1>11, <1>12, <1>13 DEF Command

\* The steps of the user and of the transport.
LEMMA UserTypes == TypeOK /\ (User \/ Restart) => TypeOK'
  <1> SUFFICES ASSUME TypeOK, User \/ Restart PROVE TypeOK'
    OBVIOUS
  <1>1. ctx.responseLength \in Nat
    BY DEF TypeOK, Contexts, U8
  <1>2. CASE UserReads
    BY <1>1, <1>2 DEF UserReads, Respond, TypeOK, Replies, Screens
  <1>3. CASE UserConfirms
    <2>1. CASE ui = "dhConfirm" /\ Respond
      BY <1>1, <2>1 DEF Respond, TypeOK, Replies, Screens
    <2>2. CASE EndSession("success", SIGNATURE_LENGTH)
      <3>1. SIGNATURE_LENGTH \in Nat
        BY DEF SIGNATURE_LENGTH
      <3>2. QED  BY <3>1, <2>2 DEF EndSession, TypeOK, Replies, Screens
    <2>3. QED  BY <1>3, <2>1, <2>2 DEF UserConfirms
  <1>4. CASE UserRejects
    BY <1>4 DEF UserRejects, EndSession, TypeOK, Replies, Screens
  <1>5. CASE Restart
    BY <1>5, FreshTypes DEF Restart, TypeOK, Replies, Screens
  <1>6. QED  BY <1>2, <1>3, <1>4, <1>5 DEF User

\* The device state stays in its types: nesting and counters within their
\* widths, caches below a block, registers holding values.
THEOREM TypeCorrect == Spec => []TypeOK
  <1>1. Init => TypeOK
    BY FreshTypes DEF Init, TypeOK, Replies, Screens, Commands
  <1>2. TypeOK /\ [Next]_vars => TypeOK'
    BY CommandTypes, UserTypes DEF Next, vars, TypeOK
  <1>3. QED  BY <1>1, <1>2, PTL DEF Spec

-----------------------------------------------------------------------------
(* Framing: the counters of the running sections.                          *)

\* SectionsExact and ProperNesting as predicates of a context and a history,
\* and what keeps the 16-bit difference from wrapping: it is never more than
\* the transaction is long.
HeldIn(h, i) == (IF h.inDh[i] THEN h.plain ELSE h.out) - h.start[i]
Owed(c, h, i) == h.declared[i] + (IF c.dhIsActive /\ ~h.inDh[i] THEN c.difference ELSE 0)

Nested(c, h) ==
  /\ c.dhIsActive => c.entryLevel <= c.cs.currentLevel
  /\ \A i \in 1..c.cs.currentLevel : h.inDh[i] <=> c.dhIsActive /\ i > c.entryLevel
Exact(c, h) == \A i \in 1..c.cs.currentLevel : c.cs.count[i] + HeldIn(h, i) = Owed(c, h, i)
Small(c, h) == c.dhIsActive => c.difference <= h.out
Framed(c, h) == Nested(c, h) /\ Exact(c, h) /\ Small(c, h)

Kept(r) == r.status = "ok" /\ r.h.out <= MaxBytes => Framed(r.c, r.h)

\* Sections 1..m have counted n bytes that are not written yet.
Ahead(c, h, n, m) ==
  \A i \in 1..m : /\ h.inDh[i] => c.dhIsActive
                 /\ c.cs.count[i] + n + HeldIn(h, i) = Owed(c, h, i)
SameFraming(r, c, h) ==
  /\ r.c.cs = c.cs /\ r.c.dhIsActive = c.dhIsActive /\ r.c.entryLevel = c.entryLevel
  /\ r.h.start = h.start /\ r.h.declared = h.declared /\ r.h.inDh = h.inDh

\* The fields of contexts and histories that framing is about.
LEMMA Fields ==
  ASSUME NEW c \in Contexts, NEW h \in Histories
  PROVE  /\ c.difference \in Nat /\ c.difference < U16 /\ c.dhIsActive \in BOOLEAN
         /\ c.cs \in CountedSections /\ c.cs.currentLevel \in 0..MAX_NESTED
         /\ c.entryLevel \in 0..MAX_NESTED
         /\ h.out \in Nat /\ h.plain \in Nat /\ h.made \in Nat
         /\ \A i \in Levels : /\ h.start[i] \in Nat /\ h.declared[i] \in Nat
                             /\ h.inDh[i] \in BOOLEAN /\ c.cs.count[i] \in Nat
  <1>1. c.difference \in 0..U16 - 1 /\ c.dhIsActive \in BOOLEAN /\ c.cs \in CountedSections
        /\ c.entryLevel \in 0..MAX_NESTED
    BY DEF Contexts
  <1>2. c.difference \in Nat /\ c.difference < U16
    <2>1. \A x \in 0..U16 - 1 : x \in Nat /\ x < U16
      BY DEF U16
    <2>2. QED  BY <1>1, <2>1
  <1>3. c.cs.currentLevel \in 0..MAX_NESTED /\ c.cs.count \in [Levels -> Nat]
    BY <1>1 DEF CountedSections
  <1>4. /\ h.out \in Nat /\ h.plain \in Nat /\ h.made \in Nat
        /\ h.start \in [Levels -> Nat] /\ h.declared \in [Levels -> Nat]
        /\ h.inDh \in [Levels -> BOOLEAN]
    BY DEF Histories
  <1>5. QED  BY <1>1, <1>2, <1>3, <1>4

\* The bound on a transaction is below the modulus of the difference.
LEMMA Bounds == MaxBytes \in Nat /\ MaxBytes < U16
  BY SignAssumption DEF U16

\* A value that fits a narrow integer survives the conversion.
LEMMA NoWrap == (\A x \in 0..U8 - 1 : x % U8 = x) /\ (\A x \in 0..U16 - 1 : x % U16 = x)
  BY DEF U8, U16

\* Writing n bytes that sections 1..m have already counted: their counters
\* are right again, and nothing else about the framing changes.
LEMMA AppendedExact ==
  ASSUME NEW c \in Contexts, NEW h \in Histories, NEW n \in Nat, NEW m \in 0..MAX_NESTED,
         Ahead(c, h, n, m), Small(c, h),
         NEW r, r = Appended(c, h, n), r.status = "ok", r.h.out <= MaxBytes
  PROVE  /\ SameFraming(r, c, h) /\ Ahead(r.c, r.h, 0, m) /\ Small(r.c, r.h)
         /\ c.dhIsActive => r.c.difference + r.h.plain =
                             c.difference + h.plain + (AppendWritten(c.dh, n) % U8)
  <1>0. /\ c.difference \in Nat /\ h.out \in Nat /\ h.plain \in Nat /\ c.dhIsActive \in BOOLEAN
        /\ \A i \in 1..m : /\ h.start[i] \in Nat /\ h.declared[i] \in Nat
                          /\ h.inDh[i] \in BOOLEAN /\ c.cs.count[i] \in Nat
    <2>1. \A i \in 1..m : i \in Levels
      BY NestedAssumption DEF Levels
    <2>2. QED  BY <2>1, Fields
  <1>1. CASE ~c.dhIsActive
    <2>1. r = Ok([c EXCEPT !.responseLength = 0], [h EXCEPT !.out = @ + n])
      BY <1>1 DEF Appended
    <2>2. /\ SameFraming(r, c, h) /\ r.c.difference = c.difference
          /\ r.h.out = h.out + n /\ r.h.plain = h.plain
      BY <2>1 DEF Ok, Contexts, Histories, SameFraming
    <2>3. QED  BY <1>0, <1>1, <2>2 DEF HeldIn, Owed, Small, Ahead, SameFraming
  <1>2. CASE c.dhIsActive
    <2> DEFINE w == AppendWritten(c.dh, n)
               k == w % U8
               d == (c.difference + k - n) % U16
               long == n > LONGEST_RETURNED
    <2>1. w \in Nat
      BY EncoderTypes DEF Contexts
    <2>2. k \in Nat
      <3> HIDE DEF w
      <3>1. QED  BY <2>1 DEF U8
    <2>3. /\ c.difference + k >= n
          /\ r = Ok([c EXCEPT !.dh = AfterAppend(@, n), !.responseLength = k, !.difference = d],
                    [h EXCEPT !.out = @ + k, !.plain = @ + n, !.made = @ + w,
                              !.long = @ \/ long])
      <3>1. Error(c, h).status # "ok" /\ Crash(c, h).status # "ok"
        BY DEF Error, Crash
      <3>2. CASE w > APDU_BUFFER_SIZE
        BY <1>2, <3>1, <3>2 DEF Appended
      <3>3. CASE w <= APDU_BUFFER_SIZE /\ c.difference + k < n
        BY <1>2, <3>1, <3>3 DEF Appended
      <3>4. CASE ~(w > APDU_BUFFER_SIZE) /\ ~(w <= APDU_BUFFER_SIZE /\ c.difference + k < n)
        <4>1. r = Ok([c EXCEPT !.dh = AfterAppend(@, n), !.responseLength = k, !.difference = d],
                     [h EXCEPT !.out = @ + k, !.plain = @ + n, !.made = @ + w,
                               !.long = @ \/ long])
          BY <1>2, <3>4 DEF Appended
        <4> HIDE DEF w, k, d, long
        <4>2. c.difference + k >= n
          BY <1>0, <2>1, <2>2, <3>4 DEF APDU_BUFFER_SIZE
        <4>3. QED  BY <4>1, <4>2
      <3>5. QED  BY <3>2, <3>3, <3>4
    <2> HIDE DEF w, k
    <2> HIDE DEF d, long
    <2> DEFINE dh == AfterAppend(c.dh, n)
    <2> HIDE DEF dh
    <2>4. /\ SameFraming(r, c, h) /\ r.c.difference = d
          /\ r.h.out = h.out + k /\ r.h.plain = h.plain + n
      <3>1. r = [status |-> "ok",
                 c |-> [c EXCEPT !.dh = dh, !.responseLength = k, !.difference = d],
                 h |-> [h EXCEPT !.out = @ + k, !.plain = @ + n, !.made = @ + w,
                                 !.long = @ \/ long]]
        BY <2>3 DEF Ok, dh
      <3>2. /\ r.c = [c EXCEPT !.dh = dh, !.responseLength = k, !.difference = d]
            /\ r.h = [h EXCEPT !.out = @ + k, !.plain = @ + n, !.made = @ + w,
                               !.long = @ \/ long]
        BY <3>1
      <3>3. /\ r.c.cs = c.cs /\ r.c.dhIsActive = c.dhIsActive /\ r.c.entryLevel = c.entryLevel
            /\ r.c.difference = d
        BY <3>2 DEF Contexts
      <3>4. /\ r.h.start = h.start /\ r.h.declared = h.declared /\ r.h.inDh = h.inDh
            /\ r.h.out = h.out + k /\ r.h.plain = h.plain + n
        BY <3>2 DEF Histories
      <3>5. QED  BY <3>3, <3>4 DEF SameFraming
    <2>5. d = c.difference + k - n
      <3>1. c.difference + k - n \in 0..U16 - 1
        <4>1. c.difference <= h.out /\ h.out + k <= MaxBytes
          BY <1>2, <2>4 DEF Small
        <4>2. U16 \in Nat /\ c.difference + k >= n
          BY <2>3 DEF U16
        <4>3. QED  BY <1>0, <2>2, <4>1, <4>2, Bounds
      <3>2. QED  BY <3>1, NoWrap DEF d
    <2>6. Small(r.c, r.h)
      BY <1>0, <1>2, <2>2, <2>4, <2>5 DEF Small, SameFraming
    <2>7. ASSUME NEW i \in 1..m
          PROVE  /\ r.h.inDh[i] => r.c.dhIsActive
                 /\ r.c.cs.count[i] + 0 + HeldIn(r.h, i) = Owed(r.c, r.h, i)
      <3>1. /\ c.cs.count[i] + n + HeldIn(h, i) = Owed(c, h, i)
            /\ r.c.cs = c.cs /\ r.c.dhIsActive /\ r.h.start = h.start
            /\ r.h.declared = h.declared /\ r.h.inDh = h.inDh
        BY <1>2, <2>4, <2>7 DEF Ahead, SameFraming
      <3>2. CASE h.inDh[i]
        BY <1>0, <1>2, <2>4, <2>7, <3>1, <3>2 DEF HeldIn, Owed
      <3>3. CASE ~h.inDh[i]
        BY <1>0, <1>2, <2>2, <2>4, <2>5, <2>7, <3>1, <3>3 DEF HeldIn, Owed
      <3>4. QED  BY <3>1, <3>2, <3>3
    <2>8. r.c.difference + r.h.plain = c.difference + h.plain + k
      BY <1>0, <2>2, <2>4, <2>5
    <2>9. k = AppendWritten(c.dh, n) % U8
      BY DEF k, w
    <2>10. QED  BY <2>4, <2>6, <2>7, <2>8, <2>9 DEF Ahead
  <1>3. QED  BY <1>0, <1>1, <1>2

\* Counting n bytes takes n from every running section, and nothing from the
\* others.
LEMMA ProcessTakes ==
  ASSUME NEW cs \in CountedSections, NEW n \in Nat, CsCanProcess(cs, n)
  PROVE  \A i \in 1..cs.currentLevel : CsProcess(cs, n).count[i] = cs.count[i] - n
  <1>1. cs.currentLevel \in 0..MAX_NESTED /\ cs.count \in [Levels -> Nat]
    BY DEF CountedSections
  <1>2. CsProcess(cs, n).count = [i \in Levels |->
          IF i <= cs.currentLevel /\ \A j \in 1..i : cs.count[j] >= n
          THEN cs.count[i] - n ELSE cs.count[i]]
    BY DEF CsProcess, CountedSections
  <1>3. ASSUME NEW i \in 1..cs.currentLevel
        PROVE  i \in Levels /\ i <= cs.currentLevel /\ \A j \in 1..i : cs.count[j] >= n
    BY <1>1, <1>3, NestedAssumption DEF Levels, CsCanProcess
  <1>4. QED  BY <1>2, <1>3

\* After counting, every running section is ahead by the bytes counted.
LEMMA CountingLeads ==
  ASSUME NEW c \in Contexts, NEW h \in Histories, NEW n \in Nat,
         Framed(c, h), CsCanProcess(c.cs, n),
         NEW e, e = [c EXCEPT !.cs = CsProcess(@, n)]
  PROVE  /\ e \in Contexts /\ e.cs = CsProcess(c.cs, n)
         /\ e.cs.currentLevel = c.cs.currentLevel
         /\ e.dhIsActive = c.dhIsActive /\ e.entryLevel = c.entryLevel
         /\ e.difference = c.difference /\ Small(e, h)
         /\ Ahead(e, h, n, c.cs.currentLevel)
  <1>1. c.cs \in CountedSections
    BY Fields
  <1>2. /\ CsProcess(c.cs, n) \in CountedSections
        /\ CsProcess(c.cs, n).currentLevel = c.cs.currentLevel
    BY <1>1, SectionTypes
  <1>3. /\ e \in Contexts /\ e.cs = CsProcess(c.cs, n)
        /\ e.dhIsActive = c.dhIsActive /\ e.entryLevel = c.entryLevel
        /\ e.difference = c.difference
    BY <1>2 DEF Contexts
  <1>4. Small(e, h)
    BY <1>3 DEF Framed, Small
  <1>5. ASSUME NEW i \in 1..c.cs.currentLevel
        PROVE  /\ h.inDh[i] => e.dhIsActive
               /\ e.cs.count[i] + n + HeldIn(h, i) = Owed(e, h, i)
    <2>1. h.inDh[i] => c.dhIsActive
      BY <1>5 DEF Framed, Nested
    <2>2. c.cs.count[i] + HeldIn(h, i) = Owed(c, h, i)
      BY <1>5 DEF Framed, Exact
    <2>3. e.cs.count[i] = c.cs.count[i] - n
      BY <1>1, <1>3, <1>5, ProcessTakes
    <2>4. Owed(e, h, i) = Owed(c, h, i)
      BY <1>3 DEF Owed
    <2>5. i \in Levels
      BY <1>5, Fields, NestedAssumption DEF Levels
    <2>6. c.cs.count[i] \in Nat /\ HeldIn(h, i) \in Int
      BY <2>5, Fields DEF HeldIn
    <2>7. QED  BY <1>3, <2>1, <2>2, <2>3, <2>4, <2>6
  <1>6. QED  BY <1>2, <1>3, <1>4, <1>5 DEF Ahead

\* Counting and writing the same bytes keeps the framing.
LEMMA CountedFramed ==
  ASSUME NEW c \in Contexts, NEW h \in Histories, NEW n \in Nat, Framed(c, h)
  PROVE  Kept(CountedAppend(c, h, n))
  <1> DEFINE e == [c EXCEPT !.cs = CsProcess(@, n)]
             r == Appended(e, h, n)
  <1>1. CASE ~CsCanProcess(c.cs, n)
    BY <1>1 DEF CountedAppend, Error, Kept
  <1>2. CASE CsCanProcess(c.cs, n)
    <2>1. CountedAppend(c, h, n) = r
      BY <1>2 DEF CountedAppend
    <2>2. /\ e \in Contexts /\ e.cs.currentLevel = c.cs.currentLevel
          /\ e.dhIsActive = c.dhIsActive /\ e.entryLevel = c.entryLevel
          /\ Small(e, h) /\ Ahead(e, h, n, c.cs.currentLevel)
      BY <1>2, CountingLeads
    <2> HIDE DEF e
    <2> SUFFICES ASSUME r.status = "ok", r.h.out <= MaxBytes PROVE Framed(r.c, r.h)
      BY <2>1 DEF Kept
    <2>3. c.cs.currentLevel \in 0..MAX_NESTED
      BY Fields
    <2>4. /\ SameFraming(r, e, h) /\ Small(r.c, r.h)
          /\ Ahead(r.c, r.h, 0, c.cs.currentLevel)
      BY <2>2, <2>3, AppendedExact
    <2> HIDE DEF r
    <2>5. Nested(r.c, r.h)
      BY <2>2, <2>4 DEF Framed, Nested, SameFraming
    <2>6. r.c \in Contexts /\ r.h \in Histories
      BY <2>2, AppendedTypes DEF r, Results
    <2>7. ASSUME NEW i \in 1..r.c.cs.currentLevel
          PROVE  r.c.cs.count[i] + HeldIn(r.h, i) = Owed(r.c, r.h, i)
      <3>1. i \in 1..c.cs.currentLevel
        BY <2>2, <2>4, <2>7 DEF SameFraming
      <3>2. i \in Levels
        BY <2>3, <3>1, NestedAssumption DEF Levels
      <3>3. r.c.cs.count[i] \in Nat
        BY <2>6, <3>2, Fields
      <3>4. r.c.cs.count[i] + 0 + HeldIn(r.h, i) = Owed(r.c, r.h, i)
        BY <2>4, <3>1 DEF Ahead
      <3>5. QED  BY <3>3, <3>4
    <2>8. QED  BY <2>4, <2>5, <2>7 DEF Framed, Exact
  <1>3. QED  BY <1>1, <1>2

\* Framing depends on a few fields only.
LEMMA FramedSame ==
  ASSUME NEW c, NEW h, NEW e, NEW g, Framed(c, h),
         e.cs = c.cs, e.dhIsActive = c.dhIsActive, e.entryLevel = c.entryLevel,
         e.difference = c.difference,
         g.out = h.out, g.plain = h.plain, g.start = h.start, g.declared = h.declared,
         g.inDh = h.inDh
  PROVE  Framed(e, g)
  BY DEF Framed, Nested, Exact, Small, HeldIn, Owed

\* The handlers keep the framing; first INIT, which appends the chain id.
LEMMA InitFramed ==
  ASSUME NEW c \in Contexts, NEW h \in Histories, Framed(c, h)
  PROVE  Kept(InitResult(c, h))
  <1> DEFINE e == [c EXCEPT !.pathSet = TRUE]
  <1>1. /\ e \in Contexts /\ e.cs = c.cs /\ e.dhIsActive = c.dhIsActive
        /\ e.entryLevel = c.entryLevel /\ e.difference = c.difference
    BY DEF Contexts
  <1>2. Framed(e, h)
    BY <1>1, FramedSame
  <1> HIDE DEF e
  <1>3. Kept(CountedAppend(e, h, CHAIN_ID_LENGTH))
    BY <1>1, <1>2, CountedFramed DEF CHAIN_ID_LENGTH
  <1>4. QED  BY <1>3 DEF InitResult, Error, Kept, e

\* APPEND_DATA keeps the framing: register checks do not touch it.
LEMMA DataFramed ==
  ASSUME NEW c \in Contexts, NEW h \in Histories, NEW v \in Values, NEW check, NEW policy,
         Framed(c, h)
  PROVE  Kept(AppendDataResult(c, h, v, check, policy))
  <1> DEFINE g == Tie(h, c, check, v)
  <1>1. g \in Histories
    BY TieTypes
  <1>2. /\ g.out = h.out /\ g.plain = h.plain /\ g.start = h.start
        /\ g.declared = h.declared /\ g.inDh = h.inDh
    BY DEF Tie, Histories
  <1> HIDE DEF g
  <1>3. Framed(c, g)
    BY <1>2, FramedSame
  <1>4. Kept(CountedAppend(c, g, Size[v]))
    BY <1>1, <1>3, CountedFramed, Sizes
  <1>5. Kept(Error(c, h)) /\ Kept(Crash(c, h))
    BY DEF Error, Crash, Kept
  <1>6. QED  BY <1>4, <1>5 DEF AppendDataResult, g

\* Opening a section: it owes all of its declared length and holds nothing,
\* and it is inside the current encrypted part if there is one.
LEMMA StartSectionFramed ==
  ASSUME NEW c \in Contexts, NEW h \in Histories, NEW declared \in Nat, NEW n \in Nat,
         Framed(c, h)
  PROVE  Kept(StartSectionResult(c, h, declared, n))
  <1> DEFINE m       == c.cs.currentLevel
             level   == m + 1
             counted == [c EXCEPT !.cs = CsProcess(@, n)]
             begun   == [counted EXCEPT !.cs = CsBegin(@, declared)]
             r       == Appended(begun, h, n)
             at      == IF c.dhIsActive THEN r.h.plain ELSE r.h.out
             q       == [r EXCEPT !.h.start[level] = at, !.h.declared[level] = declared,
                                  !.h.inDh[level] = c.dhIsActive]
  <1>1. CASE ~CsCanProcess(c.cs, n) \/ ~CsCanBegin(c.cs)
    BY <1>1 DEF StartSectionResult, Error, Kept
  <1>2. CASE CsCanProcess(c.cs, n) /\ CsCanBegin(c.cs)
    <2>1. StartSectionResult(c, h, declared, n) = q
      BY <1>2 DEF StartSectionResult
    <2>2. /\ counted \in Contexts /\ counted.cs = CsProcess(c.cs, n)
          /\ counted.cs.currentLevel = m
          /\ counted.dhIsActive = c.dhIsActive /\ counted.entryLevel = c.entryLevel
          /\ counted.difference = c.difference /\ Small(counted, h)
          /\ Ahead(counted, h, n, m)
      BY <1>2, CountingLeads
    <2>3. m \in 0..MAX_NESTED /\ m < MAX_NESTED /\ level \in Levels
      BY <1>2, Fields, NestedAssumption DEF CsCanBegin, Levels
    <2> HIDE DEF counted
    <2>4. /\ CsBegin(counted.cs, declared) \in CountedSections
          /\ CsBegin(counted.cs, declared).currentLevel = level
          /\ CsBegin(counted.cs, declared).count[level] = declared
          /\ \A i \in 1..m : CsBegin(counted.cs, declared).count[i] = counted.cs.count[i]
      <3>1. counted.cs \in CountedSections /\ CsCanBegin(counted.cs)
        BY <2>2, <2>3, Fields DEF CsCanBegin
      <3>2. CsBegin(counted.cs, declared) \in CountedSections
        BY <3>1, SectionTypes
      <3>3. counted.cs.count \in [Levels -> Nat]
        BY <3>1 DEF CountedSections
      <3>4. /\ CsBegin(counted.cs, declared).currentLevel = level
            /\ CsBegin(counted.cs, declared).count = [counted.cs.count EXCEPT ![level] = declared]
        BY <2>2 DEF CsBegin
      <3>5. ASSUME NEW i \in 1..m
            PROVE  i \in Levels /\ i # level
        BY <2>3, <3>5, NestedAssumption DEF Levels
      <3> HIDE DEF level
      <3>6. QED  BY <2>3, <3>2, <3>3, <3>4, <3>5
    <2>5. /\ begun \in Contexts /\ begun.cs = CsBegin(counted.cs, declared)
          /\ begun.dhIsActive = c.dhIsActive /\ begun.entryLevel = c.entryLevel
          /\ begun.difference = counted.difference
      BY <2>2, <2>4 DEF Contexts
    <2> HIDE DEF begun
    <2>6. Small(begun, h) /\ Ahead(begun, h, n, m)
      BY <2>2, <2>4, <2>5 DEF Small, Ahead, Owed
    <2>7. r \in Results
      BY <2>5, AppendedTypes
    <2>8. ASSUME r.status = "ok", r.h.out <= MaxBytes
          PROVE  SameFraming(r, begun, h) /\ Ahead(r.c, r.h, 0, m) /\ Small(r.c, r.h)
      BY <2>3, <2>5, <2>6, <2>8, AppendedExact
    <2> HIDE DEF r
    <2>9. r.c \in Contexts /\ r.h \in Histories
      BY <2>7 DEF Results
    <2>10. /\ q.status = r.status /\ q.c = r.c
           /\ q.h.out = r.h.out /\ q.h.plain = r.h.plain
           /\ q.h.start = [r.h.start EXCEPT ![level] = at]
           /\ q.h.declared = [r.h.declared EXCEPT ![level] = declared]
           /\ q.h.inDh = [r.h.inDh EXCEPT ![level] = c.dhIsActive]
      BY <2>7, <2>9 DEF Results, Histories
    <2>11. /\ r.h.start \in [Levels -> Nat] /\ r.h.declared \in [Levels -> Nat]
           /\ r.h.inDh \in [Levels -> BOOLEAN]
      BY <2>9 DEF Histories
    <2> HIDE DEF q, at
    <2>12. /\ q.h.start[level] = at /\ q.h.declared[level] = declared
           /\ q.h.inDh[level] = c.dhIsActive
           /\ \A i \in 1..m : /\ q.h.start[i] = r.h.start[i]
                             /\ q.h.declared[i] = r.h.declared[i]
                             /\ q.h.inDh[i] = r.h.inDh[i]
      <3>1. ASSUME NEW i \in 1..m
            PROVE  i \in Levels /\ i # level
        BY <2>3, <3>1, NestedAssumption DEF Levels
      <3> HIDE DEF level
      <3>2. QED  BY <2>3, <2>10, <2>11, <3>1
    <2> SUFFICES ASSUME q.status = "ok", q.h.out <= MaxBytes PROVE Framed(q.c, q.h)
      BY <2>1 DEF Kept
    <2>13. /\ SameFraming(r, begun, h) /\ Ahead(r.c, r.h, 0, m) /\ Small(r.c, r.h)
      BY <2>8, <2>10
    <2>14. /\ q.c.cs = begun.cs /\ q.c.cs.currentLevel = level
           /\ q.c.dhIsActive = c.dhIsActive /\ q.c.entryLevel = c.entryLevel
           /\ r.h.inDh = h.inDh
      BY <2>4, <2>5, <2>10, <2>13 DEF SameFraming
    <2>15. ASSUME NEW i \in 1..level, i # level
           PROVE  i \in 1..m
      BY <2>3, <2>15
    <2>16. Nested(q.c, q.h)
      <3>1. c.dhIsActive \in BOOLEAN /\ c.entryLevel \in Nat
        BY Fields
      <3>2. c.dhIsActive => c.entryLevel <= m
        BY DEF Framed, Nested
      <3>3. ASSUME NEW i \in 1..level
            PROVE  q.h.inDh[i] <=> c.dhIsActive /\ i > c.entryLevel
        <4>1. CASE i = level
          <5>1. c.dhIsActive => level > c.entryLevel
            BY <2>3, <3>1, <3>2
          <5>2. q.h.inDh[i] = c.dhIsActive
            BY <2>12, <4>1
          <5>3. QED  BY <4>1, <5>1, <5>2, <3>1
        <4>2. CASE i # level
          BY <2>12, <2>14, <2>15, <4>2 DEF Framed, Nested
        <4>3. QED  BY <4>1, <4>2
      <3>4. QED  BY <2>3, <2>14, <3>1, <3>2, <3>3 DEF Nested
    <2>17. ASSUME NEW i \in 1..level
           PROVE  q.c.cs.count[i] + HeldIn(q.h, i) = Owed(q.c, q.h, i)
      <3>1. CASE i = level
        <4>1. q.c.cs.count[i] = declared
          BY <2>4, <2>5, <2>14, <3>1
        <4>2. HeldIn(q.h, i) = 0
          BY <2>9, <2>10, <2>12, <3>1, Fields DEF HeldIn, at
        <4>3. Owed(q.c, q.h, i) = declared
          BY <2>12, <2>14, <3>1 DEF Owed
        <4>4. QED  BY <4>1, <4>2, <4>3
      <3>2. CASE i # level
        <4>1. i \in 1..m /\ i \in Levels
          BY <2>3, <2>15, <3>2, NestedAssumption DEF Levels
        <4>2. r.c.cs.count[i] + 0 + HeldIn(r.h, i) = Owed(r.c, r.h, i)
          BY <2>13, <4>1 DEF Ahead
        <4>3. HeldIn(q.h, i) = HeldIn(r.h, i) /\ Owed(q.c, q.h, i) = Owed(r.c, r.h, i)
          BY <2>10, <2>12, <4>1 DEF HeldIn, Owed
        <4>4. r.c.cs.count[i] \in Nat
          BY <2>9, <4>1, Fields
        <4>5. QED  BY <2>10, <4>2, <4>3, <4>4
      <3>3. QED  BY <3>1, <3>2
    <2>18. Small(q.c, q.h)
      BY <2>10, <2>13 DEF Small
    <2>19. QED  BY <2>14, <2>16, <2>17, <2>18 DEF Framed, Exact
  <1>3. QED  BY <1>1, <1>2

\* Closing a section that began in the current stream leaves the others alone.
LEMMA EndSectionFramed ==
  ASSUME NEW c \in Contexts, NEW h \in Histories, Framed(c, h)
  PROVE  Kept(EndSectionResult(c, h))
  <1> DEFINE m == c.cs.currentLevel
             e == [c EXCEPT !.cs = CsEnd(@), !.responseLength = 0]
             g == [h EXCEPT !.start[m] = 0, !.declared[m] = 0, !.inDh[m] = FALSE]
  <1>1. CASE ~((c.dhIsActive => c.entryLevel < m) /\ CsCanEnd(c.cs))
    BY <1>1 DEF EndSectionResult, Error, Kept
  <1>2. CASE (c.dhIsActive => c.entryLevel < m) /\ CsCanEnd(c.cs)
    <2>1. EndSectionResult(c, h) = Ok(e, g)
      BY <1>2 DEF EndSectionResult
    <2>2. m \in 1..MAX_NESTED /\ m \in Levels /\ c.entryLevel \in Nat
      BY <1>2, Fields, NestedAssumption DEF CsCanEnd, Levels
    <2>3. /\ e.cs.currentLevel = m - 1 /\ e.cs.count = c.cs.count
          /\ e.dhIsActive = c.dhIsActive /\ e.entryLevel = c.entryLevel
          /\ e.difference = c.difference
      <3>1. c.cs \in CountedSections
        BY Fields
      <3>2. CsEnd(c.cs).currentLevel = m - 1 /\ CsEnd(c.cs).count = c.cs.count
        BY <3>1 DEF CsEnd, CountedSections
      <3>3. QED  BY <3>2 DEF Contexts
    <2>4. /\ g.out = h.out /\ g.plain = h.plain
          /\ \A i \in 1..m - 1 : /\ g.start[i] = h.start[i] /\ g.declared[i] = h.declared[i]
                                /\ g.inDh[i] = h.inDh[i]
      <3>1. /\ h.start \in [Levels -> Nat] /\ h.declared \in [Levels -> Nat]
            /\ h.inDh \in [Levels -> BOOLEAN]
        BY DEF Histories
      <3>2. /\ g.out = h.out /\ g.plain = h.plain
            /\ g.start = [h.start EXCEPT ![m] = 0]
            /\ g.declared = [h.declared EXCEPT ![m] = 0]
            /\ g.inDh = [h.inDh EXCEPT ![m] = FALSE]
        BY DEF Histories
      <3>3. ASSUME NEW i \in 1..m - 1
            PROVE  i \in Levels /\ i # m
        BY <2>2, <3>3, NestedAssumption DEF Levels
      <3> HIDE DEF m, g
      <3>4. QED  BY <3>1, <3>2, <3>3
    <2>5. \A i \in 1..m - 1 : i \in 1..m
      BY <2>2
    <2> HIDE DEF e, g
    <2>6. Nested(e, g)
      BY <1>2, <2>2, <2>3, <2>4, <2>5 DEF Framed, Nested
    <2>7. Exact(e, g)
      BY <2>3, <2>4, <2>5 DEF Framed, Exact, HeldIn, Owed
    <2>8. Small(e, g)
      BY <2>3, <2>4 DEF Framed, Small
    <2>9. QED  BY <2>1, <2>6, <2>7, <2>8 DEF Framed, Kept, Ok
  <1>3. QED  BY <1>1, <1>2

\* STORE_VALUE keeps the framing.
LEMMA StoreFramed ==
  ASSUME NEW c \in Contexts, NEW h \in Histories, NEW r \in Registers, NEW v \in Values,
         Framed(c, h)
  PROVE  Kept(StoreResult(c, h, r, v))
  <1> DEFINE e == [c EXCEPT !.storage[r] = v, !.responseLength = 0]
             g == [h EXCEPT !.tied[r] = {v}]
  <1>1. /\ e.cs = c.cs /\ e.dhIsActive = c.dhIsActive /\ e.entryLevel = c.entryLevel
        /\ e.difference = c.difference
    BY DEF Contexts
  <1>2. /\ g.out = h.out /\ g.plain = h.plain /\ g.start = h.start
        /\ g.declared = h.declared /\ g.inDh = h.inDh
    BY DEF Histories
  <1> HIDE DEF e, g
  <1>3. Framed(e, g)
    BY <1>1, <1>2, FramedSame
  <1>4. QED  BY <1>3 DEF StoreResult, Ok, Error, Kept, e, g

\* An encrypted part begins: every running section is now around it, and owes
\* the characters that are already out.
LEMMA StartDhFramed ==
  ASSUME NEW c \in Contexts, NEW h \in Histories, Framed(c, h)
  PROVE  Kept(StartDhResult(c, h))
  <1> DEFINE e == [c EXCEPT !.dhIsActive = TRUE, !.entryLevel = c.cs.currentLevel, !.dh = InitDh,
                            !.responseLength = InitWritten, !.difference = InitWritten]
             g == [h EXCEPT !.out = @ + InitWritten, !.plain = 0, !.made = InitWritten,
                            !.long = FALSE]
  <1>1. CASE ~(~c.dhIsActive /\ c.pathSet)
    BY <1>1 DEF StartDhResult, Error, Kept
  <1>2. CASE ~c.dhIsActive /\ c.pathSet
    <2>1. StartDhResult(c, h) = Ok(e, g)
      BY <1>2 DEF StartDhResult
    <2>2. InitWritten \in Nat
      BY DEF InitWritten, WholeBlocksOut, IV_SIZE, B64_IN, B64_OUT
    <2>3. /\ e.cs = c.cs /\ e.dhIsActive = TRUE /\ e.entryLevel = c.cs.currentLevel
          /\ e.difference = InitWritten
      BY DEF Contexts
    <2>4. /\ g.out = h.out + InitWritten /\ g.start = h.start
          /\ g.declared = h.declared /\ g.inDh = h.inDh
      BY DEF Histories
    <2> HIDE DEF e, g
    <2>5. ASSUME NEW i \in 1..c.cs.currentLevel
          PROVE  i \in Levels /\ i \in Nat /\ ~h.inDh[i]
      <3>1. i \in Levels /\ i \in Nat
        BY <2>5, Fields, NestedAssumption DEF Levels
      <3>2. ~h.inDh[i]
        BY <1>2, <2>5, <3>1, Fields DEF Framed, Nested
      <3>3. QED  BY <3>1, <3>2
    <2>6. c.cs.currentLevel \in 0..MAX_NESTED
      BY Fields
    <2>7. Nested(e, g)
      <3>1. e.entryLevel <= e.cs.currentLevel
        BY <2>3, <2>6
      <3>2. ASSUME NEW i \in 1..e.cs.currentLevel
            PROVE  ~g.inDh[i] /\ ~(i > e.entryLevel)
        BY <2>3, <2>4, <2>5, <2>6, <3>2
      <3>3. QED  BY <2>4, <2>5, <3>1, <3>2, <2>3, Fields DEF Nested
    <2>8. ASSUME NEW i \in 1..e.cs.currentLevel
          PROVE  e.cs.count[i] + HeldIn(g, i) = Owed(e, g, i)
      <3>1. i \in 1..c.cs.currentLevel /\ i \in Levels /\ ~h.inDh[i]
        BY <2>3, <2>5, <2>8
      <3>2. c.cs.count[i] + HeldIn(h, i) = Owed(c, h, i)
        BY <3>1 DEF Framed, Exact
      <3>3. /\ c.cs.count[i] \in Nat /\ h.out \in Nat /\ h.start[i] \in Nat
            /\ h.declared[i] \in Nat
        BY <3>1, Fields
      <3>4. QED  BY <1>2, <2>2, <2>3, <2>4, <3>1, <3>2, <3>3 DEF HeldIn, Owed
    <2>9. Small(e, g)
      BY <2>2, <2>3, <2>4, Fields DEF Small
    <2>10. QED  BY <2>1, <2>7, <2>8, <2>9 DEF Framed, Exact, Kept, Ok
  <1>3. QED  BY <1>1, <1>2

\* It ends: what the sections around it owe is settled by counting the
\* difference together with the last characters.
LEMMA EndDhFramed ==
  ASSUME NEW c \in Contexts, NEW h \in Histories, Framed(c, h)
  PROVE  Kept(EndDhResult(c, h))
  <1> DEFINE w == FinalWritten(c.dh)
             d == (c.difference + w) % U16
             counted == [c EXCEPT !.cs = CsProcess(@, d), !.difference = d, !.responseLength = w]
             e == [counted EXCEPT !.dhIsActive = FALSE]
             g == [h EXCEPT !.out = @ + w, !.made = @ + w]
             refused == \/ ~c.pathSet \/ ~IntegrityOk(c.integrity) \/ ~c.dhIsActive
                        \/ c.entryLevel # c.cs.currentLevel
  <1>1. CASE refused \/ ~CsCanProcess(c.cs, d)
    BY <1>1 DEF EndDhResult, Error, Kept
  <1>2. CASE ~refused /\ CsCanProcess(c.cs, d)
    <2>1. EndDhResult(c, h) = Ok(e, g)
      BY <1>2 DEF EndDhResult
    <2>2. w \in Nat
      BY FinalTypes DEF Contexts
    <2>3. c.dhIsActive /\ c.entryLevel = c.cs.currentLevel
      BY <1>2
    <2>4. g.out = h.out + w /\ g.start = h.start /\ g.declared = h.declared /\ g.inDh = h.inDh
      BY DEF Histories
    <2> HIDE DEF w, g, d, e
    <2> SUFFICES ASSUME g.out <= MaxBytes PROVE Framed(e, g)
      BY <2>1 DEF Kept, Ok
    <2>5. d = c.difference + w /\ d \in Nat
      <3>1. c.difference <= h.out /\ c.difference \in Nat /\ h.out \in Nat
        BY <2>3, Fields DEF Framed, Small
      <3>2. U16 \in Nat
        BY DEF U16
      <3>3. c.difference + w \in 0..U16 - 1
        BY <2>2, <2>4, <3>1, <3>2, Bounds
      <3>4. QED  BY <3>1, <3>3, <2>2, NoWrap DEF d
    <2>6. e.cs = CsProcess(c.cs, d) /\ ~e.dhIsActive
      BY DEF Contexts, e
    <2> HIDE DEF counted
    <2>7. c.cs \in CountedSections
      BY Fields
    <2>8. e.cs.currentLevel = c.cs.currentLevel
      BY <2>5, <2>6, <2>7, SectionTypes
    <2>9. ASSUME NEW i \in 1..c.cs.currentLevel
          PROVE  i \in Levels /\ ~h.inDh[i]
      <3>1. i \in Levels /\ i \in Nat
        BY <2>9, Fields, NestedAssumption DEF Levels
      <3>2. ~(i > c.entryLevel)
        BY <2>3, <2>9, <3>1, Fields
      <3>3. QED  BY <2>9, <3>1, <3>2 DEF Framed, Nested
    <2>10. Nested(e, g)
      BY <2>4, <2>6, <2>8, <2>9, Fields DEF Nested
    <2>11. ASSUME NEW i \in 1..e.cs.currentLevel
           PROVE  e.cs.count[i] + HeldIn(g, i) = Owed(e, g, i)
      <3>1. i \in 1..c.cs.currentLevel /\ i \in Levels /\ ~h.inDh[i]
        BY <2>8, <2>9, <2>11
      <3>2. c.cs.count[i] + HeldIn(h, i) = Owed(c, h, i)
        BY <3>1 DEF Framed, Exact
      <3>3. e.cs.count[i] = c.cs.count[i] - d
        BY <1>2, <2>5, <2>6, <2>7, <3>1, ProcessTakes
      <3>4. /\ c.cs.count[i] \in Nat /\ h.out \in Nat /\ h.start[i] \in Nat
            /\ h.declared[i] \in Nat /\ c.difference \in Nat
        BY <3>1, Fields
      <3>5. QED  BY <2>2, <2>3, <2>4, <2>5, <2>6, <3>1, <3>2, <3>3, <3>4 DEF HeldIn, Owed
    <2>12. Small(e, g)
      BY <2>6 DEF Small
    <2>13. QED  BY <2>10, <2>11, <2>12 DEF Framed, Exact
  <1>3. QED  BY <1>1, <1>2

\* The inductive invariant.
FramingInv == TypeOK /\ (Live => Framed(ctx, hist))

\* A command starts from a framed context, and receiving it changes nothing of
\* the framing.
LEMMA StartFramed ==
  ASSUME FramingInv
  PROVE  /\ Ctx \in Contexts /\ Hist \in Histories /\ Framed(Ctx, Hist)
         /\ \A p1, p2, const : /\ Received(p1, p2, const) \in Contexts
                               /\ Framed(Received(p1, p2, const), Hist)
  <1>1. Ctx \in Contexts /\ Hist \in Histories
    BY StartTypes DEF FramingInv
  <1>2. Framed(FreshCtx, FreshHist)
    <2>1. FreshCtx.cs.currentLevel = 0 /\ FreshCtx.dhIsActive = FALSE
      BY DEF FreshCtx, CsInit
    <2>2. \A i \in 1..0 : FALSE
      OBVIOUS
    <2>3. QED  BY <2>1, <2>2 DEF Framed, Nested, Exact, Small
  <1>3. Framed(Ctx, Hist)
    BY <1>2 DEF FramingInv, TypeOK, Live, Ctx, Hist
  <1>4. ASSUME NEW p1, NEW p2, NEW const
        PROVE  /\ Received(p1, p2, const) \in Contexts
               /\ Framed(Received(p1, p2, const), Hist)
    <2> DEFINE e == Received(p1, p2, const)
    <2>1. e \in Contexts
      BY <1>1, ReceivedTypes
    <2>2. /\ e.cs = Ctx.cs /\ e.dhIsActive = Ctx.dhIsActive
          /\ e.entryLevel = Ctx.entryLevel /\ e.difference = Ctx.difference
      BY <1>1 DEF Received, Contexts
    <2> HIDE DEF e
    <2>3. Framed(e, Hist)
      BY <1>3, <2>2, FramedSame
    <2>4. QED  BY <2>1, <2>3 DEF e
  <1>5. QED  BY <1>1, <1>3, <1>4

\* Answering a command whose result keeps the framing keeps the invariant.
LEMMA ExecuteFramed ==
  ASSUME TypeOK, NEW p1 \in Commands, NEW r \in Results, NEW screen \in Screens,
         Kept(r), Execute(p1, r, screen)
  PROVE  FramingInv'
  <1>1. TypeOK'
    BY ExecuteTypes
  <1>2. CASE r.status = "ok"
    <2>1. ctx' = r.c /\ hist' = r.h /\ Framed(r.c, r.h)
      BY <1>2 DEF Execute, Kept
    <2>2. Framed(ctx', hist')
      BY <2>1
    <2>3. QED  BY <1>1, <2>2 DEF FramingInv
  <1>3. CASE r.status # "ok"
    <2>1. instr' = "NONE"
      BY <1>3 DEF Execute
    <2>2. QED  BY <1>1, <2>1 DEF FramingInv, Live
  <1>4. QED  BY <1>2, <1>3

\* Every command of the host keeps the framing invariant.
LEMMA CommandFramed == FramingInv /\ Command => FramingInv'
  <1> SUFFICES ASSUME FramingInv, Command PROVE FramingInv'
    OBVIOUS
  <1>1. /\ TypeOK /\ Hist \in Histories
        /\ \A p1, p2, const : /\ Received(p1, p2, const) \in Contexts
                              /\ Framed(Received(p1, p2, const), Hist)
    BY StartFramed DEF FramingInv
  <1>2. Screens = {"none", "details", "dhStart", "dhConfirm", "finishDetails", "finishConfirm"}
    BY DEF Screens
  <1>3. CASE HandleInit
    <2> DEFINE r == InitResult(Received("INIT", 0, 0), Hist)
    <2>1. r \in Results /\ Kept(r)
      BY <1>1, InitTypes, InitFramed
    <2>2. Execute("INIT", r, "details")
      BY <1>3 DEF HandleInit
    <2> HIDE DEF r
    <2>3. QED  BY <1>1, <1>2, <2>1, <2>2, ExecuteFramed DEF Commands
  <1>4. ASSUME NEW n \in ConstLens,
               HandleAppendConstData(n)
        PROVE  FramingInv'
    <2> DEFINE r == CountedAppend(Received("APPEND_CONST_DATA", 0, n), Hist, n)
    <2>1. r \in Results /\ Kept(r)
      BY <1>1, CountedTypes, CountedFramed, Sizes
    <2>2. Execute("APPEND_CONST_DATA", r, "none")
      BY <1>4 DEF HandleAppendConstData
    <2> HIDE DEF r
    <2>3. QED  BY <1>1, <1>2, <2>1, <2>2, ExecuteFramed DEF Commands
  <1>5. CASE HandleShowMessage
    <2> DEFINE e == Received("SHOW_MESSAGE", 0, 0)
               r == Ok([e EXCEPT !.responseLength = 0], Hist)
    <2>1. e \in Contexts /\ Framed(e, Hist)
      BY <1>1
    <2>2. Execute("SHOW_MESSAGE", r, "details")
      BY <1>5 DEF HandleShowMessage
    <2> HIDE DEF e
    <2>3. r \in Results
      BY <1>1, <2>1 DEF Ok, Results, Contexts, U8
    <2>4. Framed([e EXCEPT !.responseLength = 0], Hist)
      BY <2>1, FramedSame DEF Contexts
    <2>5. Kept(r)
      BY <2>4 DEF Kept, Ok
    <2> HIDE DEF r
    <2>6. QED  BY <1>1, <1>2, <2>2, <2>3, <2>5, ExecuteFramed DEF Commands
  <1>6. ASSUME NEW v \in Values, NEW check \in Checks, NEW policy \in Policies,
               NEW blank \in BOOLEAN,
               HandleAppendData(v, check, policy, blank)
        PROVE  FramingInv'
    <2> DEFINE r == AppendDataResult(Received("APPEND_DATA", 0, <<check, policy>>), Hist, v, check, policy)
    <2>1. r \in Results /\ Kept(r)
      BY <1>1, DataTypes, DataFramed
    <2>2. Execute("APPEND_DATA", r, IF policy = "ALLOW" \/ (policy = "SHOW_IF_NONEMPTY" /\ blank)
                             THEN "none" ELSE "details")
      BY <1>6 DEF HandleAppendData
    <2> HIDE DEF r
    <2>3. QED  BY <1>1, <1>2, <2>1, <2>2, ExecuteFramed DEF Commands
  <1>7. ASSUME NEW s \in Sections,
               HandleStartCountedSection(s[1], s[2])
        PROVE  FramingInv'
    <2> DEFINE r == StartSectionResult(Received("START_COUNTED_SECTION", 0, 0), Hist, s[1], s[2])
    <2>1. r \in Results /\ Kept(r)
      BY <1>1, StartSectionTypes, StartSectionFramed, Sizes
    <2>2. Execute("START_COUNTED_SECTION", r, "none")
      BY <1>7 DEF HandleStartCountedSection
    <2> HIDE DEF r
    <2>3. QED  BY <1>1, <1>2, <2>1, <2>2, ExecuteFramed DEF Commands
  <1>8. CASE HandleEndCountedSection
    <2> DEFINE r == EndSectionResult(Received("END_COUNTED_SECTION", 0, 0), Hist)
    <2>1. r \in Results /\ Kept(r)
      BY <1>1, EndSectionTypes, EndSectionFramed
    <2>2. Execute("END_COUNTED_SECTION", r, "none")
      BY <1>8 DEF HandleEndCountedSection
    <2> HIDE DEF r
    <2>3. QED  BY <1>1, <1>2, <2>1, <2>2, ExecuteFramed DEF Commands
  <1>9. ASSUME NEW k \in Registers, NEW v \in Values,
               HandleStoreValue(k, v)
        PROVE  FramingInv'
    <2> DEFINE r == StoreResult(Received("STORE_VALUE", k, 0), Hist, k, v)
    <2>1. r \in Results /\ Kept(r)
      BY <1>1, StoreTypes, StoreFramed
    <2>2. Execute("STORE_VALUE", r, "none")
      BY <1>9 DEF HandleStoreValue
    <2> HIDE DEF r
    <2>3. QED  BY <1>1, <1>2, <2>1, <2>2, ExecuteFramed DEF Commands
  <1>10. CASE HandleStartDHEncoding
    <2> DEFINE r == StartDhResult(Received("DH_START", 0, 0), Hist)
    <2>1. r \in Results /\ Kept(r)
      BY <1>1, StartDhTypes, StartDhFramed
    <2>2. Execute("DH_START", r, "dhStart")
      BY <1>10 DEF HandleStartDHEncoding
    <2> HIDE DEF r
    <2>3. QED  BY <1>1, <1>2, <2>1, <2>2, ExecuteFramed DEF Commands
  <1>11. CASE HandleEndDHEncoding
    <2> DEFINE r == EndDhResult(Received("DH_END", 0, 0), Hist)
    <2>1. r \in Results /\ Kept(r)
      BY <1>1, EndDhTypes, EndDhFramed
    <2>2. Execute("DH_END", r, "dhConfirm")
      BY <1>11 DEF HandleEndDHEncoding
    <2> HIDE DEF r
    <2>3. QED  BY <1>1, <1>2, <2>1, <2>2, ExecuteFramed DEF Commands
  <1>12. CASE HandleFinish
    <2> DEFINE r == FinishResult(Received("FINISH", 0, 0), Hist)
    <2>1. r \in Results /\ Kept(r)
      BY <1>1, FinishTypes DEF FinishResult, Ok, Error, Kept
    <2>2. Execute("FINISH", r, "finishDetails")
      BY <1>12 DEF HandleFinish
    <2> HIDE DEF r
    <2>3. QED  BY <1>1, <1>2, <2>1, <2>2, ExecuteFramed DEF Commands
  <1>13. CASE BadRequest
    <2> DEFINE r == Error(Ctx, Hist)
    <2>1. r \in Results /\ Kept(r)
      BY StartFramed DEF Error, Results, Kept
    <2>2. Execute("BAD_REQUEST", r, "none")
      BY <1>13 DEF BadRequest
    <2> HIDE DEF r
    <2>3. QED  BY <1>1, <1>2, <2>1, <2>2, ExecuteFramed DEF Commands
  <1>14. QED
    BY <1>3, <1>4, <1>5, <1>6, <1>7, <1>8, <1>9, <1>10, <1>11, <1>12, <1>13 DEF Command

\* The user changes nothing but the screen, the answer and the end of a session.
LEMMA UserFramed == FramingInv /\ (User \/ Restart) => FramingInv'
  <1> SUFFICES ASSUME FramingInv, User \/ Restart PROVE FramingInv'
    OBVIOUS
  <1>1. TypeOK'
    BY UserTypes DEF FramingInv
  <1>2. instr' = "NONE" \/ UNCHANGED <<instr, ctx, hist>>
    BY DEF User, UserReads, UserConfirms, UserRejects, Respond, EndSession, Restart
  <1>3. CASE instr' = "NONE"
    BY <1>1, <1>3 DEF FramingInv, Live
  <1>4. CASE UNCHANGED <<instr, ctx, hist>>
    <2>1. instr' = "SIGN_TX" => Framed(ctx', hist')
      BY <1>4 DEF FramingInv, Live
    <2>2. QED  BY <1>1, <2>1 DEF FramingInv, Live
  <1>5. QED  BY <1>2, <1>3, <1>4

\* Types and framing together are an inductive invariant.
LEMMA FramingInvHolds == Spec => []FramingInv
  <1>1. Init => FramingInv
    BY FreshTypes DEF Init, TypeOK, Replies, Screens, FramingInv, Live
  <1>2. FramingInv /\ [Next]_vars => FramingInv'
    <2> SUFFICES ASSUME FramingInv, [Next]_vars PROVE FramingInv'
      OBVIOUS
    <2>1. CASE UNCHANGED vars
      <3>1. TypeOK'
        BY <2>1 DEF vars, TypeOK, FramingInv
      <3>2. instr' = "SIGN_TX" => Framed(ctx', hist')
        BY <2>1 DEF vars, FramingInv, Live
      <3>3. QED  BY <3>1, <3>2 DEF FramingInv, Live
    <2>2. QED  BY <2>1, CommandFramed, UserFramed DEF Next
  <1>3. QED  BY <1>1, <1>2, PTL DEF Spec

\* Every running section holds and still expects exactly its declared length,
\* up to the length correction an encrypted part owes the sections around it.
THEOREM Sections_Exact == Spec => []SectionsExact
  <1>1. FramingInv => SectionsExact
    BY DEF FramingInv, Framed, Exact, SectionsExact, HeldIn, Held, Owed
  <1>2. QED  BY <1>1, FramingInvHolds, PTL

\* Sections and encrypted parts nest.
THEOREM Parts_Nest == Spec => []ProperNesting
  <1>1. FramingInv => ProperNesting
    BY DEF FramingInv, Framed, Nested, ProperNesting
  <1>2. QED  BY <1>1, FramingInvHolds, PTL
=============================================================================
