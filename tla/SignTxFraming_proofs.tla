------------------------- MODULE SignTxFraming_proofs -------------------------
(***************************************************************************)
(* Transaction signing implements the framing it promises (TxFraming), and *)
(* returns every finished block of an encrypted part that has no append of *)
(* more than 176 bytes, for every set of values, checks, sections and      *)
(* allowed sequences and every bound.                                      *)
(***************************************************************************)
EXTENDS SignTxRelease_proofs

-----------------------------------------------------------------------------
(* What a handler does to the framing, from a context and a history (c, h) *)
(* to the next (e, g): the steps of TxFraming, field by field, without     *)
(* what they say about full sections and signatures.                       *)

Grows(c, h, g) ==
  /\ g.out >= h.out /\ g.plain >= h.plain
  /\ c.dhIsActive \/ g.plain = h.plain
SameStack(c, h, e, g) ==
  /\ e.cs.currentLevel = c.cs.currentLevel
  /\ g.start = h.start /\ g.declared = h.declared /\ g.inDh = h.inDh

Adds(c, h, e, g) ==
  Grows(c, h, g) /\ SameStack(c, h, e, g) /\ e.dhIsActive = c.dhIsActive
OpensSection(c, h, e, g) ==
  LET k == c.cs.currentLevel + 1
  IN  /\ k <= MAX_NESTED
      /\ Grows(c, h, g)
      /\ e.dhIsActive = c.dhIsActive /\ e.cs.currentLevel = k
      /\ g.start = [h.start EXCEPT ![k] = IF c.dhIsActive THEN g.plain ELSE g.out]
      /\ g.declared = [h.declared EXCEPT ![k] = g.declared[k]]
      /\ g.inDh = [h.inDh EXCEPT ![k] = c.dhIsActive]
ClosesSection(c, h, e, g) ==
  LET k == c.cs.currentLevel
  IN  /\ k > 0
      /\ h.inDh[k] = c.dhIsActive
      /\ (IF c.dhIsActive THEN h.plain ELSE h.out) - h.start[k] = h.declared[k]
      /\ e.dhIsActive = c.dhIsActive /\ e.cs.currentLevel = k - 1
      /\ g.out = h.out /\ g.plain = h.plain
      /\ g.start = [h.start EXCEPT ![k] = 0]
      /\ g.declared = [h.declared EXCEPT ![k] = 0]
      /\ g.inDh = [h.inDh EXCEPT ![k] = FALSE]
OpensEncrypted(c, h, e, g) ==
  /\ c.dhIsActive = FALSE /\ e.dhIsActive = TRUE
  /\ SameStack(c, h, e, g)
  /\ g.out >= h.out /\ g.plain = 0
ClosesEncrypted(c, h, e, g) ==
  /\ c.dhIsActive = TRUE /\ e.dhIsActive = FALSE
  /\ \A i \in 1..c.cs.currentLevel : ~h.inDh[i]
  /\ SameStack(c, h, e, g)
  /\ g.out >= h.out /\ g.plain = h.plain

Moves(c, h, r) ==
  r.status = "ok" => \/ Adds(c, h, r.c, r.h)
                     \/ OpensSection(c, h, r.c, r.h)
                     \/ ClosesSection(c, h, r.c, r.h)
                     \/ OpensEncrypted(c, h, r.c, r.h)
                     \/ ClosesEncrypted(c, h, r.c, r.h)

-----------------------------------------------------------------------------
(* The handlers.                                                           *)

\* Appending adds, as plain text or as transaction bytes.
LEMMA AppendedMoves ==
  ASSUME NEW c \in Contexts, NEW h \in Histories, NEW n \in Nat,
         NEW r, r = Appended(c, h, n), r.status = "ok"
  PROVE  Adds(c, h, r.c, r.h) /\ r.c.cs = c.cs
  <1> DEFINE w == AppendWritten(c.dh, n)
             k == w % U8
             d == (c.difference + k - n) % U16
             dh == AfterAppend(c.dh, n)
             long == n > LONGEST_RETURNED
  <1>1. /\ h.out \in Nat /\ h.plain \in Nat /\ c.dhIsActive \in BOOLEAN
    BY Fields
  <1>2. k \in Nat
    <2>1. w \in Nat
      BY EncoderTypes DEF Contexts
    <2> HIDE DEF w
    <2>2. QED  BY <2>1 DEF U8
  <1>3. CASE ~c.dhIsActive
    <2>1. r = Ok([c EXCEPT !.responseLength = 0], [h EXCEPT !.out = @ + n])
      BY <1>3 DEF Appended
    <2>2. r.c.cs = c.cs /\ r.c.dhIsActive = c.dhIsActive /\ SameStack(c, h, r.c, r.h)
          /\ r.h.out = h.out + n /\ r.h.plain = h.plain
      BY <2>1 DEF Ok, Contexts, Histories, SameStack
    <2>3. QED  BY <1>1, <2>2 DEF Adds, Grows
  <1>4. CASE c.dhIsActive
    <2>1. r = Ok([c EXCEPT !.dh = AfterAppend(@, n), !.responseLength = k, !.difference = d],
                 [h EXCEPT !.out = @ + k, !.plain = @ + n, !.made = @ + w, !.long = @ \/ long])
      <3>1. Error(c, h).status # "ok" /\ Crash(c, h).status # "ok"
        BY DEF Error, Crash
      <3>2. QED  BY <1>4, <3>1 DEF Appended
    <2> HIDE DEF k, d, w, long
    <2>2. /\ r.c = [c EXCEPT !.dh = dh, !.responseLength = k, !.difference = d]
          /\ r.h = [h EXCEPT !.out = @ + k, !.plain = @ + n, !.made = @ + w, !.long = @ \/ long]
      BY <2>1 DEF Ok
    <2> HIDE DEF dh
    <2>3. r.c.cs = c.cs /\ r.c.dhIsActive = c.dhIsActive
      BY <2>2 DEF Contexts
    <2>4. /\ r.h.start = h.start /\ r.h.declared = h.declared /\ r.h.inDh = h.inDh
          /\ r.h.out = h.out + k /\ r.h.plain = h.plain + n
      BY <2>2 DEF Histories
    <2>5. QED  BY <1>1, <1>2, <1>4, <2>3, <2>4 DEF Adds, Grows, SameStack
  <1>5. QED  BY <1>1, <1>3, <1>4

\* So does counting and appending.
LEMMA CountedMoves ==
  ASSUME NEW c \in Contexts, NEW h \in Histories, NEW n \in Nat
  PROVE  Moves(c, h, CountedAppend(c, h, n))
  <1> DEFINE e == [c EXCEPT !.cs = CsProcess(@, n)]
             r == Appended(e, h, n)
  <1>1. CASE ~CsCanProcess(c.cs, n)
    BY <1>1 DEF CountedAppend, Error, Moves
  <1>2. CASE CsCanProcess(c.cs, n)
    <2>1. CountedAppend(c, h, n) = r
      BY <1>2 DEF CountedAppend
    <2>2. /\ e \in Contexts /\ e.dhIsActive = c.dhIsActive
          /\ e.cs.currentLevel = c.cs.currentLevel
      BY SectionTypes DEF Contexts
    <2> HIDE DEF e
    <2>3. r.status = "ok" => Adds(e, h, r.c, r.h)
      BY <2>2, AppendedMoves
    <2> HIDE DEF r
    <2>4. QED  BY <2>1, <2>2, <2>3 DEF Moves, Adds, Grows, SameStack
  <1>3. QED  BY <1>1, <1>2

\* A step that leaves the framing's fields alone adds nothing.
LEMMA NothingMoves ==
  ASSUME NEW c, NEW h \in Histories, NEW e, NEW g, SameStack(c, h, e, g),
         e.dhIsActive = c.dhIsActive, g.out = h.out, g.plain = h.plain
  PROVE  Adds(c, h, e, g)
  <1>1. h.out \in Nat /\ h.plain \in Nat
    BY DEF Histories
  <1>2. QED  BY <1>1 DEF Adds, Grows

\* INIT, SHOW_MESSAGE, APPEND_DATA, STORE_VALUE and FINISH add.
LEMMA InitMoves ==
  ASSUME NEW c \in Contexts, NEW h \in Histories
  PROVE  Moves(c, h, InitResult(c, h))
  <1> DEFINE e == [c EXCEPT !.pathSet = TRUE]
  <1>1. e \in Contexts /\ e.cs = c.cs /\ e.dhIsActive = c.dhIsActive
    BY DEF Contexts
  <1> HIDE DEF e
  <1>2. Moves(e, h, CountedAppend(e, h, CHAIN_ID_LENGTH))
    BY <1>1, CountedMoves DEF CHAIN_ID_LENGTH
  <1>3. Moves(c, h, CountedAppend(e, h, CHAIN_ID_LENGTH))
    BY <1>1, <1>2 DEF Moves, Adds, OpensSection, ClosesSection, OpensEncrypted,
                      ClosesEncrypted, Grows, SameStack
  <1>4. QED  BY <1>3 DEF InitResult, Error, Moves, e

\* SHOW_MESSAGE.
LEMMA ShowMoves ==
  ASSUME NEW c \in Contexts, NEW h \in Histories
  PROVE  Moves(c, h, Ok([c EXCEPT !.responseLength = 0], h))
  <1> DEFINE e == [c EXCEPT !.responseLength = 0]
  <1>1. e.cs = c.cs /\ e.dhIsActive = c.dhIsActive
    BY DEF Contexts
  <1> HIDE DEF e
  <1>2. Adds(c, h, e, h)
    BY <1>1, NothingMoves DEF SameStack
  <1>3. QED  BY <1>2 DEF Ok, Moves, e

\* APPEND_DATA.
LEMMA DataMoves ==
  ASSUME NEW c \in Contexts, NEW h \in Histories, NEW v \in Values, NEW check, NEW policy
  PROVE  Moves(c, h, AppendDataResult(c, h, v, check, policy))
  <1> DEFINE g == Tie(h, c, check, v)
             r == CountedAppend(c, g, Size[v])
  <1>1. g \in Histories
    BY TieTypes
  <1>2. /\ g.out = h.out /\ g.plain = h.plain /\ g.start = h.start
        /\ g.declared = h.declared /\ g.inDh = h.inDh
    BY DEF Tie, Histories
  <1> HIDE DEF g
  <1>3. Moves(c, g, r)
    BY <1>1, CountedMoves, Sizes
  <1> HIDE DEF r
  <1>4. Moves(c, h, r)
    BY <1>2, <1>3 DEF Moves, Adds, OpensSection, ClosesSection, OpensEncrypted,
                      ClosesEncrypted, Grows, SameStack
  <1>5. Moves(c, h, Error(c, h)) /\ Moves(c, h, Crash(c, h))
    BY DEF Error, Crash, Moves
  <1>6. QED  BY <1>4, <1>5 DEF AppendDataResult, g, r

\* STORE_VALUE.
LEMMA StoreMoves ==
  ASSUME NEW c \in Contexts, NEW h \in Histories, NEW r \in Registers, NEW v \in Values
  PROVE  Moves(c, h, StoreResult(c, h, r, v))
  <1> DEFINE e == [c EXCEPT !.storage[r] = v, !.responseLength = 0]
             g == [h EXCEPT !.tied[r] = {v}]
  <1>1. e.cs = c.cs /\ e.dhIsActive = c.dhIsActive
    BY DEF Contexts
  <1>2. /\ g.out = h.out /\ g.plain = h.plain /\ g.start = h.start
        /\ g.declared = h.declared /\ g.inDh = h.inDh
    BY DEF Histories
  <1> HIDE DEF e, g
  <1>3. Adds(c, h, e, g)
    BY <1>1, <1>2, NothingMoves DEF SameStack
  <1>4. QED  BY <1>3 DEF StoreResult, Ok, Error, Moves, e, g

\* FINISH.
LEMMA FinishMoves ==
  ASSUME NEW c \in Contexts, NEW h \in Histories
  PROVE  Moves(c, h, FinishResult(c, h))
  <1>1. Adds(c, h, c, h)
    BY NothingMoves DEF SameStack
  <1>2. QED  BY <1>1 DEF FinishResult, Ok, Error, Moves

\* START_COUNTED_SECTION opens a section where its contents will begin.
LEMMA StartSectionMoves ==
  ASSUME NEW c \in Contexts, NEW h \in Histories, NEW declared \in Nat, NEW n \in Nat
  PROVE  Moves(c, h, StartSectionResult(c, h, declared, n))
  <1> DEFINE m       == c.cs.currentLevel
             level   == m + 1
             counted == [c EXCEPT !.cs = CsProcess(@, n)]
             begun   == [counted EXCEPT !.cs = CsBegin(@, declared)]
             r       == Appended(begun, h, n)
             at      == IF c.dhIsActive THEN r.h.plain ELSE r.h.out
             q       == [r EXCEPT !.h.start[level] = at, !.h.declared[level] = declared,
                                  !.h.inDh[level] = c.dhIsActive]
  <1>1. CASE ~CsCanProcess(c.cs, n) \/ ~CsCanBegin(c.cs)
    BY <1>1 DEF StartSectionResult, Error, Moves
  <1>2. CASE CsCanProcess(c.cs, n) /\ CsCanBegin(c.cs)
    <2>1. StartSectionResult(c, h, declared, n) = q
      BY <1>2 DEF StartSectionResult
    <2>2. m \in 0..MAX_NESTED /\ m < MAX_NESTED /\ level <= MAX_NESTED /\ level \in Levels
      BY <1>2, Fields, NestedAssumption DEF CsCanBegin, Levels
    <2>3. /\ counted \in Contexts /\ counted.cs = CsProcess(c.cs, n)
          /\ counted.cs.currentLevel = m /\ counted.dhIsActive = c.dhIsActive
      BY SectionTypes DEF Contexts
    <2> HIDE DEF counted
    <2>4. /\ begun \in Contexts /\ begun.cs.currentLevel = level
          /\ begun.dhIsActive = c.dhIsActive
      <3>1. CsCanBegin(counted.cs)
        BY <1>2, <2>3 DEF CsCanBegin
      <3>2. CsBegin(counted.cs, declared) \in CountedSections
        BY <2>3, <3>1, Fields, SectionTypes
      <3>3. CsBegin(counted.cs, declared).currentLevel = level
        BY <2>3 DEF CsBegin
      <3>4. QED  BY <2>3, <3>2, <3>3 DEF Contexts
    <2> HIDE DEF begun
    <2>5. r \in Results
      BY <2>4, AppendedTypes
    <2>6. r.status = "ok" => Adds(begun, h, r.c, r.h) /\ r.c.cs = begun.cs
      BY <2>4, AppendedMoves
    <2> HIDE DEF r
    <2>7. r.c \in Contexts /\ r.h \in Histories
      BY <2>5 DEF Results
    <2> HIDE DEF level
    <2>8. /\ q.status = r.status /\ q.c = r.c
          /\ q.h.out = r.h.out /\ q.h.plain = r.h.plain
          /\ q.h.start = [r.h.start EXCEPT ![level] = at]
          /\ q.h.declared = [r.h.declared EXCEPT ![level] = declared]
          /\ q.h.inDh = [r.h.inDh EXCEPT ![level] = c.dhIsActive]
      BY <2>5, <2>7 DEF Results, Histories
    <2>9. q.h.declared[level] = declared
      BY <2>2, <2>7, <2>8 DEF Histories
    <2> HIDE DEF q
    <2> SUFFICES ASSUME q.status = "ok" PROVE OpensSection(c, h, q.c, q.h)
      BY <2>1 DEF Moves
    <2>10. /\ Grows(c, h, q.h) /\ q.c.dhIsActive = c.dhIsActive
           /\ q.c.cs.currentLevel = level
           /\ r.h.start = h.start /\ r.h.declared = h.declared /\ r.h.inDh = h.inDh
      BY <2>4, <2>6, <2>8 DEF Adds, Grows, SameStack
    <2>11. /\ q.h.start = [h.start EXCEPT ![level] = IF c.dhIsActive THEN q.h.plain ELSE q.h.out]
           /\ q.h.declared = [h.declared EXCEPT ![level] = q.h.declared[level]]
           /\ q.h.inDh = [h.inDh EXCEPT ![level] = c.dhIsActive]
      BY <2>8, <2>9, <2>10
    <2>12. QED  BY <2>2, <2>10, <2>11 DEF OpensSection, level
  <1>3. QED  BY <1>1, <1>2

\* END_COUNTED_SECTION closes one that is in the current stream and full.
LEMMA EndSectionMoves ==
  ASSUME NEW c \in Contexts, NEW h \in Histories, Framed(c, h)
  PROVE  Moves(c, h, EndSectionResult(c, h))
  <1> DEFINE m == c.cs.currentLevel
             e == [c EXCEPT !.cs = CsEnd(@), !.responseLength = 0]
             g == [h EXCEPT !.start[m] = 0, !.declared[m] = 0, !.inDh[m] = FALSE]
  <1>1. CASE ~((c.dhIsActive => c.entryLevel < m) /\ CsCanEnd(c.cs))
    BY <1>1 DEF EndSectionResult, Error, Moves
  <1>2. CASE (c.dhIsActive => c.entryLevel < m) /\ CsCanEnd(c.cs)
    <2>1. EndSectionResult(c, h) = Ok(e, g)
      BY <1>2 DEF EndSectionResult
    <2>2. /\ m \in 1..MAX_NESTED /\ m \in 1..m /\ m \in Levels /\ m > 0
          /\ c.entryLevel \in Nat /\ c.dhIsActive \in BOOLEAN /\ c.cs.count[m] = 0
      BY <1>2, Fields, NestedAssumption DEF CsCanEnd, Levels
    <2>3. e.cs.currentLevel = m - 1 /\ e.dhIsActive = c.dhIsActive
      BY DEF CsEnd, Contexts, CountedSections
    <2>4. /\ g.out = h.out /\ g.plain = h.plain
          /\ g.start = [h.start EXCEPT ![m] = 0]
          /\ g.declared = [h.declared EXCEPT ![m] = 0]
          /\ g.inDh = [h.inDh EXCEPT ![m] = FALSE]
      BY DEF Histories
    <2> HIDE DEF e, g
    <2>5. h.inDh[m] = c.dhIsActive
      <3>1. h.inDh[m] <=> c.dhIsActive /\ m > c.entryLevel
        BY <2>2 DEF Framed, Nested
      <3>2. c.dhIsActive => m > c.entryLevel
        BY <1>2, <2>2
      <3>3. h.inDh[m] \in BOOLEAN
        BY <2>2, Fields
      <3>4. QED  BY <2>2, <3>1, <3>2, <3>3
    <2>6. (IF c.dhIsActive THEN h.plain ELSE h.out) - h.start[m] = h.declared[m]
      <3>1. c.cs.count[m] + HeldIn(h, m) = Owed(c, h, m)
        BY <2>2 DEF Framed, Exact
      <3>2. /\ h.out \in Nat /\ h.plain \in Nat /\ h.start[m] \in Nat
            /\ h.declared[m] \in Nat
        BY <2>2, Fields
      <3>3. QED  BY <2>2, <2>5, <3>1, <3>2 DEF HeldIn, Owed
    <2>7. ClosesSection(c, h, e, g)
      BY <2>2, <2>3, <2>4, <2>5, <2>6 DEF ClosesSection
    <2>8. QED  BY <2>1, <2>7 DEF Ok, Moves
  <1>3. QED  BY <1>1, <1>2

\* DH_START opens an encrypted part, outside of one.
LEMMA StartDhMoves ==
  ASSUME NEW c \in Contexts, NEW h \in Histories
  PROVE  Moves(c, h, StartDhResult(c, h))
  <1> DEFINE e == [c EXCEPT !.dhIsActive = TRUE, !.entryLevel = c.cs.currentLevel, !.dh = InitDh,
                            !.responseLength = InitWritten, !.difference = InitWritten]
             g == [h EXCEPT !.out = @ + InitWritten, !.plain = 0, !.made = InitWritten,
                            !.long = FALSE]
  <1>1. CASE ~(~c.dhIsActive /\ c.pathSet)
    BY <1>1 DEF StartDhResult, Error, Moves
  <1>2. CASE ~c.dhIsActive /\ c.pathSet
    <2>1. StartDhResult(c, h) = Ok(e, g)
      BY <1>2 DEF StartDhResult
    <2>2. InitWritten \in Nat /\ h.out \in Nat /\ c.dhIsActive = FALSE
      BY <1>2, Fields DEF InitWritten, WholeBlocksOut, IV_SIZE, B64_IN, B64_OUT
    <2>3. e.cs = c.cs /\ e.dhIsActive = TRUE
      BY DEF Contexts
    <2>4. /\ g.out = h.out + InitWritten /\ g.plain = 0 /\ g.start = h.start
          /\ g.declared = h.declared /\ g.inDh = h.inDh
      BY DEF Histories
    <2> HIDE DEF e, g
    <2>5. OpensEncrypted(c, h, e, g)
      BY <2>2, <2>3, <2>4 DEF OpensEncrypted, SameStack
    <2>6. QED  BY <2>1, <2>5 DEF Ok, Moves
  <1>3. QED  BY <1>1, <1>2

\* DH_END closes it, when no section opened inside it is left.
LEMMA EndDhMoves ==
  ASSUME NEW c \in Contexts, NEW h \in Histories, Framed(c, h)
  PROVE  Moves(c, h, EndDhResult(c, h))
  <1> DEFINE w == FinalWritten(c.dh)
             d == (c.difference + w) % U16
             counted == [c EXCEPT !.cs = CsProcess(@, d), !.difference = d, !.responseLength = w]
             e == [counted EXCEPT !.dhIsActive = FALSE]
             g == [h EXCEPT !.out = @ + w, !.made = @ + w]
             refused == \/ ~c.pathSet \/ ~IntegrityOk(c.integrity) \/ ~c.dhIsActive
                        \/ c.entryLevel # c.cs.currentLevel
  <1>1. CASE refused \/ ~CsCanProcess(c.cs, d)
    BY <1>1 DEF EndDhResult, Error, Moves
  <1>2. CASE ~refused /\ CsCanProcess(c.cs, d)
    <2>1. EndDhResult(c, h) = Ok(e, g)
      BY <1>2 DEF EndDhResult
    <2>2. w \in Nat /\ h.out \in Nat /\ d \in Nat
      <3>1. w \in Nat /\ c.difference \in Nat /\ h.out \in Nat
        BY FinalTypes, Fields DEF Contexts
      <3> HIDE DEF w
      <3>2. QED  BY <3>1 DEF U16
    <2>3. c.dhIsActive = TRUE /\ c.entryLevel = c.cs.currentLevel
      BY <1>2, Fields
    <2> HIDE DEF w, d
    <2>4. e.cs.currentLevel = c.cs.currentLevel /\ e.dhIsActive = FALSE
      <3>1. CsProcess(c.cs, d).currentLevel = c.cs.currentLevel
        BY <2>2, Fields, SectionTypes
      <3>2. QED  BY <3>1 DEF Contexts
    <2>5. /\ g.out = h.out + w /\ g.plain = h.plain /\ g.start = h.start
          /\ g.declared = h.declared /\ g.inDh = h.inDh
      BY DEF Histories
    <2> HIDE DEF e, g
    <2>6. \A i \in 1..c.cs.currentLevel : ~h.inDh[i]
      <3>1. ASSUME NEW i \in 1..c.cs.currentLevel
            PROVE  ~(i > c.entryLevel)
        BY <2>3, <3>1, Fields
      <3>2. QED  BY <3>1 DEF Framed, Nested
    <2>7. ClosesEncrypted(c, h, e, g)
      BY <2>2, <2>3, <2>4, <2>5, <2>6 DEF ClosesEncrypted, SameStack
    <2>8. QED  BY <2>1, <2>7 DEF Ok, Moves
  <1>3. QED  BY <1>1, <1>2

-----------------------------------------------------------------------------
(* The refinement.                                                         *)

\* Between sessions nothing is framed.
LEMMA FreshFraming == FramingOf(FreshCtx, FreshHist) = Framing!Fresh
  BY DEF FramingOf, FreshCtx, FreshHist, CsInit, Levels, Framing!Fresh, Framing!NoSections

\* A running section expects no negative number of bytes, so it is not
\* overfull in its own stream.
LEMMA NoneOverfull ==
  ASSUME NEW c \in Contexts, NEW h \in Histories, Framed(c, h)
  PROVE  Framing!NoneOverfull(FramingOf(c, h))
  <1> SUFFICES ASSUME NEW k \in 1..c.cs.currentLevel, h.inDh[k] = c.dhIsActive
               PROVE  (IF c.dhIsActive THEN h.plain ELSE h.out) - h.start[k] <= h.declared[k]
    BY DEF Framing!NoneOverfull, Framing!Position, FramingOf
  <1>1. k \in Levels
    BY Fields, NestedAssumption DEF Levels
  <1>2. /\ h.out \in Nat /\ h.plain \in Nat /\ h.start[k] \in Nat
        /\ h.declared[k] \in Nat /\ c.cs.count[k] \in Nat /\ c.dhIsActive \in BOOLEAN
    BY <1>1, Fields
  <1>3. c.cs.count[k] + HeldIn(h, k) = Owed(c, h, k)
    BY DEF Framed, Exact
  <1>4. QED  BY <1>2, <1>3 DEF HeldIn, Owed

\* A framing by its fields.
Parts(out, plain, enc, level, start, declared, inEnc) ==
  [out |-> out, plain |-> plain, enc |-> enc, level |-> level,
   start |-> start, declared |-> declared, inEnc |-> inEnc]

\* A handler's move, seen through FramingOf, is a step of TxFraming.
LEMMA MovesImplement ==
  ASSUME NEW c, NEW h, NEW e, NEW g,
         Tx = FramingOf(c, h), Tx' = FramingOf(e, g), ~Signed',
         Framing!NoneOverfull(Tx')
  PROVE  /\ Adds(c, h, e, g) => Framing!Add
         /\ OpensSection(c, h, e, g) => Framing!OpenSection
         /\ ClosesSection(c, h, e, g) => Framing!CloseSection
         /\ OpensEncrypted(c, h, e, g) => Framing!OpenEncrypted
         /\ ClosesEncrypted(c, h, e, g) => Framing!CloseEncrypted
  <1> DEFINE t == Tx
             u == Tx'
  <1>1. /\ t = Parts(h.out, h.plain, c.dhIsActive, c.cs.currentLevel,
                     h.start, h.declared, h.inDh)
        /\ u = Parts(g.out, g.plain, e.dhIsActive, e.cs.currentLevel,
                     g.start, g.declared, g.inDh)
    BY DEF FramingOf, Parts
  <1>2. /\ t.out = h.out /\ t.plain = h.plain /\ t.enc = c.dhIsActive
        /\ t.level = c.cs.currentLevel
        /\ t.start = h.start /\ t.declared = h.declared /\ t.inEnc = h.inDh
        /\ u.out = g.out /\ u.plain = g.plain /\ u.enc = e.dhIsActive
        /\ u.level = e.cs.currentLevel
        /\ u.start = g.start /\ u.declared = g.declared /\ u.inEnc = g.inDh
    BY <1>1 DEF Parts
  <1>3. Tx = t /\ Tx' = u /\ Signed' = FALSE /\ Framing!NoneOverfull(u)
    BY DEF Signed
  <1> HIDE DEF t, u
  <1> DEFINE plainer == [t EXCEPT !.plain = u.plain]
             grown   == [plainer EXCEPT !.out = u.out]
  <1>4. grown = Parts(g.out, g.plain, c.dhIsActive, c.cs.currentLevel,
                      h.start, h.declared, h.inDh)
    <2>1. plainer = Parts(h.out, g.plain, c.dhIsActive, c.cs.currentLevel,
                          h.start, h.declared, h.inDh)
      BY <1>1, <1>2 DEF Parts
    <2> HIDE DEF plainer
    <2>2. QED  BY <1>2, <2>1 DEF Parts
  <1>5. grown = [t EXCEPT !.plain = u.plain, !.out = u.out]
    OBVIOUS
  <1> HIDE DEF grown
  <1>6. ASSUME Adds(c, h, e, g)
        PROVE  Framing!Add
    <2>1. u = grown
      BY <1>1, <1>4, <1>6 DEF Adds, SameStack
    <2>2. u.out >= t.out /\ u.plain >= t.plain /\ (t.enc \/ u.plain = t.plain)
      BY <1>2, <1>6 DEF Adds, Grows
    <2>3. QED  BY <1>3, <1>5, <2>1, <2>2 DEF Framing!Add, Framing!MayGrow, Framing!Grown
  <1>7. ASSUME OpensSection(c, h, e, g)
        PROVE  Framing!OpenSection
    <2> DEFINE k == t.level + 1
               at == IF grown.enc THEN grown.plain ELSE grown.out
               r1 == [grown EXCEPT !.level = k]
               r2 == [r1 EXCEPT !.start[k] = at]
               r3 == [r2 EXCEPT !.declared[k] = u.declared[k]]
               r4 == [r3 EXCEPT !.inEnc[k] = t.enc]
    <2>1. /\ k <= MAX_NESTED /\ e.cs.currentLevel = k /\ e.dhIsActive = c.dhIsActive
          /\ u.out >= t.out /\ u.plain >= t.plain /\ (t.enc \/ u.plain = t.plain)
      BY <1>2, <1>7 DEF OpensSection, Grows
    <2>2. /\ g.start = [h.start EXCEPT ![k] = IF c.dhIsActive THEN g.plain ELSE g.out]
          /\ g.declared = [h.declared EXCEPT ![k] = g.declared[k]]
          /\ g.inDh = [h.inDh EXCEPT ![k] = c.dhIsActive]
      BY <1>2, <1>7 DEF OpensSection
    <2>3. at = IF c.dhIsActive THEN g.plain ELSE g.out
      BY <1>4 DEF Parts
    <2> HIDE DEF k, at
    <2>4. r1 = Parts(g.out, g.plain, c.dhIsActive, k, h.start, h.declared, h.inDh)
      BY <1>4 DEF Parts
    <2> HIDE DEF r1
    <2>5. r2 = Parts(g.out, g.plain, c.dhIsActive, k, g.start, h.declared, h.inDh)
      BY <2>2, <2>3, <2>4 DEF Parts
    <2> HIDE DEF r2
    <2>6. r3 = Parts(g.out, g.plain, c.dhIsActive, k, g.start, g.declared, h.inDh)
      BY <1>2, <2>2, <2>5 DEF Parts
    <2> HIDE DEF r3
    <2>7. r4 = Parts(g.out, g.plain, c.dhIsActive, k, g.start, g.declared, g.inDh)
      BY <1>2, <2>2, <2>6 DEF Parts
    <2> HIDE DEF r4
    <2>8. u = r4
      BY <1>1, <2>1, <2>7
    <2>9. r4 = [grown EXCEPT !.level = k, !.start[k] = at, !.declared[k] = u.declared[k],
                             !.inEnc[k] = t.enc]
      BY DEF r1, r2, r3, r4
    <2>10. QED
      BY <1>3, <1>5, <2>1, <2>8, <2>9
      DEF Framing!OpenSection, Framing!MayGrow, Framing!Grown, Framing!Position, k, at
  <1>8. ASSUME ClosesSection(c, h, e, g)
        PROVE  Framing!CloseSection
    <2> DEFINE k == t.level
               r1 == [t EXCEPT !.level = k - 1]
               r2 == [r1 EXCEPT !.start[k] = 0]
               r3 == [r2 EXCEPT !.declared[k] = 0]
               r4 == [r3 EXCEPT !.inEnc = g.inDh]
    <2>1. /\ k > 0 /\ t.inEnc[k] = t.enc
          /\ (IF t.enc THEN t.plain ELSE t.out) - t.start[k] = t.declared[k]
      BY <1>2, <1>8 DEF ClosesSection
    <2>2. /\ e.cs.currentLevel = k - 1 /\ e.dhIsActive = c.dhIsActive
          /\ g.out = h.out /\ g.plain = h.plain
          /\ g.start = [h.start EXCEPT ![k] = 0]
          /\ g.declared = [h.declared EXCEPT ![k] = 0]
          /\ g.inDh = [h.inDh EXCEPT ![k] = FALSE]
      BY <1>2, <1>8 DEF ClosesSection
    <2> HIDE DEF k
    <2>3. r1 = Parts(g.out, g.plain, c.dhIsActive, k - 1, h.start, h.declared, h.inDh)
      BY <1>1, <2>2 DEF Parts
    <2> HIDE DEF r1
    <2>4. r2 = Parts(g.out, g.plain, c.dhIsActive, k - 1, g.start, h.declared, h.inDh)
      BY <2>2, <2>3 DEF Parts
    <2> HIDE DEF r2
    <2>5. r3 = Parts(g.out, g.plain, c.dhIsActive, k - 1, g.start, g.declared, h.inDh)
      BY <2>2, <2>4 DEF Parts
    <2> HIDE DEF r3
    <2>6. r4 = Parts(g.out, g.plain, c.dhIsActive, k - 1, g.start, g.declared, g.inDh)
      BY <2>5 DEF Parts
    <2>7. r3.inEnc = h.inDh
      BY <2>5 DEF Parts
    <2>8. r4 = [r3 EXCEPT !.inEnc[k] = FALSE]
      BY <2>2, <2>7
    <2> HIDE DEF r4
    <2>9. u = r4
      BY <1>1, <2>2, <2>6
    <2>10. r4 = [t EXCEPT !.level = k - 1, !.start[k] = 0, !.declared[k] = 0, !.inEnc[k] = FALSE]
      BY <2>8 DEF r1, r2, r3
    <2>11. QED
      BY <1>3, <2>1, <2>9, <2>10 DEF Framing!CloseSection, Framing!Position, k
  <1>9. ASSUME OpensEncrypted(c, h, e, g)
        PROVE  Framing!OpenEncrypted
    <2> DEFINE r1 == [t EXCEPT !.enc = e.dhIsActive]
               r2 == [r1 EXCEPT !.plain = 0]
               r3 == [r2 EXCEPT !.out = u.out]
    <2>1. r1 = Parts(h.out, h.plain, e.dhIsActive, c.cs.currentLevel, h.start, h.declared, h.inDh)
      BY <1>1 DEF Parts
    <2> HIDE DEF r1
    <2>2. r2 = Parts(h.out, 0, e.dhIsActive, c.cs.currentLevel, h.start, h.declared, h.inDh)
      BY <2>1 DEF Parts
    <2> HIDE DEF r2
    <2>3. r3 = Parts(g.out, 0, e.dhIsActive, c.cs.currentLevel, h.start, h.declared, h.inDh)
      BY <1>2, <2>2 DEF Parts
    <2> HIDE DEF r3
    <2>4. u = r3
      BY <1>1, <1>9, <2>3 DEF OpensEncrypted, SameStack
    <2>5. r3 = [t EXCEPT !.enc = TRUE, !.plain = 0, !.out = u.out]
      BY <1>9 DEF OpensEncrypted, r1, r2, r3
    <2>6. ~t.enc /\ u.out >= t.out
      BY <1>2, <1>9 DEF OpensEncrypted
    <2>7. QED  BY <1>3, <2>4, <2>5, <2>6 DEF Framing!OpenEncrypted
  <1>10. ASSUME ClosesEncrypted(c, h, e, g)
         PROVE  Framing!CloseEncrypted
    <2> DEFINE r1 == [t EXCEPT !.enc = e.dhIsActive]
               r2 == [r1 EXCEPT !.out = u.out]
    <2>1. r1 = Parts(h.out, h.plain, e.dhIsActive, c.cs.currentLevel, h.start, h.declared, h.inDh)
      BY <1>1 DEF Parts
    <2> HIDE DEF r1
    <2>2. r2 = Parts(g.out, h.plain, e.dhIsActive, c.cs.currentLevel, h.start, h.declared, h.inDh)
      BY <1>2, <2>1 DEF Parts
    <2> HIDE DEF r2
    <2>3. u = r2
      BY <1>1, <1>10, <2>2 DEF ClosesEncrypted, SameStack
    <2>4. r2 = [t EXCEPT !.enc = FALSE, !.out = u.out]
      BY <1>10 DEF ClosesEncrypted, r1, r2
    <2>5. t.enc /\ u.out >= t.out /\ \A k \in 1..t.level : ~t.inEnc[k]
      BY <1>2, <1>10 DEF ClosesEncrypted
    <2>6. QED  BY <1>3, <2>3, <2>4, <2>5 DEF Framing!CloseEncrypted
  <1>11. QED  BY <1>6, <1>7, <1>8, <1>9, <1>10

\* While the key is shown that the transaction is to be signed with, nothing is
\* open: no command is handled between the check of FINISH and the answer.
ClosedInv ==
  ui \in {"finishDetails", "finishConfirm"} =>
    ~ctx.dhIsActive /\ ctx.cs.currentLevel = 0

\* The state of the refinement proof: the framing and the screens.
ImplInv == FramingInv /\ ReleaseInv /\ ClosedInv

\* A command is handled as its handler's move says, or gives the session up.
\* (FINISH alone could be taken for a signature, and it shows a screen first.)
LEMMA ExecuteImplements ==
  ASSUME FramingInv, FramingInv', NEW p1, NEW p2, NEW const, NEW r, NEW screen,
         Moves(Received(p1, p2, const), Hist, r), Execute(p1, r, screen),
         p1 = "FINISH" => screen # "none"
  PROVE  Framing!Next
  <1> DEFINE c == Received(p1, p2, const)
  <1>1. TypeOK /\ TypeOK'
    BY DEF FramingInv
  <1>2. c \in Contexts /\ Hist \in Histories
    BY <1>1, StartTypes, ReceivedTypes
  <1>3. Tx = FramingOf(c, Hist)
    <2>1. Ctx \in Contexts
      BY <1>1, StartTypes
    <2>2. c.dhIsActive = Ctx.dhIsActive /\ c.cs = Ctx.cs
      BY <2>1 DEF Received, Contexts
    <2> HIDE DEF c
    <2>3. Tx = FramingOf(Ctx, Hist)
      BY <1>1 DEF Tx, Live, Ctx, Hist, TypeOK
    <2>4. QED  BY <2>2, <2>3 DEF FramingOf
  <1> HIDE DEF c
  <1>4. CASE r.status = "ok"
    <2>1. ctx' = r.c /\ hist' = r.h /\ instr' = "SIGN_TX"
      BY <1>4 DEF Execute
    <2>2. Tx' = FramingOf(r.c, r.h)
      BY <2>1 DEF Tx, Live
    <2>3. ~Signed'
      BY <1>4 DEF Execute, Signed
    <2>4. Framing!NoneOverfull(Tx')
      <3>1. r.c \in Contexts /\ r.h \in Histories /\ Framed(r.c, r.h)
        BY <1>1, <2>1 DEF TypeOK, FramingInv, Live
      <3>2. QED  BY <2>2, <3>1, NoneOverfull
    <2>5. \/ Adds(c, Hist, r.c, r.h)
          \/ OpensSection(c, Hist, r.c, r.h)
          \/ ClosesSection(c, Hist, r.c, r.h)
          \/ OpensEncrypted(c, Hist, r.c, r.h)
          \/ ClosesEncrypted(c, Hist, r.c, r.h)
      BY <1>4 DEF Moves, c
    <2>6. QED  BY <1>3, <2>2, <2>3, <2>4, <2>5, MovesImplement DEF Framing!Next
  <1>5. CASE r.status # "ok"
    <2>1. instr' = "NONE" /\ reply'.status \in {"error", "reset"}
      BY <1>5 DEF Execute
    <2>2. Tx' = Framing!Fresh /\ Signed' = FALSE
      BY <2>1, FreshFraming DEF Tx, Live, Signed
    <2>3. QED  BY <2>2 DEF Framing!Next, Framing!Abandon
  <1>6. QED  BY <1>4, <1>5

\* Every command of the host is a step of TxFraming.
LEMMA CommandImplements ==
  ASSUME FramingInv, FramingInv', Command
  PROVE  Framing!Next
  <1>1. /\ Hist \in Histories
        /\ \A p1, p2, const : /\ Received(p1, p2, const) \in Contexts
                              /\ Framed(Received(p1, p2, const), Hist)
    BY StartFramed
  <1>2. CASE HandleInit
    BY <1>1, <1>2, InitMoves, ExecuteImplements DEF HandleInit
  <1>3. CASE \E n \in ConstLens : HandleAppendConstData(n)
    BY <1>1, <1>3, CountedMoves, Sizes, ExecuteImplements DEF HandleAppendConstData
  <1>4. CASE HandleShowMessage
    BY <1>1, <1>4, ShowMoves, ExecuteImplements DEF HandleShowMessage
  <1>5. CASE \E v \in Values, check \in Checks, policy \in Policies, blank \in BOOLEAN :
               HandleAppendData(v, check, policy, blank)
    BY <1>1, <1>5, DataMoves, ExecuteImplements DEF HandleAppendData
  <1>6. CASE \E s \in Sections : HandleStartCountedSection(s[1], s[2])
    BY <1>1, <1>6, StartSectionMoves, Sizes, ExecuteImplements DEF HandleStartCountedSection
  <1>7. CASE HandleEndCountedSection
    BY <1>1, <1>7, EndSectionMoves, ExecuteImplements DEF HandleEndCountedSection
  <1>8. CASE \E r \in Registers, v \in Values : HandleStoreValue(r, v)
    BY <1>1, <1>8, StoreMoves, ExecuteImplements DEF HandleStoreValue
  <1>9. CASE HandleStartDHEncoding
    BY <1>1, <1>9, StartDhMoves, ExecuteImplements DEF HandleStartDHEncoding
  <1>10. CASE HandleEndDHEncoding
    BY <1>1, <1>10, EndDhMoves, ExecuteImplements DEF HandleEndDHEncoding
  <1>11. CASE HandleFinish
    BY <1>1, <1>11, FinishMoves, ExecuteImplements DEF HandleFinish
  <1>12. CASE BadRequest
    <2>1. Moves(Received("BAD_REQUEST", 0, 0), Hist, Error(Ctx, Hist))
      BY DEF Moves, Error
    <2>2. QED  BY <1>12, <2>1, ExecuteImplements DEF BadRequest
  <1>13. QED
    BY <1>2, <1>3, <1>4, <1>5, <1>6, <1>7, <1>8, <1>9, <1>10, <1>11, <1>12 DEF Command

\* So is what the user does: the confirmation of the signature signs, any other
\* answer changes nothing, a rejection or a restart gives the session up.
LEMMA UserImplements ==
  ASSUME ImplInv, User \/ Restart
  PROVE  Framing!Next \/ UNCHANGED <<Tx, Signed>>
  <1>1. CASE UserReads
    <2>1. UNCHANGED <<instr, ctx, hist>> /\ ~Signed /\ ~Signed'
      BY <1>1 DEF UserReads, Respond, Signed, ImplInv, ReleaseInv, Releasing, FramingInv,
                  TypeOK, Replies
    <2>2. QED  BY <2>1 DEF Tx, Live, Signed
  <1>2. CASE ui = "dhConfirm" /\ Respond
    <2>1. UNCHANGED <<instr, ctx, hist>> /\ ~Signed /\ ~Signed'
      BY <1>2 DEF Respond, Signed, ImplInv, ReleaseInv, FramingInv, TypeOK, Replies
    <2>2. QED  BY <2>1 DEF Tx, Live, Signed
  <1>3. CASE ui = "finishConfirm" /\ EndSession("success", SIGNATURE_LENGTH)
    <2>1. Tx.level = 0 /\ ~Tx.enc
      BY <1>3 DEF ImplInv, ClosedInv, Tx, FramingOf, FreshCtx, CsInit
    <2>2. Tx' = Framing!Fresh
      BY <1>3, FreshFraming DEF EndSession, Tx, Live
    <2>3. Signed' = TRUE
      BY <1>3 DEF EndSession, Signed, ImplInv, ReleaseInv, FramingInv, TypeOK, Replies
    <2>4. QED  BY <2>1, <2>2, <2>3 DEF Framing!Next, Framing!Sign
  <1>4. CASE UserRejects \/ Restart
    <2>1. instr' = "NONE" /\ reply'.status \in {"error", "reset"}
      <3>1. CASE UserRejects
        BY <3>1 DEF UserRejects, EndSession, ImplInv, FramingInv, TypeOK, Replies
      <3>2. CASE Restart
        BY <3>2 DEF Restart
      <3>3. QED  BY <1>4, <3>1, <3>2
    <2>2. Tx' = Framing!Fresh /\ Signed' = FALSE
      BY <2>1, FreshFraming DEF Tx, Live, Signed
    <2>3. QED  BY <2>2 DEF Framing!Next, Framing!Abandon
  <1>5. QED  BY <1>1, <1>2, <1>3, <1>4 DEF User, UserConfirms

\* What FINISH checks holds until the user has decided.
LEMMA ClosedKept ==
  ASSUME ClosedInv, [Next]_vars
  PROVE  ClosedInv'
  <1>1. ASSUME NEW p1, NEW r, NEW screen, Execute(p1, r, screen),
               screen \notin {"finishDetails", "finishConfirm"}
        PROVE  ClosedInv'
    BY <1>1 DEF Execute, ClosedInv
  <1>2. CASE HandleFinish
    <2> DEFINE c == Received("FINISH", 0, 0)
               r == FinishResult(c, Hist)
    <2>1. Execute("FINISH", r, "finishDetails")
      BY <1>2 DEF HandleFinish
    <2>2. r.status = "ok" => ~r.c.dhIsActive /\ r.c.cs.currentLevel = 0
      BY DEF FinishResult, CsFinal, Ok, Error
    <2> HIDE DEF r
    <2>3. QED  BY <2>1, <2>2 DEF Execute, ClosedInv
  <1>3. CASE Command /\ ~HandleFinish
    <2>1. CASE HandleInit \/ HandleShowMessage
      BY <1>1, <2>1 DEF HandleInit, HandleShowMessage
    <2>2. CASE \E n \in ConstLens : HandleAppendConstData(n)
      BY <1>1, <2>2 DEF HandleAppendConstData
    <2>3. CASE \E v \in Values, check \in Checks, policy \in Policies, blank \in BOOLEAN :
                 HandleAppendData(v, check, policy, blank)
      BY <1>1, <2>3 DEF HandleAppendData
    <2>4. CASE \E s \in Sections : HandleStartCountedSection(s[1], s[2])
      BY <1>1, <2>4 DEF HandleStartCountedSection
    <2>5. CASE HandleEndCountedSection \/ BadRequest
      BY <1>1, <2>5 DEF HandleEndCountedSection, BadRequest
    <2>6. CASE \E r \in Registers, v \in Values : HandleStoreValue(r, v)
      BY <1>1, <2>6 DEF HandleStoreValue
    <2>7. CASE HandleStartDHEncoding \/ HandleEndDHEncoding
      BY <1>1, <2>7 DEF HandleStartDHEncoding, HandleEndDHEncoding
    <2>8. QED  BY <1>3, <2>1, <2>2, <2>3, <2>4, <2>5, <2>6, <2>7 DEF Command
  <1>4. CASE User \/ Restart
    BY <1>4 DEF User, UserReads, UserConfirms, UserRejects, Respond, EndSession, Restart,
                ClosedInv
  <1>5. CASE UNCHANGED vars
    BY <1>5 DEF vars, ClosedInv
  <1>6. QED  BY <1>2, <1>3, <1>4, <1>5 DEF Next

\* Transaction signing implements the framing it promises: whatever the host
\* sends and the user does, sections and encrypted parts nest, no section is
\* closed before or after its declared length, and a signature is given only
\* with nothing open.
THEOREM Framing_Kept == Spec => FramingKept
  <1>1. Init => Framing!Init
    BY FreshFraming DEF Init, Tx, Live, Signed, Framing!Init
  <1>2. Init => ClosedInv
    BY DEF Init, ClosedInv
  <1>3. ClosedInv /\ [Next]_vars => ClosedInv'
    BY ClosedKept
  <1>4. ImplInv /\ FramingInv' /\ [Next]_vars => [Framing!Next]_<<Tx, Signed>>
    <2> SUFFICES ASSUME ImplInv, FramingInv', [Next]_vars
                 PROVE  Framing!Next \/ UNCHANGED <<Tx, Signed>>
      OBVIOUS
    <2>1. CASE Command
      BY <2>1, CommandImplements DEF ImplInv
    <2>2. CASE User \/ Restart
      BY <2>2, UserImplements
    <2>3. CASE UNCHANGED vars
      BY <2>3 DEF vars, Tx, Live, Signed
    <2>4. QED  BY <2>1, <2>2, <2>3 DEF Next
  <1>5. [Framing!Next]_<<Tx, Signed>> => [Framing!Next]_(Framing!vars)
    BY DEF Framing!vars
  <1>6. QED
    BY <1>1, <1>2, <1>3, <1>4, <1>5, FramingInvHolds, ReleaseInvHolds, PTL
    DEF Spec, ImplInv, FramingKept, Framing!Spec

-----------------------------------------------------------------------------
(* Finished blocks.                                                        *)

Returned(c, h) == c.dhIsActive /\ ~h.long => c.difference + h.plain = h.made
ReturnedInv == Live => Returned(ctx, hist)
KeepsReturned(r) == r.status = "ok" /\ r.h.out <= MaxBytes => Returned(r.c, r.h)

\* What a short append writes fits 8 bits.
LEMMA ShortWritten ==
  ASSUME NEW d \in Encoders, NEW n \in Nat, n <= LONGEST_RETURNED
  PROVE  AppendWritten(d, n) \in Nat /\ AppendWritten(d, n) % U8 = AppendWritten(d, n)
  <1> DEFINE blocks == BlocksOf(d, n)
             w == AppendWritten(d, n)
  <1>1. d.cacheLength \in 0..15 /\ d.base64Len \in 0..2
    BY DEF Encoders, AES_BLOCK_SIZE, B64_IN
  <1>2. blocks \in Nat /\ blocks <= 11
    BY <1>1 DEF BlocksOf, AES_BLOCK_SIZE, LONGEST_RETURNED
  <1>3. w = 4 * ((d.base64Len + 16 * blocks) \div 3)
    BY DEF AppendWritten, WholeBlocksOut, AES_BLOCK_SIZE, B64_IN, B64_OUT
  <1> HIDE DEF blocks
  <1>4. w \in 0..U8 - 1
    BY <1>1, <1>2, <1>3 DEF U8
  <1> HIDE DEF w
  <1>5. w \in Nat
    BY <1>4 DEF U8
  <1>6. QED  BY <1>4, <1>5, NoWrap DEF w

\* Appending returns all that the encoder makes of it.
LEMMA AppendedReturned ==
  ASSUME NEW c \in Contexts, NEW h \in Histories, NEW n \in Nat, Small(c, h), Returned(c, h)
  PROVE  KeepsReturned(Appended(c, h, n))
  <1> DEFINE r == Appended(c, h, n)
             w == AppendWritten(c.dh, n)
  <1> SUFFICES ASSUME r.status = "ok", r.h.out <= MaxBytes, r.c.dhIsActive, ~r.h.long
               PROVE  r.c.difference + r.h.plain = r.h.made
    BY DEF KeepsReturned, Returned
  <1>1. Ahead(c, h, n, 0) /\ 0 \in 0..MAX_NESTED
    BY NestedAssumption DEF Ahead
  <1>2. /\ r.c.dhIsActive = c.dhIsActive
        /\ c.dhIsActive => r.c.difference + r.h.plain = c.difference + h.plain + (w % U8)
    <2>1. r = Appended(c, h, n)
      OBVIOUS
    <2> HIDE DEF r
    <2>2. /\ SameFraming(r, c, h)
          /\ c.dhIsActive => r.c.difference + r.h.plain = c.difference + h.plain + (w % U8)
      BY <1>1, <2>1, AppendedExact
    <2>3. QED  BY <2>2 DEF SameFraming
  <1> DEFINE d == (c.difference + (w % U8) - n) % U16
             k == w % U8
             long == n > LONGEST_RETURNED
  <1>3. r.h = [h EXCEPT !.out = @ + k, !.plain = @ + n, !.made = @ + w, !.long = @ \/ long]
    <2>1. Error(c, h).status # "ok" /\ Crash(c, h).status # "ok"
      BY DEF Error, Crash
    <2>2. r = Ok([c EXCEPT !.dh = AfterAppend(@, n), !.responseLength = k, !.difference = d],
                 [h EXCEPT !.out = @ + k, !.plain = @ + n, !.made = @ + w, !.long = @ \/ long])
      BY <1>2, <2>1 DEF Appended
    <2> HIDE DEF r, k, d, w, long
    <2>3. QED  BY <2>2 DEF Ok
  <1>4. r.h.made = h.made + w /\ ~h.long /\ ~long
    <2> HIDE DEF r, k, w, long
    <2>1. r.h.made = h.made + w
      BY <1>3 DEF Histories
    <2>2. r.h.long = (h.long \/ long)
      BY <1>3 DEF Histories
    <2>3. QED  BY <2>1, <2>2
  <1>5. n <= LONGEST_RETURNED
    BY <1>4 DEF LONGEST_RETURNED
  <1>6. w \in Nat /\ w % U8 = w
    BY <1>5, ShortWritten DEF Contexts
  <1> HIDE DEF r, w, k
  <1>7. c.difference + h.plain = h.made
    BY <1>2, <1>4 DEF Returned
  <1>8. QED  BY <1>2, <1>4, <1>6, <1>7

\* So does counting and appending.
LEMMA CountedReturned ==
  ASSUME NEW c \in Contexts, NEW h \in Histories, NEW n \in Nat, Small(c, h), Returned(c, h)
  PROVE  KeepsReturned(CountedAppend(c, h, n))
  <1> DEFINE e == [c EXCEPT !.cs = CsProcess(@, n)]
  <1>1. e \in Contexts /\ e.dhIsActive = c.dhIsActive /\ e.difference = c.difference
    BY SectionTypes DEF Contexts
  <1> HIDE DEF e
  <1>2. Small(e, h) /\ Returned(e, h)
    BY <1>1 DEF Small, Returned
  <1>3. KeepsReturned(Appended(e, h, n))
    BY <1>1, <1>2, AppendedReturned
  <1>4. QED  BY <1>3 DEF CountedAppend, Error, KeepsReturned, e

\* INIT, whose 32 bytes are never encrypted, and APPEND_DATA.
LEMMA InitReturned ==
  ASSUME NEW c \in Contexts, NEW h \in Histories, Small(c, h), Returned(c, h)
  PROVE  KeepsReturned(InitResult(c, h))
  <1> DEFINE e == [c EXCEPT !.pathSet = TRUE]
  <1>1. e \in Contexts /\ e.dhIsActive = c.dhIsActive /\ e.difference = c.difference
    BY DEF Contexts
  <1> HIDE DEF e
  <1>2. Small(e, h) /\ Returned(e, h)
    BY <1>1 DEF Small, Returned
  <1>3. CHAIN_ID_LENGTH \in Nat
    BY DEF CHAIN_ID_LENGTH
  <1>4. KeepsReturned(CountedAppend(e, h, CHAIN_ID_LENGTH))
    BY <1>1, <1>2, <1>3, CountedReturned
  <1>5. QED  BY <1>4 DEF InitResult, Error, KeepsReturned, e

\* APPEND_DATA.
LEMMA DataReturned ==
  ASSUME NEW c \in Contexts, NEW h \in Histories, NEW v \in Values, NEW check, NEW policy,
         Small(c, h), Returned(c, h)
  PROVE  KeepsReturned(AppendDataResult(c, h, v, check, policy))
  <1> DEFINE g == Tie(h, c, check, v)
  <1>1. g \in Histories
    BY TieTypes
  <1>2. g.out = h.out /\ g.plain = h.plain /\ g.made = h.made /\ g.long = h.long
    BY DEF Tie, Histories
  <1> HIDE DEF g
  <1>3. Small(c, g) /\ Returned(c, g)
    BY <1>2 DEF Small, Returned
  <1>4. KeepsReturned(CountedAppend(c, g, Size[v]))
    BY <1>1, <1>3, CountedReturned, Sizes
  <1>5. KeepsReturned(Error(c, h)) /\ KeepsReturned(Crash(c, h))
    BY DEF Error, Crash, KeepsReturned
  <1>6. QED  BY <1>4, <1>5 DEF AppendDataResult, g

\* START_COUNTED_SECTION, which appends the section's length.
LEMMA StartSectionReturned ==
  ASSUME NEW c \in Contexts, NEW h \in Histories, NEW declared \in Nat, NEW n \in Nat,
         Small(c, h), Returned(c, h)
  PROVE  KeepsReturned(StartSectionResult(c, h, declared, n))
  <1> DEFINE counted == [c EXCEPT !.cs = CsProcess(@, n)]
             opened == [counted EXCEPT !.cs = CsBegin(@, declared)]
             r == Appended(opened, h, n)
             level == c.cs.currentLevel + 1
             result == [r EXCEPT !.h.start[level] = IF c.dhIsActive THEN r.h.plain ELSE r.h.out,
                                 !.h.declared[level] = declared,
                                 !.h.inDh[level] = c.dhIsActive]
  <1>1. CASE ~CsCanProcess(c.cs, n) \/ ~CsCanBegin(c.cs)
    BY <1>1 DEF StartSectionResult, KeepsReturned, Error
  <1>2. CASE CsCanProcess(c.cs, n) /\ CsCanBegin(c.cs)
    <2>1. /\ counted \in Contexts /\ CsCanBegin(counted.cs)
          /\ counted.dhIsActive = c.dhIsActive /\ counted.difference = c.difference
      BY <1>2, SectionTypes DEF Contexts, CsCanBegin
    <2> HIDE DEF counted
    <2>2. /\ opened \in Contexts
          /\ opened.dhIsActive = c.dhIsActive /\ opened.difference = c.difference
      BY <2>1, SectionTypes DEF Contexts
    <2> HIDE DEF opened
    <2>3. Small(opened, h) /\ Returned(opened, h)
      BY <2>2 DEF Small, Returned
    <2>4. r \in Results /\ KeepsReturned(r)
      BY <2>2, <2>3, AppendedTypes, AppendedReturned
    <2> HIDE DEF r
    <2>5. /\ result.status = r.status /\ result.c = r.c /\ result.h.out = r.h.out
          /\ result.h.plain = r.h.plain /\ result.h.made = r.h.made /\ result.h.long = r.h.long
      BY <2>4 DEF Results, Histories
    <2>6. StartSectionResult(c, h, declared, n) = result
      BY <1>2 DEF StartSectionResult, r, opened, counted
    <2> HIDE DEF result
    <2>7. QED  BY <2>4, <2>5, <2>6 DEF KeepsReturned, Returned
  <1>3. QED  BY <1>1, <1>2

\* The other commands return nothing, or begin or end the encrypted part.
LEMMA OthersReturned ==
  ASSUME NEW c \in Contexts, NEW h \in Histories, Returned(c, h)
  PROVE  /\ KeepsReturned(Ok([c EXCEPT !.responseLength = 0], h))
         /\ KeepsReturned(EndSectionResult(c, h))
         /\ \A r \in Registers, v \in Values : KeepsReturned(StoreResult(c, h, r, v))
         /\ KeepsReturned(StartDhResult(c, h))
         /\ KeepsReturned(EndDhResult(c, h))
         /\ KeepsReturned(FinishResult(c, h))
  <1>1. KeepsReturned(Ok([c EXCEPT !.responseLength = 0], h))
    BY DEF Ok, KeepsReturned, Returned, Contexts
  <1>2. KeepsReturned(EndSectionResult(c, h))
    BY DEF EndSectionResult, Ok, Error, KeepsReturned, Returned, Contexts, Histories
  <1>3. ASSUME NEW r \in Registers, NEW v \in Values
        PROVE  KeepsReturned(StoreResult(c, h, r, v))
    BY DEF StoreResult, Ok, Error, KeepsReturned, Returned, Contexts, Histories
  <1>4. KeepsReturned(StartDhResult(c, h))
    <2>1. InitWritten \in Nat
      BY DEF InitWritten, WholeBlocksOut, IV_SIZE, B64_IN, B64_OUT
    <2>2. QED
      BY <2>1 DEF StartDhResult, Ok, Error, KeepsReturned, Returned, Contexts, Histories
  <1>5. KeepsReturned(EndDhResult(c, h))
    BY DEF EndDhResult, Ok, Error, KeepsReturned, Returned, Contexts
  <1>6. KeepsReturned(FinishResult(c, h))
    BY DEF FinishResult, Ok, Error, KeepsReturned
  <1>7. QED  BY <1>1, <1>2, <1>3, <1>4, <1>5, <1>6

\* A handler that returns what is due, executed.
LEMMA ExecuteReturned ==
  ASSUME NEW p1, NEW r, NEW screen, KeepsReturned(r), Execute(p1, r, screen)
  PROVE  ReturnedInv'
  BY DEF Execute, KeepsReturned, ReturnedInv, Returned, Live

\* Every command returns what is due.
LEMMA CommandReturned ==
  ASSUME FramingInv, ReturnedInv, Command
  PROVE  ReturnedInv'
  <1>1. /\ Hist \in Histories
        /\ \A p1, p2, const : /\ Received(p1, p2, const) \in Contexts
                              /\ Small(Received(p1, p2, const), Hist)
    BY StartFramed DEF Framed
  <1>2. ASSUME NEW p1, NEW p2, NEW const
        PROVE  Returned(Received(p1, p2, const), Hist)
    <2>1. Ctx \in Contexts
      BY StartFramed
    <2>2. Returned(Ctx, Hist)
      BY DEF FramingInv, TypeOK, ReturnedInv, Live, Ctx, Hist, FreshCtx, Returned
    <2>3. /\ Received(p1, p2, const).dhIsActive = Ctx.dhIsActive
          /\ Received(p1, p2, const).difference = Ctx.difference
      BY <2>1 DEF Received, Contexts
    <2>4. QED  BY <2>2, <2>3 DEF Returned
  <1>3. CASE HandleInit
    BY <1>1, <1>2, <1>3, InitReturned, ExecuteReturned DEF HandleInit
  <1>4. CASE \E n \in ConstLens : HandleAppendConstData(n)
    BY <1>1, <1>2, <1>4, Sizes, CountedReturned, ExecuteReturned
    DEF HandleAppendConstData
  <1>5. CASE HandleShowMessage
    BY <1>1, <1>2, <1>5, OthersReturned, ExecuteReturned DEF HandleShowMessage
  <1>6. CASE \E v \in Values, check \in Checks, policy \in Policies, blank \in BOOLEAN :
               HandleAppendData(v, check, policy, blank)
    BY <1>1, <1>2, <1>6, DataReturned, ExecuteReturned DEF HandleAppendData
  <1>7. CASE \E s \in Sections : HandleStartCountedSection(s[1], s[2])
    BY <1>1, <1>2, <1>7, Sizes, StartSectionReturned, ExecuteReturned
    DEF HandleStartCountedSection
  <1>8. CASE HandleEndCountedSection
    BY <1>1, <1>2, <1>8, OthersReturned, ExecuteReturned DEF HandleEndCountedSection
  <1>9. CASE \E r \in Registers, v \in Values : HandleStoreValue(r, v)
    BY <1>1, <1>2, <1>9, OthersReturned, ExecuteReturned DEF HandleStoreValue
  <1>10. CASE HandleStartDHEncoding
    BY <1>1, <1>2, <1>10, OthersReturned, ExecuteReturned DEF HandleStartDHEncoding
  <1>11. CASE HandleEndDHEncoding
    BY <1>1, <1>2, <1>11, OthersReturned, ExecuteReturned DEF HandleEndDHEncoding
  <1>12. CASE HandleFinish
    BY <1>1, <1>2, <1>12, OthersReturned, ExecuteReturned DEF HandleFinish
  <1>13. CASE BadRequest
    BY <1>13, ExecuteReturned DEF BadRequest, Error, KeepsReturned
  <1>14. QED
    BY <1>3, <1>4, <1>5, <1>6, <1>7, <1>8, <1>9, <1>10, <1>11, <1>12, <1>13 DEF Command

\* Every finished cipher text block of an encrypted part has been returned and
\* appended, at every moment, until an append of more than 176 bytes in it: up
\* to there the characters of an append fit the 8 bits of responseLength.
THEOREM Blocks_Returned == Spec => []FinishedBlocksReturned
  <1>1. Init => ReturnedInv
    BY DEF Init, ReturnedInv, Live
  <1>2. FramingInv /\ ReturnedInv /\ [Next]_vars => ReturnedInv'
    <2> SUFFICES ASSUME FramingInv, ReturnedInv, [Next]_vars PROVE ReturnedInv'
      OBVIOUS
    <2>1. CASE Command
      BY <2>1, CommandReturned
    <2>2. CASE User \/ Restart
      BY <2>2 DEF User, UserReads, UserConfirms, UserRejects, Respond, EndSession, Restart,
                  ReturnedInv, Returned, Live
    <2>3. CASE UNCHANGED vars
      BY <2>3 DEF vars, ReturnedInv, Returned, Live
    <2>4. QED  BY <2>1, <2>2, <2>3 DEF Next
  <1>3. ReturnedInv => FinishedBlocksReturned
    BY DEF ReturnedInv, Returned, FinishedBlocksReturned
  <1>4. QED  BY <1>1, <1>2, <1>3, FramingInvHolds, PTL DEF Spec
=============================================================================
