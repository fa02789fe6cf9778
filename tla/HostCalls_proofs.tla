--------------------------- MODULE HostCalls_proofs ---------------------------
(***************************************************************************)
(* Calls of the host library, for every message, every program and any     *)
(* number of calls: what they do is what Device allows a host to do; a     *)
(* program whose calls do not overlap gets back the message it sent, or an *)
(* error that has a reason, and leaves the device free; and calls that     *)
(* take the lock on the transport do not overlap.                          *)
(*                                                                         *)
(* CallsInv, the invariant behind this, says of a call that is alone where *)
(* the device is with each of its steps.                                   *)
(***************************************************************************)
EXTENDS HostCalls, Device_proofs

States == {"none", "ready", "awaiting", "returned", "threw", "abandoned"}

\* A call has the fields of NoCall, and its job is one of its caller's.
Shaped(k) ==
  k = [state |-> k.state, job |-> k.job, step |-> k.step, chunks |-> k.chunks, len |-> k.len,
       error |-> k.error, before |-> k.before, nr |-> k.nr]
CallOK(c, k) ==
  /\ Shaped(k)
  /\ k.state \in States /\ k.step \in Nat /\ k.len \in Int /\ k.chunks \in Seq(Chunks)
  /\ k.state # "none" => k.job \in Jobs[c] /\ k.step >= 1
CallsTypeOK ==
  /\ call = [c \in Callers |-> call[c]]
  /\ \A c \in Callers : CallOK(c, call[c])

\* A record with some of its fields changed.
Record(k, s, n, d, l, e) ==
  [state |-> s, job |-> k.job, step |-> n, chunks |-> d, len |-> l, error |-> e,
   before |-> k.before, nr |-> k.nr]

\* How the actions change the record of a call.
LEMMA Moved ==
  ASSUME NEW k, Shaped(k), NEW x, NEW y
  PROVE  /\ [k EXCEPT !.state = x] = Record(k, x, k.step, k.chunks, k.len, k.error)
         /\ [k EXCEPT !.step = y, !.state = x] = Record(k, x, y, k.chunks, k.len, k.error)
         /\ Throw(k, x) = Record(k, "threw", k.step, k.chunks, k.len, x)
  <1> DEFINE a == [k EXCEPT !.state = x]
             b == [k EXCEPT !.step = y]
             threw == "threw"
             c == [k EXCEPT !.state = threw]
             s == k.state
             j == k.job
             n == k.step
             d == k.chunks
             l == k.len
             e == k.error
             f == k.before
             m == k.nr
  <1>1. k = [state |-> s, job |-> j, step |-> n, chunks |-> d, len |-> l, error |-> e,
             before |-> f, nr |-> m]
    BY DEF Shaped
  <1>2. [k EXCEPT !.step = y, !.state = x] = [b EXCEPT !.state = x]
    OBVIOUS
  <1>3. Throw(k, x) = [c EXCEPT !.error = x]
    BY DEF Throw
  <1> HIDE DEF threw, s, j, n, d, l, e, f, m
  <1>4. a = [state |-> x, job |-> j, step |-> n, chunks |-> d, len |-> l, error |-> e,
             before |-> f, nr |-> m]
    BY <1>1
  <1>5. b = [state |-> s, job |-> j, step |-> y, chunks |-> d, len |-> l, error |-> e,
             before |-> f, nr |-> m]
    BY <1>1
  <1>6. c = [state |-> threw, job |-> j, step |-> n, chunks |-> d, len |-> l, error |-> e,
             before |-> f, nr |-> m]
    BY <1>1
  <1> HIDE DEF a, b, c
  <1>7. [b EXCEPT !.state = x] =
          [state |-> x, job |-> j, step |-> y, chunks |-> d, len |-> l, error |-> e,
           before |-> f, nr |-> m]
    BY <1>5
  <1>8. [c EXCEPT !.error = x] =
          [state |-> threw, job |-> j, step |-> n, chunks |-> d, len |-> l, error |-> x,
           before |-> f, nr |-> m]
    BY <1>6
  <1>9. QED
    BY <1>2, <1>3, <1>4, <1>7, <1>8, Zenon DEF Record, threw, a, s, j, n, d, l, e, f, m

LEMMA Collecting ==
  ASSUME NEW k, Shaped(k), NEW x, NEW y, NEW z
  PROVE  [k EXCEPT !.step = x, !.chunks = y, !.len = z] = Record(k, k.state, x, y, z, k.error)
  <1> DEFINE a == [k EXCEPT !.step = x]
             b == [a EXCEPT !.chunks = y]
             s == k.state
             j == k.job
             n == k.step
             d == k.chunks
             l == k.len
             e == k.error
             f == k.before
             m == k.nr
  <1>1. k = [state |-> s, job |-> j, step |-> n, chunks |-> d, len |-> l, error |-> e,
             before |-> f, nr |-> m]
    BY DEF Shaped
  <1>2. [k EXCEPT !.step = x, !.chunks = y, !.len = z] = [b EXCEPT !.len = z]
    OBVIOUS
  <1> HIDE DEF s, j, n, d, l, e, f, m
  <1>3. a = [state |-> s, job |-> j, step |-> x, chunks |-> d, len |-> l, error |-> e,
             before |-> f, nr |-> m]
    BY <1>1
  <1> HIDE DEF a
  <1>4. b = [state |-> s, job |-> j, step |-> x, chunks |-> y, len |-> l, error |-> e,
             before |-> f, nr |-> m]
    BY <1>3
  <1> HIDE DEF b
  <1>5. [b EXCEPT !.len = z] =
          [state |-> s, job |-> j, step |-> x, chunks |-> y, len |-> z, error |-> e,
           before |-> f, nr |-> m]
    BY <1>4
  <1>6. QED  BY <1>2, <1>5, Zenon DEF Record, s, j, e, f, m

\* What a call is when it starts.
Started(c, j) ==
  [state |-> "ready", job |-> j, step |-> 1, chunks |-> <<>>, len |-> 0, error |-> "none",
   before |-> call[c].state, nr |-> call[c].nr + 1]
LEMMA Starting ==
  ASSUME NEW c, NEW j
  PROVE  [NoCall EXCEPT !.state = "ready", !.job = j, !.step = 1,
                        !.before = call[c].state, !.nr = call[c].nr + 1] = Started(c, j)
  <1> DEFINE s == "ready"
             b == call[c].state
             n == call[c].nr + 1
             k1 == [NoCall EXCEPT !.state = s]
             k2 == [k1 EXCEPT !.job = j]
             k3 == [k2 EXCEPT !.step = 1]
             k4 == [k3 EXCEPT !.before = b]
             k5 == [k4 EXCEPT !.nr = n]
  <1>1. [NoCall EXCEPT !.state = "ready", !.job = j, !.step = 1,
                       !.before = call[c].state, !.nr = call[c].nr + 1] = k5
    OBVIOUS
  <1> HIDE DEF s, b, n
  <1>2. k1 = [state |-> s, job |-> None, step |-> 0, chunks |-> <<>>, len |-> 0,
              error |-> "none", before |-> "none", nr |-> 0]
    BY DEF NoCall
  <1> HIDE DEF k1
  <1>3. k2 = [state |-> s, job |-> j, step |-> 0, chunks |-> <<>>, len |-> 0,
              error |-> "none", before |-> "none", nr |-> 0]
    BY <1>2
  <1> HIDE DEF k2
  <1>4. k3 = [state |-> s, job |-> j, step |-> 1, chunks |-> <<>>, len |-> 0,
              error |-> "none", before |-> "none", nr |-> 0]
    BY <1>3
  <1> HIDE DEF k3
  <1>5. k4 = [state |-> s, job |-> j, step |-> 1, chunks |-> <<>>, len |-> 0,
              error |-> "none", before |-> b, nr |-> 0]
    BY <1>4
  <1> HIDE DEF k4
  <1>6. k5 = [state |-> s, job |-> j, step |-> 1, chunks |-> <<>>, len |-> 0,
              error |-> "none", before |-> b, nr |-> n]
    BY <1>5
  <1>7. QED  BY <1>1, <1>6 DEF Started, s, b, n

-------------------------------------------------------------------------------
\* The commands of a message, and the commands of a call.
LEMMA PartsOfCall ==
  ASSUME NEW m \in Messages
  PROVE  /\ Len(CipherText(m)) \in 1..2
         /\ CipherText(m) \in Seq(Fragments)
         /\ \A i \in 1..Len(CipherText(m)) :
              /\ CipherText(m)[i] \in UNION {Range(CipherText(n)) : n \in Messages}
              /\ CipherText(m)[i] = Part(m, i) /\ CipherText(m)[i].of = m
  <1>1. CipherText(m) = [i \in 1..Len(Parts(m)) |-> Part(m, i)] /\ Len(Parts(m)) \in 1..2
    BY PartsOfMessage
  <1>2. Len(CipherText(m)) = Len(Parts(m))
    BY <1>1
  <1>3. CipherText(m) \in Seq(Fragments)
    BY FragmentSizes
  <1>4. \A i \in 1..Len(CipherText(m)) : CipherText(m)[i] = Part(m, i)
    BY <1>1, <1>2
  <1>5. \A i \in 1..Len(CipherText(m)) : CipherText(m)[i] \in Range(CipherText(m))
    BY <1>1, <1>2 DEF Range
  <1>6. \A i \in 1..Len(CipherText(m)) : CipherText(m)[i].of = m
    <2>1. \A i : Part(m, i).of = m
      BY DEF Part
    <2>2. QED  BY <1>4, <2>1, Zenon
  <1>7. QED  BY <1>1, <1>2, <1>3, <1>4, <1>5, <1>6

LEMMA Joined ==
  ASSUME NEW S, NEW s \in Seq(S), NEW t \in Seq(S)
  PROVE  /\ s \o t \in Seq(S) /\ Len(s \o t) = Len(s) + Len(t)
         /\ \A i \in 1..Len(s) : (s \o t)[i] = s[i]
         /\ \A i \in 1..Len(t) : (s \o t)[Len(s) + i] = t[i]
  OBVIOUS

Receiving(m, i) == [ins |-> "decode", p1 |-> "RECEIVE", data |-> CipherText(m)[i]]
Decoding(j) ==
  [ins |-> "decode", p1 |-> "DECODE", data |-> [key |-> j.key, context |-> j.context]]
Exporting(j) == [ins |-> "getPublicKey", p1 |-> j.show, data |-> j.path]

LEMMA Scripts ==
  ASSUME NEW j, j.method \in Methods, Arguments(j)
  PROVE  /\ Len(Script(j)) \in Nat /\ Len(Script(j)) >= 1 /\ Script(j)[1] = VersionRequest
         /\ j.method = "getVersion" => Len(Script(j)) = 1
         /\ j.method = "getSerial" => Len(Script(j)) = 2 /\ Script(j)[2] = SerialRequest
         /\ j.method = "getPublicKey" => Len(Script(j)) = 2 /\ Script(j)[2] = Exporting(j)
         /\ j.method = "decodeMessage" =>
              LET n == Len(CipherText(j.message)) IN
              /\ n \in 1..2 /\ Len(Script(j)) = n + 2
              /\ \A i \in 1..n : Script(j)[i + 1] = Receiving(j.message, i)
              /\ Script(j)[n + 2] = Decoding(j)
  <1>1. CASE j.method = "getVersion"
    BY <1>1 DEF Script
  <1>2. CASE j.method = "getSerial"
    BY <1>2 DEF Script
  <1>3. CASE j.method = "getPublicKey"
    BY <1>3 DEF Script, Exporting
  <1>4. CASE j.method = "decodeMessage"
    <2> DEFINE m == j.message
               n == Len(CipherText(m))
               parts == [i \in 1..n |-> Receiving(m, i)]
               last == <<Decoding(j)>>
    <2>1. m \in Messages
      BY <1>4 DEF Arguments
    <2>2. n \in 1..2 /\ DOMAIN CipherText(m) = 1..n
      BY <2>1, PartsOfCall
    <2>3. Script(j) = <<VersionRequest>> \o (parts \o last)
      BY <1>4, <2>2 DEF Script, decodeMessage, Receiving, Decoding
    <2> DEFINE S == {Receiving(m, i) : i \in 1..n} \cup {Decoding(j), VersionRequest}
               first == <<VersionRequest>>
    <2> HIDE DEF m, n
    <2>4. /\ parts \in Seq(S) /\ Len(parts) = n
          /\ \A i \in 1..n : parts[i] = Receiving(m, i)
      BY <2>2
    <2> HIDE DEF parts
    <2>5. last \in Seq(S) /\ Len(last) = 1 /\ last[1] = Decoding(j)
      OBVIOUS
    <2>6. first \in Seq(S) /\ Len(first) = 1 /\ first[1] = VersionRequest
      OBVIOUS
    <2> HIDE DEF last, first, S
    <2> DEFINE rest == parts \o last
    <2>7. /\ rest \in Seq(S) /\ Len(rest) = n + 1
          /\ \A i \in 1..n : rest[i] = Receiving(m, i)
          /\ rest[n + 1] = Decoding(j)
      <3>1. /\ rest \in Seq(S) /\ Len(rest) = Len(parts) + Len(last)
            /\ \A i \in 1..Len(parts) : rest[i] = parts[i]
            /\ \A i \in 1..Len(last) : rest[Len(parts) + i] = last[i]
        <4>1. parts \in Seq(S) /\ last \in Seq(S)
          BY <2>4, <2>5
        <4>2. QED  BY <4>1, Joined
      <3> HIDE DEF rest
      <3>2. n \in Nat /\ 1 \in 1..Len(last)
        BY <2>2, <2>5
      <3>3. Len(rest) = n + 1 /\ \A i \in 1..n : rest[i] = parts[i]
        BY <2>4, <2>5, <3>1
      <3>4. rest[n + 1] = last[1]
        BY <2>4, <3>1, <3>2
      <3>5. QED  BY <2>4, <2>5, <3>1, <3>3, <3>4
    <2> HIDE DEF rest
    <2>8. /\ Len(first \o rest) = n + 2 /\ (first \o rest)[1] = VersionRequest
          /\ \A i \in 1..n + 1 : (first \o rest)[1 + i] = rest[i]
      <3>1. /\ Len(first \o rest) = Len(first) + Len(rest)
            /\ \A i \in 1..Len(first) : (first \o rest)[i] = first[i]
            /\ \A i \in 1..Len(rest) : (first \o rest)[Len(first) + i] = rest[i]
        <4>1. first \in Seq(S) /\ rest \in Seq(S)
          BY <2>6, <2>7
        <4>2. QED  BY <4>1, Joined
      <3> DEFINE both == first \o rest
      <3> HIDE DEF both
      <3>2. /\ Len(both) = Len(first) + Len(rest)
            /\ \A i \in 1..Len(first) : both[i] = first[i]
            /\ \A i \in 1..Len(rest) : both[Len(first) + i] = rest[i]
        BY <3>1, Zenon DEF both
      <3>3. 1 \in 1..Len(first) /\ Len(first) = 1 /\ Len(rest) = n + 1 /\ n \in Nat
        BY <2>2, <2>6, <2>7
      <3>4. Len(both) = n + 2 /\ both[1] = VersionRequest
        BY <2>6, <3>2, <3>3
      <3>5. \A i \in 1..n + 1 : both[1 + i] = rest[i]
        BY <3>2, <3>3
      <3>6. QED  BY <3>4, <3>5 DEF both
    <2>9. Script(j) = first \o rest
      BY <2>3 DEF first, rest
    <2>10. /\ \A i \in 1..n : Script(j)[i + 1] = Receiving(m, i)
           /\ Script(j)[n + 2] = Decoding(j)
      <3>1. \A i \in 1..n + 1 : Script(j)[i + 1] = rest[i]
        BY <2>2, <2>8, <2>9
      <3>2. Script(j)[(n + 1) + 1] = rest[n + 1]
        BY <2>2, <3>1
      <3>3. QED  BY <2>2, <2>7, <3>1, <3>2
    <2>11. QED  BY <1>4, <2>2, <2>8, <2>9, <2>10 DEF m, n
  <1>5. QED  BY <1>1, <1>2, <1>3, <1>4 DEF Methods

\* What a caller sends is a command the device knows.
LEMMA Requests ==
  ASSUME CallsTypeOK, NEW c \in Callers, Running(c)
  PROVE  Request(c) \in Apdus
  <1> DEFINE k == call[c]
             j == k.job
             s == Script(j)
  <1>1. j \in Jobs[c] /\ k.step \in Nat /\ k.step >= 1
    BY DEF CallsTypeOK, CallOK, Running
  <1>2. j.method \in Methods /\ Arguments(j)
    BY <1>1, CallsAssumption
  <1>3. Request(c) = IF k.step <= Len(s) THEN s[k.step] ELSE RestRequest
    BY DEF Request
  <1>4. VersionRequest \in Apdus /\ SerialRequest \in Apdus /\ RestRequest \in Apdus
    BY DEF VersionRequest, SerialRequest, RestRequest, Apdus
  <1> HIDE DEF j, s
  <1>5. s = Script(j)
    BY DEF s
  <1> DEFINE step == k.step
  <1> HIDE DEF k
  <1>6. step \in Nat /\ step >= 1
    BY <1>1 DEF step
  <1> HIDE DEF step
  <1>7. CASE j.method = "getVersion"
    <2>1. step <= Len(s) => s[step] = VersionRequest
      BY <1>2, <1>5, <1>6, <1>7, Scripts
    <2>2. QED  BY <1>3, <1>4, <2>1 DEF step
  <1>8. CASE j.method = "getSerial"
    <2>1. step <= Len(s) => s[step] = VersionRequest \/ s[step] = SerialRequest
      BY <1>2, <1>5, <1>6, <1>8, Scripts
    <2>2. QED  BY <1>3, <1>4, <2>1 DEF step
  <1>9. CASE j.method = "getPublicKey"
    <2>1. step <= Len(s) => s[step] = VersionRequest \/ s[step] = Exporting(j)
      BY <1>2, <1>5, <1>6, <1>9, Scripts
    <2>2. Exporting(j) \in Apdus
      BY <1>2, <1>9 DEF Arguments, Exporting, Apdus
    <2>3. QED  BY <1>3, <1>4, <2>1, <2>2 DEF step
  <1>10. CASE j.method = "decodeMessage"
    <2> DEFINE m == j.message
               n == Len(CipherText(m))
    <2>1. m \in Messages
      BY <1>2, <1>10 DEF Arguments
    <2>2. /\ n \in 1..2 /\ Len(s) = n + 2 /\ s[1] = VersionRequest
          /\ \A i \in 1..n : s[i + 1] = Receiving(m, i)
          /\ s[n + 2] = Decoding(j)
      BY <1>2, <1>5, <1>10, Scripts
    <2>3. \A i \in 1..n : Receiving(m, i) \in Apdus
      <3>1. \A i \in 1..n : CipherText(m)[i] \in UNION {Range(CipherText(x)) : x \in Messages}
        BY <2>1, PartsOfCall
      <3> HIDE DEF n, m
      <3>2. QED  BY <3>1 DEF Receiving, Apdus
    <2>4. Decoding(j) \in Apdus
      BY <1>2, <1>10 DEF Arguments, Decoding, Apdus
    <2> HIDE DEF n, m
    <2>5. step <= n + 2 => step = 1 \/ step = n + 2 \/ \E i \in 1..n : step = i + 1
      <3>1. CASE step <= n + 2 /\ step # 1 /\ step # n + 2
        <4>1. step - 1 \in 1..n /\ step = (step - 1) + 1
          BY <1>6, <2>2, <3>1
        <4>2. QED  BY <4>1
      <3>2. QED  BY <3>1
    <2>6. step <= Len(s) => s[step] \in Apdus
      BY <1>4, <2>2, <2>3, <2>4, <2>5
    <2>7. QED  BY <1>3, <1>4, <2>6 DEF step
  <1>11. QED  BY <1>2, <1>7, <1>8, <1>9, <1>10 DEF Methods

-------------------------------------------------------------------------------
\* A chunk that is under way has the form of one, ...
LEMMA ChunkUnderWay == DeviceInv /\ Carries("of") => answer.data \in Chunks
  BY DEF DeviceInv, Answerable, Carries

\* ... and however a call goes on, it is a call of the same program.
LEMMA RecordOK ==
  ASSUME NEW c, NEW k, CallOK(c, k), k.state # "none", NEW s \in States, NEW n \in Nat, n >= 1,
         NEW d \in Seq(Chunks), NEW l \in Int, NEW e
  PROVE  CallOK(c, Record(k, s, n, d, l, e))
  <1>1. /\ Shaped(Record(k, s, n, d, l, e)) /\ Record(k, s, n, d, l, e).state = s
        /\ Record(k, s, n, d, l, e).step = n /\ Record(k, s, n, d, l, e).chunks = d
        /\ Record(k, s, n, d, l, e).len = l /\ Record(k, s, n, d, l, e).job = k.job
    BY DEF Record, Shaped
  <1>2. QED  BY <1>1 DEF CallOK

\* What NextChunk makes of a chunk.
WithChunk(k, chunk, s, e) ==
  Record(k, s, k.step + 1, Append(k.chunks, chunk), k.len + (chunk.to - chunk.from), e)
LEMMA ChunkTaken ==
  ASSUME NEW c, NEW k, CallOK(c, k), NEW chunk \in Chunks
  PROVE  LET total == Head(Append(k.chunks, chunk)).total
             len == k.len + (chunk.to - chunk.from)
         IN  /\ total \in Nat /\ len \in Int /\ Append(k.chunks, chunk) \in Seq(Chunks)
             /\ chunk.total # total \/ len > total =>
                  NextChunk(k, chunk) = WithChunk(k, chunk, "threw", "ERR_INVALID_STATE")
             /\ chunk.total = total /\ len < total =>
                  NextChunk(k, chunk) = WithChunk(k, chunk, "ready", k.error)
             /\ chunk.total = total /\ len = total =>
                  NextChunk(k, chunk) = WithChunk(k, chunk, "returned", k.error)
  <1> DEFINE chunks == Append(k.chunks, chunk)
             total == Head(chunks).total
             len == k.len + (chunk.to - chunk.from)
             n == k.step + 1
             l == [k EXCEPT !.step = n, !.chunks = chunks, !.len = len]
  <1>1. chunks \in Seq(Chunks) /\ chunks # <<>>
    BY DEF CallOK
  <1>2. Head(chunks) \in Chunks
    BY <1>1
  <1>3. total \in Nat /\ chunk.total \in Nat /\ len \in Int
    BY <1>2 DEF Chunks, CallOK
  <1>4. NextChunk(k, chunk) =
          CASE chunk.total # total \/ len > total -> Throw(l, "ERR_INVALID_STATE")
            [] chunk.total = total /\ len < total -> [l EXCEPT !.state = "ready"]
            [] chunk.total = total /\ len = total -> [l EXCEPT !.state = "returned"]
    BY DEF NextChunk
  <1> HIDE DEF chunks, total, len, n
  <1>5. l = Record(k, k.state, n, chunks, len, k.error)
    <2>1. Shaped(k)
      BY DEF CallOK
    <2>2. QED  BY <2>1, Collecting, Zenon
  <1>6. /\ Shaped(l) /\ l.state = k.state /\ l.step = n /\ l.chunks = chunks
        /\ l.len = len /\ l.error = k.error
        /\ \A s, i, d, m, e : Record(l, s, i, d, m, e) = Record(k, s, i, d, m, e)
    BY <1>5 DEF Record, Shaped
  <1> HIDE DEF l
  <1>7. \A x : /\ [l EXCEPT !.state = x] = Record(k, x, n, chunks, len, k.error)
               /\ Throw(l, x) = Record(k, "threw", n, chunks, len, x)
    <2> DEFINE up(x) == [l EXCEPT !.state = x]
               threw == "threw"
    <2>1. \A x : /\ up(x) = Record(l, x, l.step, l.chunks, l.len, l.error)
                 /\ Throw(l, x) = Record(l, threw, l.step, l.chunks, l.len, x)
      BY <1>6, Moved, Zenon
    <2> HIDE DEF up, threw
    <2>2. \A x : /\ up(x) = Record(k, x, n, chunks, len, k.error)
                 /\ Throw(l, x) = Record(k, threw, n, chunks, len, x)
      BY <1>6, <2>1
    <2>3. QED  BY <2>2, Zenon DEF up, threw
  <1>8. \A s, e : WithChunk(k, chunk, s, e) = Record(k, s, n, chunks, len, e)
    BY DEF WithChunk, chunks, len, n
  <1> DEFINE next == NextChunk(k, chunk)
  <1>9. next = CASE chunk.total # total \/ len > total -> Throw(l, "ERR_INVALID_STATE")
                 [] chunk.total = total /\ len < total -> [l EXCEPT !.state = "ready"]
                 [] chunk.total = total /\ len = total -> [l EXCEPT !.state = "returned"]
    BY <1>4
  <1> HIDE DEF next
  <1>10. /\ chunk.total # total \/ len > total => next = Throw(l, "ERR_INVALID_STATE")
         /\ chunk.total = total /\ len < total => next = [l EXCEPT !.state = "ready"]
         /\ chunk.total = total /\ len = total => next = [l EXCEPT !.state = "returned"]
    BY <1>3, <1>9
  <1>11. QED
    BY <1>1, <1>3, <1>7, <1>8, <1>10 DEF next, chunks, total, len

LEMMA ContinuesOK ==
  ASSUME DeviceInv, NEW c, NEW k, CallOK(c, k), k.state # "none"
  PROVE  /\ CallOK(c, Continue(k, answer)) /\ Continue(k, answer).state # "none"
         /\ Continue(k, answer).before = k.before
  <1> DEFINE next == Continue(k, answer)
  <1>1. /\ Shaped(k) /\ k.step + 1 \in Nat /\ k.step + 1 >= 1
        /\ k.step \in Nat /\ k.step >= 1 /\ k.len \in Int /\ k.chunks \in Seq(Chunks)
        /\ "threw" \in States
    BY DEF CallOK, States
  <1>2. \A s, n, d, l, e : /\ Record(k, s, n, d, l, e).before = k.before
                           /\ Record(k, s, n, d, l, e).state = s
    BY DEF Record
  <1>3. CASE answer.code # "SUCCESS"
    <2>1. next = Throw(k, answer.code)
      BY <1>3 DEF Continue
    <2>2. next = Record(k, "threw", k.step, k.chunks, k.len, answer.code)
      BY <1>1, <2>1, Moved, Zenon
    <2> HIDE DEF next
    <2>3. QED  BY <1>1, <1>2, <2>2, RecordOK DEF next
  <1>4. CASE answer.code = "SUCCESS" /\ Carries("of")
    <2> DEFINE chunk == answer.data
               l == k.len + (chunk.to - chunk.from)
               d == Append(k.chunks, chunk)
    <2>1. chunk \in Chunks
      BY <1>4, ChunkUnderWay
    <2>2. next = NextChunk(k, chunk)
      BY <1>4 DEF Continue
    <2> HIDE DEF chunk, next
    <2>3. \E s \in States \ {"none"} : \E e : next = WithChunk(k, chunk, s, e)
      <3> DEFINE total == Head(d).total
      <3>1. total \in Nat /\ l \in Int /\ chunk.total \in Nat
        BY <2>1, ChunkTaken DEF Chunks
      <3>2. /\ chunk.total # total \/ l > total => next = WithChunk(k, chunk, "threw", "ERR_INVALID_STATE")
            /\ chunk.total = total /\ l < total => next = WithChunk(k, chunk, "ready", k.error)
            /\ chunk.total = total /\ l = total => next = WithChunk(k, chunk, "returned", k.error)
        BY <2>1, <2>2, ChunkTaken
      <3> HIDE DEF total, l
      <3>3. QED  BY <3>1, <3>2 DEF States
    <2>4. l \in Int /\ d \in Seq(Chunks)
      BY <2>1, ChunkTaken
    <2>5. \A s, e : WithChunk(k, chunk, s, e) = Record(k, s, k.step + 1, d, l, e)
      BY DEF WithChunk
    <2> HIDE DEF l, d
    <2>6. QED  BY <1>1, <1>2, <2>3, <2>4, <2>5, RecordOK DEF next
  <1>5. CASE answer.code = "SUCCESS" /\ ~Carries("of")
    <2> DEFINE s == IF k.job.method # "decodeMessage" /\ k.step = Len(Script(k.job))
                      THEN "returned" ELSE "ready"
               n == k.step + 1
    <2>1. next = [k EXCEPT !.step = n, !.state = s]
      BY <1>5 DEF Continue
    <2>2. s \in States /\ s # "none"
      BY DEF States
    <2> HIDE DEF next, s, n
    <2>3. next = Record(k, s, n, k.chunks, k.len, k.error)
      BY <1>1, <2>1, Moved, Zenon
    <2>4. QED  BY <1>1, <1>2, <2>2, <2>3, RecordOK DEF next, n
  <1>6. QED  BY <1>3, <1>4, <1>5

LEMMA Fields ==
  ASSUME NEW k, NEW s, NEW n, NEW d, NEW l, NEW e
  PROVE  LET r == Record(k, s, n, d, l, e)
         IN  /\ r.state = s /\ r.job = k.job /\ r.step = n /\ r.chunks = d /\ r.len = l
             /\ r.error = e /\ r.before = k.before
  BY DEF Record

LEMMA Thrown ==
  ASSUME NEW k, Shaped(k), NEW e
  PROVE  LET t == Throw(k, e)
         IN  /\ t.state = "threw" /\ t.job = k.job /\ t.step = k.step /\ t.error = e
             /\ t.before = k.before
  <1> DEFINE t == Throw(k, e)
             threw == "threw"
  <1>1. t = Record(k, threw, k.step, k.chunks, k.len, e)
    BY Moved, Zenon
  <1> HIDE DEF t, threw
  <1>2. /\ t.state = threw /\ t.job = k.job /\ t.step = k.step /\ t.error = e
        /\ t.before = k.before
    BY <1>1, Fields
  <1>3. QED  BY <1>2, Zenon DEF t, threw

LEMMA Restated ==
  ASSUME NEW k, Shaped(k), NEW x
  PROVE  LET u == [k EXCEPT !.state = x]
         IN  /\ u.state = x /\ u.job = k.job /\ u.step = k.step /\ u.chunks = k.chunks
             /\ u.len = k.len /\ u.error = k.error /\ u.before = k.before
  <1> DEFINE u == [k EXCEPT !.state = x]
  <1>1. u = Record(k, x, k.step, k.chunks, k.len, k.error)
    BY Moved, Zenon
  <1> HIDE DEF u
  <1>2. /\ u.state = x /\ u.job = k.job /\ u.step = k.step /\ u.chunks = k.chunks
        /\ u.len = k.len /\ u.error = k.error /\ u.before = k.before
    BY <1>1, Fields
  <1>3. QED  BY <1>2, Zenon DEF u

\* One record changes at a time.
LEMMA OneChanges ==
  ASSUME CallsTypeOK, NEW c \in Callers, NEW k, CallOK(c, k), call' = [call EXCEPT ![c] = k]
  PROVE  /\ CallsTypeOK' /\ call'[c] = k
         /\ \A d \in Callers : d # c => call'[d] = call[d]
  <1>1. call = [d \in Callers |-> call[d]] /\ \A d \in Callers : CallOK(d, call[d])
    BY DEF CallsTypeOK
  <1>2. /\ call' = [d \in Callers |-> IF d = c THEN k ELSE call[d]]
    BY <1>1
  <1>3. /\ call'[c] = k /\ \A d \in Callers : d # c => call'[d] = call[d]
        /\ call' = [d \in Callers |-> call'[d]]
    BY <1>2
  <1>4. \A d \in Callers : CallOK(d, call'[d])
    BY <1>1, <1>3
  <1>5. QED  BY <1>3, <1>4 DEF CallsTypeOK

\* The parts of the actions that change the record of a call.
LEMMA StateChanged ==
  ASSUME CallsTypeOK, NEW c \in Callers, call[c].state # "none", NEW s \in States
  PROVE  /\ CallOK(c, [call[c] EXCEPT !.state = s])
         /\ \A e : CallOK(c, Throw(call[c], e))
         /\ CallOK(c, call[c]) /\ Shaped(call[c])
  <1>1. CallOK(c, call[c]) /\ Shaped(call[c]) /\ call[c].state # "none"
    BY DEF CallsTypeOK, CallOK
  <1> DEFINE k == call[c]
             u == [k EXCEPT !.state = s]
  <1>2. /\ k.step \in Nat /\ k.step >= 1 /\ k.len \in Int /\ k.chunks \in Seq(Chunks)
        /\ "threw" \in States
    BY <1>1 DEF CallOK, States
  <1> HIDE DEF k
  <1>3. /\ u = Record(k, s, k.step, k.chunks, k.len, k.error)
        /\ \A e : Throw(k, e) = Record(k, "threw", k.step, k.chunks, k.len, e)
    BY <1>1, Moved, Zenon DEF k
  <1> HIDE DEF u
  <1>4. CallOK(c, u) /\ \A e : CallOK(c, Throw(k, e))
    BY <1>1, <1>2, <1>3, RecordOK DEF k
  <1>5. QED  BY <1>1, <1>4 DEF u, k

LEMMA StartedOK ==
  ASSUME CallsTypeOK, NEW c \in Callers, NEW j \in Jobs[c]
  PROVE  CallOK(c, Started(c, j)) /\ \A e : CallOK(c, Throw(Started(c, j), e))
  <1> DEFINE k == Started(c, j)
  <1>1. Shaped(k) /\ k.state = "ready" /\ k.job = j /\ k.step = 1 /\ k.chunks = <<>> /\ k.len = 0
    BY DEF Started, Shaped
  <1> HIDE DEF k
  <1>2. CallOK(c, k)
    BY <1>1 DEF CallOK, States
  <1>3. \A e : Throw(k, e) = Record(k, "threw", k.step, k.chunks, k.len, e)
    BY <1>1, Moved, Zenon
  <1>4. \A e : CallOK(c, Record(k, "threw", k.step, k.chunks, k.len, e))
    <2>1. /\ k.step \in Nat /\ k.step >= 1 /\ k.len \in Int /\ k.chunks \in Seq(Chunks)
          /\ "threw" \in States /\ k.state # "none"
      BY <1>1 DEF States
    <2>2. QED  BY <1>2, <2>1, RecordOK
  <1>5. QED  BY <1>2, <1>3, <1>4 DEF k

\* A call starts, or meets the lock.
LEMMA HowItStarts ==
  ASSUME NEW c, NEW j, Start(c, j)
  PROVE  /\ ~Running(c) /\ UNCHANGED vars /\ exchange' = exchange
         /\ \/ /\ j.method \in locked /\ lock # {} /\ lock' = lock
               /\ call' = [call EXCEPT ![c] = Throw(Started(c, j), "TransportError")]
            \/ /\ ~(j.method \in locked /\ lock # {})
               /\ lock' = IF j.method \in locked THEN {c} ELSE lock
               /\ call' = [call EXCEPT ![c] = Started(c, j)]
  <1> DEFINE k == [NoCall EXCEPT !.state = "ready", !.job = j, !.step = 1,
                                 !.before = call[c].state, !.nr = call[c].nr + 1]
  <1>1. k = Started(c, j)
    BY Starting
  <1>2. /\ ~Running(c) /\ UNCHANGED <<vars, exchange>>
        /\ IF j.method \in locked /\ lock # {}
             THEN call' = [call EXCEPT ![c] = Throw(k, "TransportError")] /\ UNCHANGED lock
             ELSE /\ call' = [call EXCEPT ![c] = k]
                  /\ lock' = IF j.method \in locked THEN {c} ELSE lock
    BY DEF Start
  <1> HIDE DEF k
  <1>3. QED  BY <1>1, <1>2

ExchangeOK == \A c \in exchange : c \in Callers /\ call[c].state # "none"

LEMMA TypesKept ==
  ASSUME DeviceInv, CallsTypeOK, ExchangeOK, [HostNext]_all
  PROVE  /\ CallsTypeOK' /\ ExchangeOK'
         /\ \A c \in Callers : call[c].state # "none" => call'[c].state # "none"
  <1> DEFINE Begun == \A c \in Callers : call[c].state # "none" => call'[c].state # "none"
  <1>1. ASSUME UNCHANGED host PROVE CallsTypeOK' /\ ExchangeOK' /\ Begun
    BY <1>1 DEF host, CallsTypeOK, CallOK, Shaped, ExchangeOK
  <1>2. ASSUME NEW c \in Callers, NEW k, CallOK(c, k), k.state # "none",
               call' = [call EXCEPT ![c] = k],
               exchange' \subseteq exchange \cup {c}
        PROVE  CallsTypeOK' /\ ExchangeOK' /\ Begun
    <2>1. /\ CallsTypeOK' /\ call'[c] = k
          /\ \A d \in Callers : d # c => call'[d] = call[d]
      BY <1>2, OneChanges
    <2>2. QED  BY <1>2, <2>1 DEF ExchangeOK
  <1>3. ASSUME NEW c \in Callers, NEW j \in Jobs[c], Start(c, j) PROVE CallsTypeOK' /\ ExchangeOK' /\ Begun
    <2> DEFINE k == Started(c, j)
    <2>1. \/ call' = [call EXCEPT ![c] = Throw(k, "TransportError")]
          \/ call' = [call EXCEPT ![c] = k]
      BY <1>3, HowItStarts
    <2>2. /\ CallOK(c, k) /\ CallOK(c, Throw(k, "TransportError"))
          /\ k.state # "none" /\ Throw(k, "TransportError").state # "none"
      <3>1. CallOK(c, k) /\ CallOK(c, Throw(k, "TransportError"))
        BY StartedOK
      <3>2. k.state = "ready"
        BY DEF Started
      <3> HIDE DEF k
      <3>3. Throw(k, "TransportError").state = "threw"
        <4>1. Shaped(k)
          BY <3>1 DEF CallOK
        <4>2. QED  BY <4>1, Thrown
      <3>4. QED  BY <3>1, <3>2, <3>3
    <2>3. exchange' = exchange
      BY <1>3, HowItStarts
    <2> HIDE DEF k
    <2>4. QED  BY <1>2, <2>1, <2>2, <2>3
  <1>4. ASSUME NEW c \in Callers, call[c].state # "none", NEW e
        PROVE  Throw(call[c], e).state # "none" /\ CallOK(c, Throw(call[c], e))
    <2>1. Shaped(call[c]) /\ CallOK(c, Throw(call[c], e))
      BY <1>4, StateChanged DEF States
    <2>2. Throw(call[c], e).state = "threw"
      BY <2>1, Thrown
    <2>3. QED  BY <2>1, <2>2
  <1>5. ASSUME NEW c \in Callers, call[c].state # "none", NEW x \in States, x # "none"
        PROVE  [call[c] EXCEPT !.state = x].state # "none" /\ CallOK(c, [call[c] EXCEPT !.state = x])
    <2>1. Shaped(call[c]) /\ CallOK(c, [call[c] EXCEPT !.state = x])
      BY <1>5, StateChanged
    <2>2. [call[c] EXCEPT !.state = x].state = x
      BY <2>1, Restated
    <2>3. QED  BY <1>5, <2>1, <2>2
  <1>6. ASSUME NEW c \in Callers, Send(c) PROVE CallsTypeOK' /\ ExchangeOK' /\ Begun
    <2> DEFINE u == [call[c] EXCEPT !.state = "awaiting"]
               t == Throw(call[c], "DisconnectedDevice")
    <2>1. call[c].state # "none" /\ "awaiting" \in States /\ exchange = {}
      BY <1>6 DEF Send, States
    <2>2. u.state # "none" /\ CallOK(c, u) /\ t.state # "none" /\ CallOK(c, t)
      BY <1>4, <1>5, <2>1
    <2>3. \/ call' = [call EXCEPT ![c] = u] /\ exchange' = {c}
          \/ call' = [call EXCEPT ![c] = t] /\ exchange' = exchange
      BY <1>6 DEF Send, Update
    <2> HIDE DEF u, t
    <2>4. QED  BY <1>2, <2>2, <2>3
  <1>7. ASSUME NEW c \in Callers, SendRefused(c) PROVE CallsTypeOK' /\ ExchangeOK' /\ Begun
    <2> DEFINE t == Throw(call[c], "TransportRaceCondition")
    <2>1. call[c].state # "none" /\ call' = [call EXCEPT ![c] = t] /\ exchange' = exchange
      BY <1>7 DEF SendRefused, Update
    <2>2. t.state # "none" /\ CallOK(c, t)
      BY <1>4, <2>1
    <2> HIDE DEF t
    <2>3. QED  BY <1>2, <2>1, <2>2
  <1>8. ASSUME Deliver PROVE CallsTypeOK' /\ ExchangeOK' /\ Begun
    <2>1. \/ \E c \in exchange : Update(c, Continue(call[c], answer))
          \/ UNCHANGED <<call, lock>>
      BY <1>8 DEF Deliver
    <2>2. exchange' = {}
      BY <1>8 DEF Deliver
    <2>3. ASSUME NEW c \in exchange, Update(c, Continue(call[c], answer))
          PROVE  CallsTypeOK' /\ ExchangeOK' /\ Begun
      <3> DEFINE t == Continue(call[c], answer)
      <3>1. c \in Callers /\ call[c].state # "none" /\ CallOK(c, call[c])
        BY DEF ExchangeOK, CallsTypeOK
      <3>2. CallOK(c, t) /\ t.state # "none" /\ call' = [call EXCEPT ![c] = t]
        BY <2>3, <3>1, ContinuesOK DEF Update
      <3> HIDE DEF t
      <3>3. CallsTypeOK' /\ Begun
        BY <3>1, <3>2, OneChanges
      <3>4. QED  BY <2>2, <3>3 DEF ExchangeOK
    <2>4. ASSUME UNCHANGED <<call, lock>> PROVE CallsTypeOK' /\ ExchangeOK' /\ Begun
      BY <2>2, <2>4 DEF CallsTypeOK, CallOK, Shaped, ExchangeOK
    <2>5. QED  BY <2>1, <2>3, <2>4
  <1>9. ASSUME User PROVE CallsTypeOK' /\ ExchangeOK' /\ Begun
    <2>1. \/ UNCHANGED host
          \/ /\ exchange' = {}
             /\ \E c \in exchange : Update(c, Throw(call[c], "DisconnectedDevice"))
      BY <1>9 DEF User
    <2>2. ASSUME NEW c \in exchange, exchange' = {}, Update(c, Throw(call[c], "DisconnectedDevice"))
          PROVE  CallsTypeOK' /\ ExchangeOK' /\ Begun
      <3> DEFINE t == Throw(call[c], "DisconnectedDevice")
      <3>1. c \in Callers /\ call[c].state # "none"
        BY DEF ExchangeOK
      <3>2. t.state # "none" /\ CallOK(c, t) /\ call' = [call EXCEPT ![c] = t]
        BY <1>4, <2>2, <3>1 DEF Update
      <3> HIDE DEF t
      <3>3. QED  BY <1>2, <2>2, <3>1, <3>2
    <2>3. QED  BY <1>1, <2>1, <2>2
  <1>10. ASSUME NEW c \in Callers, Abandon(c) PROVE CallsTypeOK' /\ ExchangeOK' /\ Begun
    <2> DEFINE u == [call[c] EXCEPT !.state = "abandoned"]
    <2>1. /\ call[c].state # "none" /\ "abandoned" \in States
          /\ call' = [call EXCEPT ![c] = u] /\ exchange' = {}
      BY <1>10 DEF Abandon, Running, States
    <2>2. u.state # "none" /\ CallOK(c, u)
      BY <1>5, <2>1
    <2> HIDE DEF u
    <2>3. QED  BY <1>2, <2>1, <2>2
  <1>11. QED
    BY <1>1, <1>3, <1>6, <1>7, <1>8, <1>9, <1>10 DEF HostNext, all

\* What a step of the host does to the device: what Device allows, or the restart
\* of a device that gets a command it does not await.
LEMMA HostMoves ==
  ASSUME CallsTypeOK, [HostNext]_all
  PROVE  [Next]_vars \/ (io_state # "EXPECT_IO" /\ sending = <<>> /\ Crashes)
  <1>1. ASSUME NEW c \in Callers, Send(c)
        PROVE  Next \/ (io_state # "EXPECT_IO" /\ sending = <<>> /\ Crashes)
    <2>1. Request(c) \in Apdus
      BY <1>1, Requests DEF Send, Running
    <2>2. QED  BY <1>1, <2>1 DEF Send, Next
  <1>2. CASE Deliver
    BY <1>2 DEF Deliver, Next
  <1>3. CASE User
    BY <1>3 DEF User, Next
  <1>4. ASSUME NEW c \in Callers,
               (\E j \in Jobs[c] : Start(c, j)) \/ SendRefused(c) \/ Abandon(c)
        PROVE  UNCHANGED vars
    BY <1>4, HowItStarts DEF SendRefused, Abandon
  <1>5. CASE UNCHANGED all
    BY <1>5 DEF all
  <1>6. QED  BY <1>1, <1>2, <1>3, <1>4, <1>5 DEF HostNext

LEMMA DeviceKept ==
  ASSUME FrameInv, DeviceInv, CallsTypeOK, [HostNext]_all
  PROVE  FrameInv' /\ DeviceInv'
  <1>1. CASE [Next]_vars
    BY <1>1, StepFramed, FrameKept, NextKeeps
  <1>2. CASE Crashes
    BY <1>2, RestartInv, CrashesKeeps DEF Crashes
  <1>3. QED  BY <1>1, <1>2, HostMoves

HostTypes == FrameInv /\ DeviceInv /\ CallsTypeOK /\ ExchangeOK
LEMMA HostStarts == HostInit => HostTypes
  <1> SUFFICES ASSUME HostInit PROVE HostTypes
    OBVIOUS
  <1>1. FrameInv /\ DeviceInv
    BY ScreensDiffer, InitEstablishes
    DEF HostInit, Init, FrameInit, FrameInv, StateTold, MenuMeansIdle, AtMostOne
  <1>2. CallsTypeOK
    <2>1. /\ Shaped(NoCall) /\ NoCall.state = "none" /\ NoCall.step = 0 /\ NoCall.len = 0
          /\ NoCall.chunks = <<>>
      BY DEF NoCall, Shaped
    <2>2. \A c \in Callers : CallOK(c, NoCall)
      BY <2>1 DEF CallOK, States
    <2>3. QED  BY <2>2 DEF HostInit, CallsTypeOK
  <1>3. QED  BY <1>1, <1>2 DEF HostInit, ExchangeOK, HostTypes

LEMMA HostTypesHold == HostSpec => []HostTypes
  <1>1. HostTypes /\ [HostNext]_all => HostTypes'
    BY DeviceKept, TypesKept DEF HostTypes
  <1>2. QED  BY <1>1, HostStarts, PTL DEF HostSpec

\* Whatever the callers of the library do, one by one or all at once, with or
\* without giving calls up, the device sees nothing that Device leaves out: what is
\* proved of the device holds under every host program.
THEOREM HostImplementsDevice == ASSUME Unruly PROVE HostSpec => Spec
  <1>1. HostInit => Init
    BY DEF HostInit
  <1>2. HostTypes /\ [HostNext]_all => [Next]_vars
    BY HostMoves DEF HostTypes, Disturbed, Next
  <1>3. QED  BY <1>1, <1>2, HostTypesHold, PTL DEF HostSpec, Spec

-------------------------------------------------------------------------------
Parted(k) == Len(CipherText(k.job.message))

\* The errors a call may end with when no other call is on the device.
Fair(j) == Readable(j.message) /\ j.key = j.message.key /\ j.context = j.message.context
Excused(k, error) ==
  \/ k.before = "abandoned" /\ error \in {"ERR_STILL_IN_CALL", "DisconnectedDevice"}
  \/ k.job.method = "getPublicKey" /\ error \in {"ERR_REJECTED_BY_USER", "ERR_REJECTED_BY_POLICY"}
  \/ k.job.method = "decodeMessage" /\ (Fair(k.job) => error = "ERR_REJECTED_BY_USER")

\* The device has the first n parts of the message, ...
Holds(m, n) ==
  /\ currentInstruction = "decode" /\ ctx.stage = "RECEIVE"
  /\ Len(ctx.buffer) = n /\ \A i \in 1..n : ctx.buffer[i] = CipherText(m)[i]

\* ... or has decoded and shown it and will send it from a place on.
SendsFrom(m, at) ==
  /\ currentInstruction = "decode" /\ ctx.stage = "SEND_REST"
  /\ ctx.message = m /\ ctx.bufferLen = LayoutSize(m) /\ ctx.bufferSentLen = at

\* What the host has of the message, in one piece.
Gapless(s, len, m) ==
  /\ \A i \in 1..Len(s) :
       /\ s[i].of = m /\ s[i].total = LayoutSize(m)
       /\ s[i].from = IF i = 1 THEN 0 ELSE s[i - 1].to
  /\ len = IF s = <<>> THEN 0 ELSE s[Len(s)].to
Collected(k) == Gapless(k.chunks, k.len, k.job.message)

\* Nothing before the last command that is sent as it stands.
Gathered(k) ==
  /\ k.job.method = "decodeMessage" => Collected(k)
  /\ (k.job.method = "decodeMessage" => k.step <= Parted(k) + 2) => k.len = 0 /\ k.chunks = <<>>

Clean == currentInstruction = INS_NONE /\ owed = 0

\* The device before each command of a call ...
Awaits(k) ==
  \/ k.step = 1 /\ Clean
  \/ k.step = 2 /\ k.job.method # "getVersion" /\ Clean
  \/ /\ k.job.method = "decodeMessage" /\ owed = 0
     /\ k.step \in 3..Parted(k) + 2 /\ Holds(k.job.message, k.step - 2)
  \/ /\ k.job.method = "decodeMessage" /\ owed = 0
     /\ k.step > Parted(k) + 2 /\ SendsFrom(k.job.message, k.len)

\* ... and between the command and its answer: an error is on its way, ...
Fails(k) == sending # <<>> /\ answer.code # "SUCCESS" /\ Excused(k, answer.code)

\* ... the answer of an instruction that has one command, ...
Replies(k) ==
  /\ sending # <<>> /\ answer.code = "SUCCESS" /\ ~Carries("of") /\ currentInstruction # "decode"
  /\ k.step = 1 \/ (k.step = 2 /\ k.job.method \in {"getSerial", "getPublicKey"})

\* ... of a part of the message and of the last command before the chunks, ...
Takes(k) ==
  /\ k.job.method = "decodeMessage"
  /\ sending = <<"busy">> /\ answer.code = "SUCCESS" /\ ~Carries("of")
  /\ \/ k.step \in 2..Parted(k) + 1 /\ Holds(k.job.message, k.step - 1)
     \/ k.step = Parted(k) + 2 /\ SendsFrom(k.job.message, 0)

\* ... a chunk, ...
Gives(k) ==
  /\ k.job.method = "decodeMessage" /\ k.step > Parted(k) + 2
  /\ sending # <<>> /\ answer.code = "SUCCESS" /\ Carries("of")
  /\ answer.data \in Chunks /\ answer.data.of = k.job.message
  /\ answer.data.from = k.len /\ answer.data.total = LayoutSize(k.job.message)
  /\ answer.data.from <= answer.data.to
  /\ \/ answer.data.to = answer.data.total /\ sending = <<"idle">>
     \/ /\ answer.data.to < answer.data.total /\ sending = <<"busy">>
        /\ SendsFrom(k.job.message, answer.data.to)

\* ... or the user has still to answer; all the texts ahead are the call's own.
AsksUser(k) ==
  /\ flow # <<>>
  /\ \/ /\ k.job.method = "getPublicKey" /\ k.step = 2 /\ currentInstruction = "getPublicKey"
        /\ Range(flow) \cap Texts = {}
     \/ /\ k.job.method = "decodeMessage" /\ k.step = Parted(k) + 2
        /\ currentInstruction = "decode"
        /\ ctx.message = k.job.message /\ ctx.bufferLen = LayoutSize(k.job.message)
        /\ Range(flow) \cap Texts \subseteq DOMAIN k.job.message.length

Midway(k) == owed = 1 /\ (Fails(k) \/ Replies(k) \/ Takes(k) \/ Gives(k) \/ AsksUser(k))

OnCourse(k) ==
  /\ Gathered(k)
  /\ \/ k.state = "ready" /\ Awaits(k)
     \/ k.state = "ready" /\ k.step = 1 /\ k.before = "abandoned"
     \/ k.state = "awaiting" /\ Midway(k)

\* A call that is over.
WellEnded(k) ==
  /\ (k.state = "returned" /\ k.job.method = "decodeMessage") => Covers(k.chunks, k.job.message)
  /\ k.state = "threw" => \/ Excused(k, k.error)
                          \/ k.error = "TransportError" /\ k.step = 1
                             /\ k.job.method \in locked

\* One call at a time is on the device, ...
Alone ==
  /\ \A c \in Callers : Running(c) => c \in lock \/ Callers = {c}
  /\ lock \subseteq {c \in Callers : Running(c)}
  /\ \A c, d \in Callers : Running(c) /\ Running(d) => c = d
  /\ exchange = {c \in Callers : call[c].state = "awaiting"}

\* ... and the device is in the middle of it, or is free unless a call was given up.
CallsInv ==
  /\ FrameInv /\ DeviceInv /\ CallsTypeOK
  /\ Alone
  /\ \A c \in Callers : Running(c) => OnCourse(call[c])
  /\ \A c \in Callers : WellEnded(call[c])
  /\ (\A c \in Callers : ~Running(c)) => Clean \/ \E c \in Callers : call[c].state = "abandoned"
  /\ ~MayAbandon => \A c \in Callers : "abandoned" \notin {call[c].state, call[c].before}

\* Calls do not overlap: one caller, or methods that take the lock and are never
\* given up.
NoDecoding == \A c \in Callers : call[c].state # "none" => call[c].job.method # "decodeMessage"
Serial == (\E c \in Callers : Callers = {c}) \/ (~MayAbandon /\ NoDecoding)
-------------------------------------------------------------------------------
(***************************************************************************)
(* What the device makes of each command of a call.                        *)
(***************************************************************************)
LEMMA Effects ==
  ASSUME FrameInv, DeviceInv, Receives, NEW ins, NEW c, NEW a, NEW follow
  PROVE  /\ AnswersNow(ins, c, a, follow) =>
              /\ owed' = 1 /\ sending' = <<follow>> /\ sending' # <<>> /\ answer' = a
              /\ ctx' = c /\ currentInstruction' = ins
         /\ \A code : Throws(ins, c, code) =>
              owed' = 1 /\ sending' # <<>> /\ answer'.code = code
         /\ \A screens : Shows(ins, c, screens) =>
              owed' = 1 /\ flow' = screens /\ ctx' = c /\ currentInstruction' = ins
  <1>1. sending = <<>> /\ owed = 0
    BY Idle
  <1>2. QED
    BY <1>1 DEF AnswersNow, Throws, Shows, HandlerThrows, HandlerAnswers, HandlerShows, Error

\* An answer with no chunk in it.
LEMMA NoChunk ==
  /\ ~("of" \in DOMAIN None) /\ Success(None).code = "SUCCESS" /\ Success(None).data = None
  /\ \A x : /\ Success([version |-> x]).code = "SUCCESS" /\ ~("of" \in DOMAIN [version |-> x])
            /\ Success([serial |-> x]).code = "SUCCESS" /\ ~("of" \in DOMAIN [serial |-> x])
            /\ Success([pubkey |-> x]).code = "SUCCESS" /\ ~("of" \in DOMAIN [pubkey |-> x])
            /\ Success([version |-> x]).data = [version |-> x]
            /\ Success([serial |-> x]).data = [serial |-> x]
            /\ Success([pubkey |-> x]).data = [pubkey |-> x]
  BY DEF Success, None

\* An open call that is waiting for the host is one of decode.
LEMMA OpenIsDecode ==
  ASSUME FrameInv, DeviceInv, Receives
  PROVE  ~NewCall => currentInstruction = "decode"
  BY Idle DEF Open

LEMMA NoneIsNone == INS_NONE \notin {"getVersion", "getSerial", "getPublicKey", "decode"}
  BY HandlersAssumption, FrameAssumption

LEMMA VersionAnswered ==
  ASSUME FrameInv, DeviceInv, Receives,
         NEW a \in {VersionRequest, SerialRequest}, Command(a)
  PROVE  /\ owed' = 1 /\ sending' # <<>>
         /\ NewCall => /\ answer'.code = "SUCCESS" /\ ~Carries("of")'
                       /\ currentInstruction' # "decode"
         /\ ~NewCall => answer'.code = "ERR_STILL_IN_CALL"
  <1>1. a.ins \in {"getVersion", "getSerial"} /\ a.p1 = "UNUSED"
    BY DEF VersionRequest, SerialRequest
  <1>2. CASE ~NewCall
    <2>1. ~MayCall(a.ins)
      BY <1>1, <1>2, OpenIsDecode, NoneIsNone DEF MayCall, NewCall
    <2>2. Throws(currentInstruction, ctx, "ERR_STILL_IN_CALL")
      BY <2>1 DEF Command
    <2>3. QED  BY <1>2, <2>2, Effects
  <1>3. CASE NewCall
    <2>1. MayCall(a.ins)
      BY <1>3 DEF MayCall, NewCall
    <2>2. GetVersion(a) \/ GetSerial(a)
      BY <1>1, <2>1 DEF Command, GetPublicKey, Decode
    <2>3. \/ AnswersNow(a.ins, Ctx, Success([version |-> "1.0"]), "idle")
          \/ AnswersNow(a.ins, Ctx, Success([serial |-> "serial"]), "idle")
      BY <1>1, <2>2 DEF GetVersion, GetSerial
    <2>4. /\ owed' = 1 /\ sending' # <<>> /\ currentInstruction' = a.ins
          /\ \/ answer' = Success([version |-> "1.0"])
             \/ answer' = Success([serial |-> "serial"])
      BY <2>3, Effects
    <2>5. answer'.code = "SUCCESS" /\ ~Carries("of")'
      BY <2>4, NoChunk DEF Carries
    <2>6. QED  BY <1>1, <1>3, <2>4, <2>5
  <1>4. QED  BY <1>2, <1>3

LEMMA KeyExported ==
  ASSUME FrameInv, DeviceInv, Receives, NewCall,
         NEW j, j.method = "getPublicKey", Arguments(j), Command(Exporting(j))
  PROVE  /\ owed' = 1
         /\ \/ sending' # <<>> /\ answer'.code = "ERR_REJECTED_BY_POLICY"
            \/ /\ sending' # <<>> /\ answer'.code = "SUCCESS" /\ ~Carries("of")'
               /\ currentInstruction' # "decode"
            \/ /\ flow' # <<>> /\ currentInstruction' = "getPublicKey"
               /\ Range(flow') \cap Texts = {}
  <1> DEFINE a == Exporting(j)
             c == [ZeroCtx EXCEPT !.stage = "INIT", !.path = a.data, !.show = a.p1]
             policy == policyForGetPublicKey(a.data, a.p1)
             warned == <<"WARNING", "PATH", "PUBKEY", "CONFIRM">>
             asked == <<"PUBKEY", "CONFIRM">>
  <1>1. /\ a.ins = "getPublicKey" /\ a.p1 \in {"SHOW", "DO_NOT_SHOW"} /\ a.data # "malformed"
    BY DEF Exporting, Arguments
  <1>2. policy \in {"DENY", "WARN", "PROMPT", "ALLOW"}
    BY Policies
  <1>3. GetPublicKey(a)
    <2>1. MayCall(a.ins)
      BY DEF MayCall, NewCall
    <2>2. QED  BY <1>1, <2>1 DEF Command, GetVersion, GetSerial, Decode
  <1>4. \/ Throws(a.ins, c, "ERR_REJECTED_BY_POLICY")
        \/ Shows(a.ins, c, warned) \/ Shows(a.ins, c, asked)
        \/ \E d : AnswersNow(a.ins, d, Success([pubkey |-> a.data]), "idle")
    BY <1>1, <1>2, <1>3 DEF GetPublicKey
  <1>5. /\ warned # <<>> /\ Range(warned) = {"WARNING", "PATH", "PUBKEY", "CONFIRM"}
        /\ asked # <<>> /\ Range(asked) = {"PUBKEY", "CONFIRM"}
    BY DEF Range
  <1> HIDE DEF a, c, warned, asked
  <1>6. CASE Throws(a.ins, c, "ERR_REJECTED_BY_POLICY")
    BY <1>6, Effects
  <1>7. CASE Shows(a.ins, c, warned) \/ Shows(a.ins, c, asked)
    BY <1>1, <1>5, <1>7, Effects DEF Texts
  <1>8. CASE \E d : AnswersNow(a.ins, d, Success([pubkey |-> a.data]), "idle")
    <2>1. /\ owed' = 1 /\ sending' # <<>> /\ currentInstruction' = a.ins
          /\ answer' = Success([pubkey |-> a.data])
      BY <1>8, Effects
    <2>2. answer'.code = "SUCCESS" /\ ~Carries("of")'
      BY <2>1, NoChunk DEF Carries
    <2>3. QED  BY <1>1, <2>1, <2>2
  <1>9. QED  BY <1>4, <1>6, <1>7, <1>8

\* A part of a message arrives: where it is the first it starts the call.
LEMMA PartTaken ==
  ASSUME FrameInv, DeviceInv, Receives, NEW m \in Messages, NEW n \in Nat,
         n < Len(CipherText(m)),
         (n = 0 /\ NewCall) \/ Holds(m, n),
         Command(Receiving(m, n + 1))
  PROVE  \/ /\ owed' = 1 /\ sending' = <<"busy">> /\ answer'.code = "SUCCESS" /\ ~Carries("of")'
            /\ Holds(m, n + 1)'
         \/ WireSize(m) > MAX_MESSAGE_LENGTH /\ Crashes
  <1> DEFINE a == Receiving(m, n + 1)
             c == DecodeCtx
             part == CipherText(m)[n + 1]
             buffer == Append(c.buffer, part)
             len == c.bufferLen + part.size
             d == [c EXCEPT !.buffer = buffer, !.bufferLen = len]
  <1>1. a.ins = "decode" /\ a.p1 = "RECEIVE" /\ a.data = part
    BY DEF Receiving
  <1>2. MayCall("decode") /\ (~NewCall => Holds(m, n))
    BY DEF MayCall, NewCall, Holds
  <1>3. DecodeReceive(a, c)
    <2>1. Decode(a)
      BY <1>1, <1>2 DEF Command, GetVersion, GetSerial, GetPublicKey
    <2>2. QED
      BY <1>1, <2>1 DEF Decode, DecodeCtx, DecodeDecode, DecodeSendRest
  <1>4. /\ c.stage = "RECEIVE" /\ Len(c.buffer) = n
        /\ \A i \in 1..n : c.buffer[i] = CipherText(m)[i]
    <2>1. CASE ~NewCall
      BY <1>2, <2>1 DEF DecodeCtx, Holds
    <2>2. CASE NewCall /\ n = 0
      BY <2>2 DEF DecodeCtx, ZeroCtx
    <2>3. NewCall => n = 0
      BY NoneIsNone DEF Holds, NewCall
    <2>4. QED  BY <2>1, <2>2, <2>3
  <1>5. CtxOK(c)
    BY <1>2, DecodeStarts
  <1>6. /\ c \in Contents /\ Counted(c) /\ c.buffer \in Seq(Fragments) /\ c.bufferLen \in Nat
    BY <1>4, <1>5, BelowU16 DEF CtxOK, Contents
  <1>7. CASE part.size + c.bufferLen > MAX_MESSAGE_LENGTH
    <2>1. Crashes
      BY <1>1, <1>3, <1>4, <1>7 DEF DecodeReceive
    <2>2. /\ CipherText(m) = [i \in 1..Len(Parts(m)) |-> Part(m, i)]
          /\ m.written \in Nat /\ WireSize(m) = m.written + 48
          /\ \/ /\ Len(Parts(m)) = 1 /\ Part(m, 1).size = WireSize(m)
             \/ /\ Len(Parts(m)) = 2 /\ Part(m, 1).size \in Nat /\ Part(m, 2).size \in Nat
                /\ Part(m, 1).size + Part(m, 2).size = WireSize(m)
      BY PartsOfMessage
    <2>3. /\ Len(CipherText(m)) = Len(Parts(m))
          /\ \A i \in 1..Len(Parts(m)) : CipherText(m)[i] = Part(m, i)
      BY <2>2
    <2>4. CASE n = 0
      <3>1. c.bufferLen = 0 /\ part = Part(m, 1)
        BY <1>4, <1>6, <2>3, <2>4 DEF Counted
      <3>2. part.size <= WireSize(m) /\ part.size \in Nat
        BY <2>2, <3>1
      <3>3. QED  BY <1>7, <2>1, <2>2, <3>1, <3>2 DEF MAX_MESSAGE_LENGTH
    <2>5. CASE n = 1
      <3>1. /\ Len(Parts(m)) = 2 /\ part = Part(m, 2)
            /\ c.buffer[1] = Part(m, 1) /\ c.bufferLen = Part(m, 1).size
        BY <1>4, <1>6, <2>2, <2>3, <2>5 DEF Counted
      <3>2. QED  BY <1>7, <2>1, <2>2, <3>1 DEF MAX_MESSAGE_LENGTH
    <2>6. n = 0 \/ n = 1
      <3>1. Len(CipherText(m)) \in 1..2
        BY PartsOfCall
      <3>2. \A l \in 1..2 : n < l => n = 0 \/ n = 1
        OBVIOUS
      <3>3. QED  BY <3>1, <3>2
    <2>7. QED  BY <2>4, <2>5, <2>6
  <1>8. CASE ~(part.size + c.bufferLen > MAX_MESSAGE_LENGTH)
    <2>1. AnswersNow("decode", d, Success(None), "busy")
      BY <1>1, <1>3, <1>4, <1>8 DEF DecodeReceive
    <2>2. part \in Fragments
      <3>1. n + 1 \in 1..Len(CipherText(m))
        BY PartsOfCall
      <3>2. QED  BY <3>1, PartsOfCall DEF Fragments
    <2> HIDE DEF part
    <2>3. /\ buffer \in Seq(Fragments) /\ Len(buffer) = n + 1
          /\ \A i \in 1..n : buffer[i] = c.buffer[i]
          /\ buffer[n + 1] = part
      BY <1>4, <1>6, <2>2, RangeAppended
    <2> HIDE DEF buffer, len
    <2>4. d.stage = "RECEIVE" /\ d.buffer = buffer
      BY <1>4, <1>6 DEF Contents
    <2> HIDE DEF d, c
    <2>5. /\ owed' = 1 /\ sending' = <<"busy">> /\ answer' = Success(None)
          /\ ctx' = d /\ currentInstruction' = "decode"
      BY <2>1, Effects
    <2>6. answer'.code = "SUCCESS" /\ ~Carries("of")'
      BY <2>5, NoChunk DEF Carries
    <2>7. \A i \in 1..n + 1 : buffer[i] = CipherText(m)[i]
      BY <1>4, <2>3 DEF part
    <2>8. Holds(m, n + 1)'
      BY <2>3, <2>4, <2>5, <2>7 DEF Holds
    <2>9. QED  BY <2>5, <2>6, <2>8
  <1>9. QED  BY <1>7, <1>8

\* The cipher text tells which message it is.
LEMMA CipherTextTells ==
  ASSUME NEW m \in Messages, NEW n \in Messages, CipherText(m) = CipherText(n)
  PROVE  m = n
  <1>1. CipherText(m)[1].of = m /\ CipherText(n)[1].of = n
    BY PartsOfCall
  <1>2. QED  BY <1>1

\* A message that follows the format gets past every check.
LEMMA Parseable ==
  ASSUME NEW m \in Messages, Readable(m)
  PROVE  Parses(m, m.context, DecodedLen(m)) /\ m.written >= 16 /\ m.written % 16 = 0
  <1>1. m.written \in Nat /\ m.pad \in Nat /\ m.written % 16 = 0
    BY MessageAssumption, Bytes
  <1>2. LayoutSize(m) \in Nat /\ LayoutSize(m) <= 2563 /\ LayoutSize(m) = m.written - m.pad
    BY LayoutBounds DEF Readable
  <1>3. (m.written - m.pad) % U16 = m.written - m.pad
    BY <1>1, <1>2 DEF U16
  <1>4. m.written >= 16
    BY PartsOfMessage
  <1>5. QED  BY <1>1, <1>2, <1>3, <1>4 DEF Parses, DecodedLen, Readable

\* The message is decoded: the screens are its own, and what cannot be decoded
\* did not follow the format or was asked for with another key or context.
LEMMA Decoded ==
  ASSUME FrameInv, DeviceInv, Receives,
         NEW j, j.method = "decodeMessage", Arguments(j),
         Holds(j.message, Len(CipherText(j.message))),
         Command(Decoding(j))
  PROVE  /\ owed' = 1
         /\ \/ sending' # <<>> /\ answer'.code # "SUCCESS" /\ ~Fair(j)
            \/ /\ flow' # <<>> /\ currentInstruction' = "decode" /\ ctx'.message = j.message
               /\ ctx'.bufferLen = LayoutSize(j.message)
               /\ Range(flow') \cap Texts \subseteq DOMAIN j.message.length
  <1> DEFINE a == Decoding(j)
             m == j.message
             d == [ctx EXCEPT !.stage = "DECODE"]
             e == [d EXCEPT !.buffer = <<>>, !.message = m,
                            !.bufferLen = DecodedLen(m), !.bufferSentLen = 0]
  <1>1. /\ a.ins = "decode" /\ a.p1 = "DECODE" /\ a.data.key = j.key /\ a.data.context = j.context
    BY DEF Decoding
  <1>2. m \in Messages /\ j.key # "malformed"
    <2>1. m \in Messages /\ j.key \in {x.key : x \in Messages} \cup {"foreign"}
      BY DEF Arguments
    <2>2. \A x \in Messages : x.key # "malformed"
      BY MessageAssumption
    <2>3. QED  BY <2>1, <2>2
  <1>3. currentInstruction = "decode" /\ ctx.stage = "RECEIVE"
    BY DEF Holds
  <1>4. DecodeDecode(a, ctx)
    <2>1. MayCall("decode") /\ ~NewCall
      BY <1>3, NoneIsNone DEF MayCall, NewCall
    <2>2. Decode(a)
      BY <1>1, <2>1 DEF Command, GetVersion, GetSerial, GetPublicKey
    <2>3. QED
      BY <1>1, <2>1, <2>2 DEF Decode, DecodeReceive, DecodeSendRest
  <1>5. ctx \in Contents /\ Counted(ctx)
    BY <1>3 DEF DeviceInv, CtxOK
  <1>6. ctx.buffer = CipherText(m)
    <2>1. ctx.buffer \in Seq(Fragments) /\ CipherText(m) \in Seq(Fragments)
      BY <1>2, <1>5, PartsOfCall DEF Contents
    <2>2. /\ Len(ctx.buffer) = Len(CipherText(m))
          /\ \A i \in 1..Len(CipherText(m)) : ctx.buffer[i] = CipherText(m)[i]
      BY DEF Holds
    <2>3. QED  BY <2>1, <2>2
  <1>7. ctx.bufferLen = WireSize(m)
    BY <1>2, <1>5, <1>6, OpenedFits
  <1>8. \A x \in Opened(ctx.buffer, j.key) : x = m
    BY <1>2, <1>6, CipherTextTells DEF Opened
  <1>9. j.key = m.key => m \in Opened(ctx.buffer, j.key)
    BY <1>2, <1>6 DEF Opened
  <1>10. /\ m.written \in Nat /\ WireSize(m) = m.written + 48 /\ m.key \notin {"foreign", "malformed"}
    BY <1>2, PartsOfMessage, MessageAssumption
  <1>11. Fair(j) => ~(ctx.bufferLen < 16 + 16 + 32 \/ ctx.bufferLen % 16 # 0)
    <2>1. Fair(j) => m.written >= 16 /\ m.written % 16 = 0
      BY <1>2, Parseable DEF Fair
    <2>2. QED  BY <1>7, <1>10, <2>1
  <1>12. CASE \E x, code : code # "SUCCESS" /\ Throws("decode", x, code) /\ ~Fair(j)
    BY <1>12, Effects
  <1>13. CASE Shows("decode", e, Screens(m)) /\ Parses(m, j.context, DecodedLen(m))
    <2>1. e.message = m /\ e.bufferLen = DecodedLen(m)
      <3>1. d \in Contents
        BY <1>5 DEF Contents, Stages
      <3> HIDE DEF d, m
      <3>2. QED  BY <3>1 DEF Contents
    <2>2. DecodedLen(m) = LayoutSize(m)
      BY <1>13 DEF Parses
    <2>3. Screens(m) # <<>> /\ Range(Screens(m)) \cap Texts \subseteq DOMAIN m.length
      BY <1>2, <1>13, ScreensCover
    <2> HIDE DEF e
    <2>4. QED  BY <1>13, <2>1, <2>2, <2>3, Effects
  <1>14. CASE j.key = "foreign"
    <2>1. Throws("decode", d, "ERR_REJECTED_BY_POLICY") /\ ~Fair(j)
      BY <1>1, <1>3, <1>4, <1>10, <1>14 DEF DecodeDecode, Fair
    <2>2. QED  BY <1>12, <2>1
  <1>15. CASE j.key # "foreign" /\ (ctx.bufferLen < 16 + 16 + 32 \/ ctx.bufferLen % 16 # 0)
    <2>1. Throws("decode", d, "ERR_INVALID_DATA") /\ ~Fair(j)
      BY <1>1, <1>2, <1>3, <1>4, <1>11, <1>15 DEF DecodeDecode
    <2>2. QED  BY <1>12, <2>1
  <1>16. CASE j.key # "foreign" /\ ~(ctx.bufferLen < 16 + 16 + 32 \/ ctx.bufferLen % 16 # 0)
    <2> DEFINE opened == CHOOSE x \in Opened(ctx.buffer, j.key) : TRUE
               f == [d EXCEPT !.buffer = <<>>, !.message = opened,
                              !.bufferLen = DecodedLen(opened), !.bufferSentLen = 0]
    <2>1. IF Opened(ctx.buffer, j.key) = {}
            THEN Throws("decode", d, "ERR_INVALID_HMAC")
            ELSE IF Parses(opened, j.context, DecodedLen(opened))
                   THEN Shows("decode", f, Screens(opened))
                   ELSE Throws("decode", f, "ERR_INVALID_DATA")
      BY <1>1, <1>2, <1>3, <1>4, <1>16 DEF DecodeDecode
    <2>2. CASE Opened(ctx.buffer, j.key) = {}
      BY <1>9, <1>12, <2>1, <2>2 DEF Fair
    <2>3. CASE Opened(ctx.buffer, j.key) # {}
      <3>1. opened = m
        BY <1>8, <2>3
      <3>2. f = e
        BY <3>1, Zenon
      <3> HIDE DEF opened, f, e, m
      <3>3. CASE Parses(m, j.context, DecodedLen(m))
        BY <1>13, <2>1, <2>3, <3>1, <3>2, <3>3
      <3>4. CASE ~Parses(m, j.context, DecodedLen(m))
        <4>1. ~Fair(j)
          BY <1>2, <3>4, Parseable DEF Fair, m
        <4>2. QED  BY <1>12, <2>1, <2>3, <3>1, <3>4, <4>1
      <3>5. QED  BY <3>3, <3>4
    <2>4. QED  BY <2>2, <2>3
  <1>17. QED  BY <1>14, <1>15, <1>16

\* A chunk goes out: from where the last one ended, and the last one to the end.
LEMMA ChunkSent ==
  ASSUME FrameInv, DeviceInv, Receives, NEW m \in Messages, NEW at, SendsFrom(m, at),
         Command(RestRequest)
  PROVE  /\ owed' = 1 /\ sending' # <<>> /\ answer'.code = "SUCCESS" /\ Carries("of")'
         /\ answer'.data \in Chunks /\ answer'.data.of = m /\ answer'.data.from = at
         /\ answer'.data.total = LayoutSize(m) /\ answer'.data.from <= answer'.data.to
         /\ \/ answer'.data.to = answer'.data.total /\ sending' = <<"idle">>
            \/ /\ answer'.data.to < answer'.data.total /\ sending' = <<"busy">>
               /\ SendsFrom(m, answer.data.to)'
  <1> DEFINE a == RestRequest
             to == IF ctx.bufferLen - ctx.bufferSentLen > MAX_SEND_FIRST_MESSAGE
                     THEN ctx.bufferSentLen + MAX_SEND_FIRST_MESSAGE ELSE ctx.bufferLen
             chunk == [of |-> ctx.message, from |-> ctx.bufferSentLen, to |-> to,
                       total |-> ctx.bufferLen]
             sent == [ctx EXCEPT !.bufferSentLen = to]
             done == [ctx EXCEPT !.bufferSentLen = to, !.stage = "NONE"]
  <1>1. a.ins = "decode" /\ a.p1 = "SEND_REST"
    BY DEF RestRequest
  <1>2. /\ currentInstruction = "decode" /\ ctx.stage = "SEND_REST" /\ ctx.message = m
        /\ ctx.bufferLen = LayoutSize(m) /\ ctx.bufferSentLen = at
    BY DEF SendsFrom
  <1>3. DecodeSendRest(a, ctx)
    <2>1. MayCall("decode") /\ ~NewCall
      BY <1>2, NoneIsNone DEF MayCall, NewCall
    <2>2. Decode(a)
      BY <1>1, <2>1 DEF Command, GetVersion, GetSerial, GetPublicKey
    <2>3. QED
      BY <1>1, <2>1, <2>2 DEF Decode, DecodeReceive, DecodeDecode
  <1>4. ctx \in Contents /\ ctx.bufferLen \in Nat /\ at \in Nat /\ at <= ctx.bufferLen
    BY <1>2, BelowU16 DEF DeviceInv, CtxOK, Contents, Parsed
  <1>5. to \in Nat /\ at <= to /\ to <= ctx.bufferLen
    BY <1>2, <1>4 DEF MAX_SEND_FIRST_MESSAGE
  <1>6. \/ to = ctx.bufferLen /\ AnswersNow("decode", done, Success(chunk), "idle")
        \/ to # ctx.bufferLen /\ AnswersNow("decode", sent, Success(chunk), "busy")
    BY <1>1, <1>2, <1>3 DEF DecodeSendRest
  <1> HIDE DEF to
  <1>7. /\ chunk \in Chunks /\ chunk.of = m /\ chunk.from = at /\ chunk.to = to
        /\ chunk.total = ctx.bufferLen /\ chunk # None /\ "of" \in DOMAIN chunk
    BY <1>2, <1>4, <1>5 DEF Chunks, None
  <1> HIDE DEF chunk
  <1>8. Success(chunk) # None /\ Success(chunk).code = "SUCCESS" /\ Success(chunk).data = chunk
    BY DEF Success, None
  <1>9. /\ sent.stage = "SEND_REST" /\ sent.message = m /\ sent.bufferLen = LayoutSize(m)
        /\ sent.bufferSentLen = to
    BY <1>2, <1>4 DEF Contents
  <1> HIDE DEF sent, done
  <1>10. CASE to = ctx.bufferLen /\ AnswersNow("decode", done, Success(chunk), "idle")
    <2>1. owed' = 1 /\ sending' = <<"idle">> /\ sending' # <<>> /\ answer' = Success(chunk)
      BY <1>10, Effects
    <2>2. QED  BY <1>2, <1>5, <1>7, <1>8, <1>10, <2>1 DEF Carries
  <1>11. CASE to # ctx.bufferLen /\ AnswersNow("decode", sent, Success(chunk), "busy")
    <2>1. /\ owed' = 1 /\ sending' = <<"busy">> /\ sending' # <<>> /\ answer' = Success(chunk)
          /\ ctx' = sent /\ currentInstruction' = "decode"
      BY <1>11, Effects
    <2>2. to < ctx.bufferLen
      BY <1>4, <1>5, <1>11
    <2>3. answer'.data = chunk /\ answer'.data.to = to
      BY <1>7, <1>8, <2>1
    <2>4. SendsFrom(m, answer.data.to)'
      BY <1>9, <2>1, <2>3 DEF SendsFrom
    <2>5. QED  BY <1>2, <1>5, <1>7, <1>8, <2>1, <2>2, <2>3, <2>4 DEF Carries
  <1>12. QED  BY <1>6, <1>10, <1>11

-------------------------------------------------------------------------------
(***************************************************************************)
(* Where a call is after each step of it.                                  *)
(***************************************************************************)
\* Neither what is collected nor where the device is says anything of the state of
\* the call.
Alike(k, l) ==
  /\ k.job = l.job /\ k.step = l.step /\ k.chunks = l.chunks /\ k.len = l.len
  /\ k.before = l.before
LEMMA AlikeGoesOn ==
  ASSUME NEW k, NEW l, Alike(k, l)
  PROVE  /\ Gathered(k) => Gathered(l)
         /\ Midway(k) => Midway(l)
         /\ Midway(k)' => Midway(l)'
         /\ \A e : Excused(k, e) <=> Excused(l, e)
  <1>1. Gathered(k) => Gathered(l)
    BY DEF Alike, Gathered, Collected, Parted
  <1>2. \A e : Excused(k, e) <=> Excused(l, e)
    BY DEF Alike, Excused
  <1>3. k.job = l.job /\ k.step = l.step /\ k.len = l.len /\ Parted(k) = Parted(l)
    BY DEF Alike, Parted
  <1>4. Midway(k) => Midway(l)
    BY <1>2, <1>3 DEF Midway, Fails, Replies, Takes, Gives, AsksUser
  <1>5. Midway(k)' => Midway(l)'
    BY <1>2, <1>3 DEF Midway, Fails, Replies, Takes, Gives, AsksUser
  <1>6. QED  BY <1>1, <1>2, <1>4, <1>5

\* A call and the device's part in it do not change while the device does not.
LEMMA StillOnCourse ==
  ASSUME NEW k, UNCHANGED vars
  PROVE  OnCourse(k) => OnCourse(k)'
  BY DEF vars, frame, OnCourse, Awaits, Midway, Fails, Replies, Takes, Gives, AsksUser,
         Holds, SendsFrom, Clean, Carries

\* The number of a command tells which one it is.
LEMMA WhichRequest ==
  ASSUME CallsTypeOK, NEW c \in Callers, Running(c), NEW k, k = call[c]
  PROVE  /\ k.job.method \in Methods /\ Arguments(k.job) /\ k.step \in Nat /\ k.step >= 1
         /\ k.step = 1 => Request(c) = VersionRequest
         /\ k.step = 2 =>
              /\ k.job.method = "getSerial" => Request(c) = SerialRequest
              /\ k.job.method = "getPublicKey" => Request(c) = Exporting(k.job)
         /\ k.job.method = "decodeMessage" =>
              /\ k.job.message \in Messages /\ Parted(k) \in 1..2
              /\ \A i \in 1..Parted(k) :
                   k.step = i + 1 => Request(c) = Receiving(k.job.message, i)
              /\ k.step = Parted(k) + 2 => Request(c) = Decoding(k.job)
              /\ k.step > Parted(k) + 2 => Request(c) = RestRequest
  <1> DEFINE j == k.job
             s == Script(j)
             n == k.step
  <1>1. j \in Jobs[c] /\ n \in Nat /\ n >= 1
    BY DEF CallsTypeOK, CallOK, Running
  <1>2. j.method \in Methods /\ Arguments(j)
    BY <1>1, CallsAssumption
  <1>3. Request(c) = IF n <= Len(s) THEN s[n] ELSE RestRequest
    BY DEF Request
  <1>4. j.method = "decodeMessage" => j.message \in Messages
    BY <1>2 DEF Arguments
  <1>5. Parted(k) = Len(CipherText(j.message))
    BY DEF Parted
  <1> HIDE DEF j, s, n
  <1>6. s = Script(j)
    BY DEF s
  <1>7. Len(s) \in Nat /\ Len(s) >= 1 /\ s[1] = VersionRequest
    BY <1>2, <1>6, Scripts
  <1>8. n = 1 => Request(c) = VersionRequest
    BY <1>3, <1>7
  <1>9. n = 2 => /\ j.method = "getSerial" => Request(c) = SerialRequest
                 /\ j.method = "getPublicKey" => Request(c) = Exporting(j)
    BY <1>2, <1>3, <1>6, Scripts
  <1>10. CASE j.method = "decodeMessage"
    <2> DEFINE p == Parted(k)
    <2>1. /\ p \in 1..2 /\ Len(s) = p + 2
          /\ \A i \in 1..p : s[i + 1] = Receiving(j.message, i)
          /\ s[p + 2] = Decoding(j)
      BY <1>2, <1>5, <1>6, <1>10, Scripts
    <2> HIDE DEF p
    <2>2. \A i \in 1..p : n = i + 1 => n <= Len(s)
      BY <2>1
    <2>3. \A i \in 1..p : n = i + 1 => Request(c) = Receiving(j.message, i)
      BY <1>3, <2>1, <2>2
    <2>4. n = p + 2 => Request(c) = Decoding(j)
      BY <1>3, <2>1
    <2>5. n > p + 2 => Request(c) = RestRequest
      BY <1>1, <1>3, <2>1
    <2>6. QED  BY <1>1, <1>2, <1>4, <1>8, <1>10, <2>1, <2>3, <2>4, <2>5 DEF j, n, p
  <1>11. CASE j.method # "decodeMessage"
    BY <1>1, <1>2, <1>8, <1>9, <1>11 DEF j, n
  <1>12. QED  BY <1>10, <1>11

\* A command leaves: the device is where the next answer comes from, or it has
\* restarted and the call has an excuse.
LEMMA CommandSent ==
  ASSUME FrameInv, DeviceInv, CallsTypeOK, NEW c \in Callers,
         NEW k, k = call[c], k.state = "ready", OnCourse(k), sending = <<>>,
         IF io_state = "EXPECT_IO" THEN Command(Request(c)) ELSE Crashes
  PROVE  \/ owed' = 1 /\ Midway(k)'
         \/ owed' # 1 /\ Clean' /\ Excused(k, "DisconnectedDevice")
  <1> DEFINE j == k.job
             m == j.message
  <1>1. Running(c)
    BY DEF Running
  <1>2. /\ j.method \in Methods /\ Arguments(j) /\ k.step \in Nat /\ k.step >= 1
        /\ k.step = 1 => Request(c) = VersionRequest
        /\ k.step = 2 => /\ j.method = "getSerial" => Request(c) = SerialRequest
                         /\ j.method = "getPublicKey" => Request(c) = Exporting(j)
    BY <1>1, WhichRequest
  <1>3. j.method = "decodeMessage" =>
          /\ m \in Messages /\ Parted(k) \in 1..2
          /\ \A i \in 1..Parted(k) : k.step = i + 1 => Request(c) = Receiving(m, i)
          /\ k.step = Parted(k) + 2 => Request(c) = Decoding(j)
          /\ k.step > Parted(k) + 2 => Request(c) = RestRequest
    BY <1>1, WhichRequest
  <1>4. Crashes => owed' # 1 /\ Clean'
    BY DEF Crashes, Restart, Clean
  <1>5. owed = 0 => io_state = "EXPECT_IO"
    BY DEF FrameInv, StateTold
  <1>6. CASE io_state = "EXPECT_IO" /\ k.step = 1 /\ (Clean \/ k.before = "abandoned")
    <2>1. Receives /\ Command(VersionRequest)
      BY <1>2, <1>6 DEF Receives
    <2>2. /\ owed' = 1 /\ sending' # <<>>
          /\ NewCall => /\ answer'.code = "SUCCESS" /\ ~Carries("of")'
                        /\ currentInstruction' # "decode"
          /\ ~NewCall => answer'.code = "ERR_STILL_IN_CALL"
      BY <2>1, VersionAnswered
    <2>3. NewCall => Replies(k)'
      BY <1>6, <2>2 DEF Replies
    <2>4. ~NewCall => Fails(k)'
      BY <1>6, <2>2 DEF Fails, Clean, NewCall, Excused
    <2>5. QED  BY <2>2, <2>3, <2>4 DEF Midway
  <1>7. CASE k.step = 1 /\ k.before = "abandoned" /\ io_state # "EXPECT_IO"
    BY <1>4, <1>7 DEF Excused
  <1>8. CASE k.step = 2 /\ j.method = "getSerial" /\ Clean
    <2>1. Receives /\ Command(SerialRequest) /\ NewCall
      BY <1>2, <1>5, <1>8 DEF Receives, Clean, NewCall
    <2>2. /\ owed' = 1 /\ sending' # <<>> /\ answer'.code = "SUCCESS" /\ ~Carries("of")'
          /\ currentInstruction' # "decode"
      BY <2>1, VersionAnswered
    <2>3. QED  BY <1>8, <2>2 DEF Replies, Midway
  <1>9. CASE k.step = 2 /\ j.method = "getPublicKey" /\ Clean
    <2>1. Receives /\ Command(Exporting(j)) /\ NewCall
      BY <1>2, <1>5, <1>9 DEF Receives, Clean, NewCall
    <2>2. /\ owed' = 1
          /\ \/ sending' # <<>> /\ answer'.code = "ERR_REJECTED_BY_POLICY"
             \/ /\ sending' # <<>> /\ answer'.code = "SUCCESS" /\ ~Carries("of")'
                /\ currentInstruction' # "decode"
             \/ /\ flow' # <<>> /\ currentInstruction' = "getPublicKey"
                /\ Range(flow') \cap Texts = {}
      BY <1>2, <1>9, <2>1, KeyExported
    <2>3. Fails(k)' \/ Replies(k)' \/ AsksUser(k)'
      BY <1>9, <2>2 DEF Fails, Excused, Replies, AsksUser
    <2>4. QED  BY <2>2, <2>3 DEF Midway
  <1>10. ASSUME j.method = "decodeMessage", NEW n \in Nat, n < Parted(k), k.step = n + 2,
                owed = 0, (n = 0 /\ Clean) \/ Holds(m, n)
         PROVE  \/ owed' = 1 /\ Midway(k)'
                \/ owed' # 1 /\ Clean' /\ Excused(k, "DisconnectedDevice")
    <2>1. n + 1 \in 1..Parted(k) /\ k.step = (n + 1) + 1
      BY <1>3, <1>10
    <2>2. Receives /\ Command(Receiving(m, n + 1))
      BY <1>3, <1>5, <1>10, <2>1 DEF Receives
    <2>3. n < Len(CipherText(m)) /\ ((n = 0 /\ NewCall) \/ Holds(m, n)) /\ m \in Messages
      BY <1>3, <1>10 DEF Parted, Clean, NewCall
    <2>4. \/ /\ owed' = 1 /\ sending' = <<"busy">> /\ answer'.code = "SUCCESS"
             /\ ~Carries("of")' /\ Holds(m, n + 1)'
          \/ WireSize(m) > MAX_MESSAGE_LENGTH /\ Crashes
      <3> HIDE DEF m
      <3>1. QED  BY <1>10, <2>2, <2>3, PartTaken
    <2>5. CASE WireSize(m) > MAX_MESSAGE_LENGTH /\ Crashes
      <3>1. WireSize(m) \in Nat
        BY <2>3, PartsOfMessage
      <3>2. ~Readable(m)
        BY <2>5, <3>1 DEF Readable, MAX_MESSAGE_LENGTH
      <3>3. QED  BY <1>4, <1>10, <2>5, <3>2 DEF Excused, Fair
    <2>6. CASE /\ owed' = 1 /\ sending' = <<"busy">> /\ answer'.code = "SUCCESS"
               /\ ~Carries("of")' /\ Holds(m, n + 1)'
      <3>1. k.step \in 2..Parted(k) + 1 /\ k.step - 1 = n + 1
        BY <1>3, <1>10
      <3>2. Takes(k)'
        BY <1>10, <2>6, <3>1 DEF Takes
      <3>3. QED  BY <2>6, <3>2 DEF Midway
    <2>7. QED  BY <2>4, <2>5, <2>6
  <1>11. CASE j.method = "decodeMessage" /\ k.step = 2 /\ Clean
    <2>1. 0 \in Nat /\ 0 < Parted(k) /\ k.step = 0 + 2
      BY <1>3, <1>11
    <2>2. owed = 0
      BY <1>11 DEF Clean
    <2>3. QED  BY <1>10, <1>11, <2>1, <2>2
  <1>12. CASE /\ j.method = "decodeMessage" /\ owed = 0
              /\ k.step \in 3..Parted(k) + 2 /\ Holds(m, k.step - 2)
    <2>1. CASE k.step = Parted(k) + 2
      <3>1. Receives /\ Command(Decoding(j))
        BY <1>3, <1>5, <1>12, <2>1 DEF Receives
      <3>2. Holds(m, Len(CipherText(m)))
        <4>1. \A p \in 1..2 : (p + 2) - 2 = p
          OBVIOUS
        <4>2. k.step - 2 = Parted(k)
          BY <1>3, <1>12, <2>1, <4>1
        <4>3. QED  BY <1>12, <4>2 DEF Parted
      <3>3. /\ owed' = 1
            /\ \/ sending' # <<>> /\ answer'.code # "SUCCESS" /\ ~Fair(j)
               \/ /\ flow' # <<>> /\ currentInstruction' = "decode" /\ ctx'.message = m
                  /\ ctx'.bufferLen = LayoutSize(m)
                  /\ Range(flow') \cap Texts \subseteq DOMAIN m.length
        BY <1>2, <1>12, <3>1, <3>2, Decoded
      <3>4. Fails(k)' \/ AsksUser(k)'
        BY <1>12, <2>1, <3>3 DEF Fails, Excused, AsksUser
      <3>5. QED  BY <3>3, <3>4 DEF Midway
    <2>2. CASE k.step # Parted(k) + 2
      <3> DEFINE n == k.step - 2
      <3>1. n \in Nat /\ n < Parted(k) /\ k.step = n + 2
        BY <1>3, <1>12, <2>2
      <3>2. Holds(m, n) /\ j.method = "decodeMessage" /\ owed = 0
        BY <1>12
      <3> HIDE DEF n
      <3>3. QED  BY <1>10, <3>1, <3>2
    <2>3. QED  BY <2>1, <2>2
  <1>13. CASE /\ j.method = "decodeMessage" /\ owed = 0
              /\ k.step > Parted(k) + 2 /\ SendsFrom(m, k.len)
    <2>1. Receives /\ Command(RestRequest) /\ m \in Messages
      BY <1>3, <1>5, <1>13 DEF Receives
    <2>2. /\ owed' = 1 /\ sending' # <<>> /\ answer'.code = "SUCCESS" /\ Carries("of")'
          /\ answer'.data \in Chunks /\ answer'.data.of = m /\ answer'.data.from = k.len
          /\ answer'.data.total = LayoutSize(m) /\ answer'.data.from <= answer'.data.to
          /\ \/ answer'.data.to = answer'.data.total /\ sending' = <<"idle">>
             \/ /\ answer'.data.to < answer'.data.total /\ sending' = <<"busy">>
                /\ SendsFrom(m, answer.data.to)'
      <3> HIDE DEF m
      <3>1. QED  BY <1>13, <2>1, ChunkSent
    <2>3. Gives(k)'
      BY <1>13, <2>2 DEF Gives
    <2>4. QED  BY <2>2, <2>3 DEF Midway
  <1>14. \/ k.step = 1 /\ (Clean \/ k.before = "abandoned")
         \/ k.step = 2 /\ j.method # "getVersion" /\ Clean
         \/ /\ j.method = "decodeMessage" /\ owed = 0
            /\ k.step \in 3..Parted(k) + 2 /\ Holds(m, k.step - 2)
         \/ /\ j.method = "decodeMessage" /\ owed = 0
            /\ k.step > Parted(k) + 2 /\ SendsFrom(m, k.len)
    BY DEF OnCourse, Awaits
  <1>15. CASE k.step = 1 /\ (Clean \/ k.before = "abandoned")
    BY <1>5, <1>6, <1>7, <1>15 DEF Clean
  <1>16. CASE k.step = 2 /\ j.method # "getVersion" /\ Clean
    BY <1>2, <1>8, <1>9, <1>11, <1>16 DEF Methods
  <1>17. QED  BY <1>12, <1>13, <1>14, <1>15, <1>16

\* The user acts on a screen: on to the next one, to the answer, or to the restart
\* of a device that cannot show a text.
LEMMA UserActs ==
  ASSUME FrameInv, DeviceInv, NEW k, Midway(k), flow # <<>>,
         k.job.method \in Methods, Arguments(k.job),
         UserConfirms \/ UserRejects
  PROVE  \/ owed' = owed /\ Midway(k)'
         \/ owed' < owed /\ Clean' /\ Excused(k, "DisconnectedDevice")
  <1> DEFINE m == k.job.message
  <1>1. sending = <<>> /\ owed = 1 /\ screen.callback = "NOT_RUN"
    <2>1. screen.callback = "NOT_RUN"
      BY DEF DeviceInv
    <2>2. QED  BY <2>1 DEF FrameInv, Midway
  <1>2. /\ flow \in Seq(ScreenNames)
        /\ Asking(currentInstruction, ctx, Range(shown) \cup Range(flow))
        /\ ctx \in Contents /\ answer = None
    BY <1>1 DEF DeviceInv, CtxOK
  <1>3. AsksUser(k)
    BY <1>1 DEF Midway, Fails, Replies, Takes, Gives
  <1>4. /\ Head(flow) \in ScreenNames /\ Tail(flow) \in Seq(ScreenNames)
        /\ Range(flow) = {Head(flow)} \cup Range(Tail(flow))
        /\ Len(flow) # 1 => Tail(flow) # <<>>
    BY <1>2, RangeFirst
  <1>5. CASE UserRejects
    <2>1. /\ sending' # <<>> /\ owed' = 1 /\ answer'.code = "ERR_REJECTED_BY_USER"
      BY <1>1, <1>5 DEF UserRejects, Reject, CallbackAnswers, Error
    <2>2. Fails(k)'
      BY <1>3, <2>1 DEF AsksUser, Fails, Excused
    <2>3. QED  BY <1>1, <2>1, <2>2 DEF Midway
  <1>6. CASE UserConfirms /\ Len(flow) = 1 /\ Respond
    <2>1. owed' = 1 /\ currentInstruction' = currentInstruction
      BY <1>1, <1>6 DEF Respond, CallbackAnswers
    <2>2. CASE currentInstruction = "decode"
      <3>1. /\ sending' = <<"busy">> /\ answer' = Success(None)
            /\ ctx' = [ctx EXCEPT !.stage = "SEND_REST"]
        BY <1>1, <1>6, <2>2 DEF Respond, CallbackAnswers
      <3>2. ctx.bufferSentLen = 0
        BY <1>2, <2>2 DEF Asking
      <3>3. /\ k.job.method = "decodeMessage" /\ k.step = Parted(k) + 2
            /\ ctx.message = m /\ ctx.bufferLen = LayoutSize(m)
        BY <1>3, <2>2 DEF AsksUser
      <3>4. SendsFrom(m, 0)'
        <4>1. /\ ctx'.stage = "SEND_REST" /\ ctx'.message = ctx.message
              /\ ctx'.bufferLen = ctx.bufferLen /\ ctx'.bufferSentLen = ctx.bufferSentLen
          BY <1>2, <3>1 DEF Contents
        <4>2. QED  BY <2>1, <2>2, <3>2, <3>3, <4>1 DEF SendsFrom
      <3>5. answer'.code = "SUCCESS" /\ ~Carries("of")'
        BY <3>1, NoChunk DEF Carries
      <3>6. Takes(k)'
        BY <3>1, <3>3, <3>4, <3>5 DEF Takes
      <3>7. QED  BY <1>1, <2>1, <3>6 DEF Midway
    <2>3. CASE currentInstruction # "decode"
      <3>1. sending' # <<>> /\ answer' = Success([pubkey |-> ctx.path])
        BY <1>1, <1>6, <2>3 DEF Respond, CallbackAnswers
      <3>2. answer'.code = "SUCCESS" /\ ~Carries("of")'
        BY <3>1, NoChunk DEF Carries
      <3>3. k.job.method = "getPublicKey" /\ k.step = 2
        BY <1>3, <2>3 DEF AsksUser
      <3>4. Replies(k)'
        BY <2>1, <2>3, <3>1, <3>2, <3>3 DEF Replies
      <3>5. QED  BY <1>1, <2>1, <3>4 DEF Midway
    <2>4. QED  BY <2>2, <2>3
  <1>7. CASE UserConfirms /\ Len(flow) # 1 /\ NextScreen
    <2>1. /\ owed' = 1 /\ currentInstruction' = currentInstruction /\ ctx' = ctx
          /\ flow' = Tail(flow)
      BY <1>1, <1>7 DEF NextScreen, CallbackShows
    <2>2. flow' # <<>> /\ Range(flow') \subseteq Range(flow)
      BY <1>4, <1>7, <2>1
    <2>3. AsksUser(k)'
      BY <1>3, <2>1, <2>2 DEF AsksUser
    <2>4. QED  BY <1>1, <2>1, <2>3 DEF Midway
  <1>8. CASE UserConfirms /\ Len(flow) # 1 /\ ~Displayable(Head(Tail(flow))) /\ Crashes
    <2> DEFINE s == Head(Tail(flow))
    <2>1. s \in Range(flow)
      <3> DEFINE t == Tail(flow)
      <3>1. t \in Seq(ScreenNames) /\ t # <<>> /\ Range(t) \subseteq Range(flow)
        BY <1>4, <1>8
      <3> HIDE DEF t
      <3>2. Head(t) \in Range(t)
        BY <3>1, RangeFirst
      <3>3. QED  BY <3>1, <3>2 DEF t
    <2>2. s \in Texts /\ (s \in ctx.message.unprintable \/ ctx.message.length[s] \notin 1..TEXT_LIMIT - 1)
      BY <1>8 DEF Displayable
    <2> HIDE DEF s
    <2>3. /\ k.job.method = "decodeMessage" /\ ctx.message = m /\ s \in DOMAIN m.length
      BY <1>3, <2>1, <2>2 DEF AsksUser
    <2>4. m.length[s] \in Range(m.length)
      BY <2>3 DEF Range
    <2>5. ~Readable(m)
      BY <2>2, <2>3, <2>4 DEF Readable
    <2>6. Excused(k, "DisconnectedDevice")
      BY <2>3, <2>5 DEF Excused, Fair
    <2>7. owed' = 0 /\ Clean'
      BY <1>8 DEF Crashes, Restart, Clean
    <2>8. QED  BY <1>1, <2>6, <2>7
  <1>9. QED  BY <1>5, <1>6, <1>7, <1>8 DEF UserConfirms

\* One more chunk leaves no gap, and the last one completes the message.
LEMMA ChunkFits ==
  ASSUME NEW s \in Seq(Chunks), NEW len, NEW m, Gapless(s, len, m),
         NEW chunk \in Chunks, chunk.of = m, chunk.total = LayoutSize(m), chunk.from = len
  PROVE  LET t == Append(s, chunk)
         IN  /\ Gapless(t, chunk.to, m) /\ Head(t).total = LayoutSize(m)
             /\ chunk.to = LayoutSize(m) => Covers(t, m)
  <1> DEFINE t == Append(s, chunk)
  <1>1. /\ t \in Seq(Chunks) /\ Len(t) = Len(s) + 1 /\ t[Len(s) + 1] = chunk
        /\ \A i \in 1..Len(s) : t[i] = s[i]
    BY RangeAppended
  <1>2. Len(s) \in Nat /\ (s = <<>> <=> Len(s) = 0)
    OBVIOUS
  <1> DEFINE n == Len(s)
  <1> HIDE DEF t, n
  <1>3. /\ \A i \in 1..n : /\ s[i].of = m /\ s[i].total = LayoutSize(m)
                           /\ s[i].from = IF i = 1 THEN 0 ELSE s[i - 1].to
        /\ len = IF n = 0 THEN 0 ELSE s[n].to
    BY <1>2 DEF Gapless, n
  <1>4. Len(t) = n + 1 /\ t[n + 1] = chunk /\ n \in Nat /\ \A i \in 1..n : t[i] = s[i]
    BY <1>1, <1>2 DEF n
  <1>5. t # <<>> /\ Head(t) = t[1] /\ DOMAIN t = 1..n + 1
    BY <1>1, <1>4
  <1>6. \A i \in 1..n + 1 : /\ t[i].of = m /\ t[i].total = LayoutSize(m)
                            /\ t[i].from = IF i = 1 THEN 0 ELSE t[i - 1].to
    <2>1. ASSUME NEW i \in 1..n
          PROVE  /\ t[i].of = m /\ t[i].total = LayoutSize(m)
                 /\ t[i].from = IF i = 1 THEN 0 ELSE t[i - 1].to
      <3>1. i # 1 => i - 1 \in 1..n
        BY <1>4
      <3>2. QED  BY <1>3, <1>4, <3>1
    <2>2. t[n + 1].from = IF n + 1 = 1 THEN 0 ELSE t[(n + 1) - 1].to
      <3>1. (n + 1) - 1 = n /\ (n + 1 = 1 <=> n = 0) /\ (n # 0 => n \in 1..n)
        BY <1>4
      <3>2. QED  BY <1>3, <1>4, <3>1
    <2>3. \A i \in 1..n + 1 : i = n + 1 \/ i \in 1..n
      BY <1>4
    <2>4. QED  BY <1>4, <2>1, <2>2, <2>3
  <1>7. Gapless(t, chunk.to, m)
    BY <1>4, <1>5, <1>6 DEF Gapless
  <1>8. Head(t).total = LayoutSize(m)
    BY <1>4, <1>5, <1>6
  <1>9. chunk.to = LayoutSize(m) => Covers(t, m)
    BY <1>4, <1>5, <1>6 DEF Covers
  <1>10. QED  BY <1>7, <1>8, <1>9 DEF t

\* An answer arrives: the call ends and the device is free, or the device is where
\* the next command finds it.
LEMMA AnswerTaken ==
  ASSUME FrameInv, DeviceInv, NEW c, NEW k, CallOK(c, k), k.state = "awaiting",
         Gathered(k), Midway(k), k.job.method \in Methods, Arguments(k.job),
         AnswerSent, NEW t, t = Continue(k, answer)
  PROVE  /\ t.state \in {"ready", "returned", "threw"}
         /\ t.state = "ready" => OnCourse(t)'
         /\ t.state # "ready" => Clean'
         /\ WellEnded(t)
  <1> DEFINE m == k.job.message
  <1>1. /\ sending # <<>> /\ owed' = 0 /\ ctx' = ctx
        /\ sending = <<"busy">> => currentInstruction' = currentInstruction
        /\ sending # <<"busy">> => currentInstruction' = INS_NONE
    <2>1. sending # <<>> /\ sending \in AtMostOne /\ owed = 1
      BY DEF AnswerSent, Sent, FrameInv
    <2>2. sending = <<Head(sending)>> /\ Head(sending) \in Follows
      BY <2>1, OneOrNone
    <2>3. CASE Head(sending) = "idle"
      BY <2>1, <2>2, <2>3 DEF AnswerSent, Sent
    <2>4. CASE Head(sending) = "busy"
      BY <2>1, <2>2, <2>4 DEF AnswerSent, Sent
    <2>5. QED  BY <2>2, <2>3, <2>4 DEF Follows
  <1>2. k.step \in Nat /\ k.step >= 1 /\ k.len \in Int /\ k.chunks \in Seq(Chunks) /\ Shaped(k)
    BY DEF CallOK
  <1>3. CASE Fails(k)
    <2>1. t = Throw(k, answer.code) /\ Excused(k, answer.code)
      BY <1>3 DEF Fails, Continue
    <2>2. /\ t.state = "threw" /\ t.job = k.job /\ t.error = answer.code /\ t.before = k.before
      BY <1>2, <2>1, Thrown
    <2>3. Excused(t, t.error)
      BY <2>1, <2>2 DEF Excused
    <2>4. Clean'
      BY <1>1, <1>3, SentKeeps DEF Fails, Clean
    <2>5. QED  BY <2>2, <2>3, <2>4 DEF WellEnded
  <1>4. ASSUME answer.code = "SUCCESS", ~Carries("of"), NEW s,
               s = IF k.job.method # "decodeMessage" /\ k.step = Len(Script(k.job))
                     THEN "returned" ELSE "ready"
        PROVE  /\ t.state = s /\ t.job = k.job /\ t.step = k.step + 1 /\ t.chunks = k.chunks
               /\ t.len = k.len /\ t.before = k.before
    <2> DEFINE n == k.step + 1
    <2>1. t = [k EXCEPT !.step = n, !.state = s]
      BY <1>4 DEF Continue
    <2> HIDE DEF n
    <2>2. t = Record(k, s, n, k.chunks, k.len, k.error)
      BY <1>2, <2>1, Moved, Zenon
    <2>3. QED  BY <2>2, Fields DEF n
  <1>5. CASE Replies(k)
    <2>1. answer.code = "SUCCESS" /\ ~Carries("of") /\ currentInstruction # "decode"
      BY <1>5 DEF Replies
    <2>2. sending # <<"busy">>
      BY <2>1 DEF DeviceInv, Open
    <2>3. Clean'
      BY <1>1, <2>2 DEF Clean
    <2>4. PICK s : s = IF k.job.method # "decodeMessage" /\ k.step = Len(Script(k.job))
                         THEN "returned" ELSE "ready"
      OBVIOUS
    <2>5. /\ t.state = s /\ t.job = k.job /\ t.step = k.step + 1 /\ t.chunks = k.chunks
          /\ t.len = k.len /\ t.before = k.before
      BY <1>4, <2>1, <2>4
    <2>6. CASE s = "returned"
      <3>1. k.job.method # "decodeMessage"
        BY <2>4, <2>6
      <3>2. QED  BY <2>3, <2>5, <2>6, <3>1 DEF WellEnded
    <2>7. CASE s = "ready"
      <3>1. k.step = 1 /\ k.job.method # "getVersion"
        <4>1. k.job.method = "getVersion" => Len(Script(k.job)) = 1
          BY Scripts
        <4>2. k.job.method \in {"getSerial", "getPublicKey"} => Len(Script(k.job)) = 2
          BY Scripts
        <4>3. k.job.method # "decodeMessage" => k.step # Len(Script(k.job))
          BY <2>4, <2>7
        <4>4. k.step = 1 \/ (k.step = 2 /\ k.job.method \in {"getSerial", "getPublicKey"})
          BY <1>5 DEF Replies
        <4>5. QED  BY <4>1, <4>2, <4>3, <4>4
      <3>2. k.job.method = "decodeMessage" => Parted(k) \in 1..2 /\ Parted(t) = Parted(k)
        BY <2>5, PartsOfCall DEF Parted, Arguments
      <3>3. k.len = 0 /\ k.chunks = <<>>
        BY <3>1, <3>2 DEF Gathered
      <3>4. t.step = 2 /\ t.job = k.job /\ t.len = 0 /\ t.chunks = <<>>
        BY <2>5, <3>1, <3>3
      <3>5. Gathered(t)
        BY <3>4 DEF Gathered, Collected, Gapless
      <3>6. Awaits(t)'
        BY <2>3, <3>1, <3>4 DEF Awaits
      <3>7. QED  BY <2>5, <2>7, <3>5, <3>6 DEF OnCourse, WellEnded
    <2>8. QED  BY <2>4, <2>6, <2>7
  <1>6. CASE Takes(k)
    <2>1. /\ k.job.method = "decodeMessage" /\ sending = <<"busy">>
          /\ answer.code = "SUCCESS" /\ ~Carries("of")
          /\ \/ k.step \in 2..Parted(k) + 1 /\ Holds(m, k.step - 1)
             \/ k.step = Parted(k) + 2 /\ SendsFrom(m, 0)
      BY <1>6 DEF Takes
    <2>2. /\ t.state = "ready" /\ t.job = k.job /\ t.step = k.step + 1 /\ t.chunks = k.chunks
          /\ t.len = k.len /\ t.before = k.before
      BY <1>4, <2>1
    <2>3. owed' = 0 /\ ctx' = ctx /\ currentInstruction' = currentInstruction
      BY <1>1, <2>1
    <2>4. Parted(t) = Parted(k) /\ Parted(k) \in 1..2
      BY <2>1, <2>2, PartsOfCall DEF Parted, Arguments
    <2>5. k.step <= Parted(k) + 2
      BY <2>1, <2>4
    <2>6. k.len = 0 /\ k.chunks = <<>>
      BY <2>5 DEF Gathered
    <2>7. Gathered(t)
      BY <2>2, <2>6 DEF Gathered, Collected, Gapless
    <2>8. CASE k.step \in 2..Parted(k) + 1 /\ Holds(m, k.step - 1)
      <3>1. t.step \in 3..Parted(t) + 2 /\ t.step - 2 = k.step - 1
        BY <2>2, <2>4, <2>8
      <3>2. Holds(m, k.step - 1)'
        BY <2>3, <2>8 DEF Holds
      <3>3. Awaits(t)'
        BY <2>1, <2>2, <2>3, <3>1, <3>2 DEF Awaits
      <3>4. QED  BY <2>2, <2>7, <3>3 DEF OnCourse, WellEnded
    <2>9. CASE k.step = Parted(k) + 2 /\ SendsFrom(m, 0)
      <3>1. t.step > Parted(t) + 2
        BY <2>2, <2>4, <2>9
      <3>2. SendsFrom(m, 0)'
        BY <2>3, <2>9 DEF SendsFrom
      <3>3. Awaits(t)'
        BY <2>1, <2>2, <2>3, <2>6, <3>1, <3>2 DEF Awaits
      <3>4. QED  BY <2>2, <2>7, <3>3 DEF OnCourse, WellEnded
    <2>10. QED  BY <2>1, <2>8, <2>9
  <1>7. CASE Gives(k)
    <2> DEFINE chunk == answer.data
    <2>1. /\ k.job.method = "decodeMessage" /\ k.step > Parted(k) + 2
          /\ answer.code = "SUCCESS" /\ Carries("of")
          /\ chunk \in Chunks /\ chunk.of = m /\ chunk.from = k.len
          /\ chunk.total = LayoutSize(m)
          /\ \/ chunk.to = chunk.total /\ sending = <<"idle">>
             \/ chunk.to < chunk.total /\ sending = <<"busy">> /\ SendsFrom(m, chunk.to)
      BY <1>7 DEF Gives
    <2>2. t = NextChunk(k, chunk) /\ Gapless(k.chunks, k.len, m)
      BY <2>1 DEF Continue, Gathered, Collected
    <2>3. PICK x : x = chunk
      OBVIOUS
    <2> HIDE DEF chunk
    <2>4. /\ x \in Chunks /\ x.of = m /\ x.from = k.len /\ x.total = LayoutSize(m)
          /\ \/ x.to = x.total /\ sending = <<"idle">>
             \/ x.to < x.total /\ sending = <<"busy">> /\ SendsFrom(m, x.to)
      BY <2>1, <2>3
    <2> DEFINE d == Append(k.chunks, x)
    <2>5. /\ Gapless(d, x.to, m) /\ Head(d).total = LayoutSize(m)
          /\ x.to = LayoutSize(m) => Covers(d, m)
      BY <1>2, <2>2, <2>4, ChunkFits
    <2>6. x.from \in Nat /\ x.to \in Nat /\ x.total \in Nat
      BY <2>4 DEF Chunks
    <2>7. k.len + (x.to - x.from) = x.to
      BY <2>4, <2>6
    <2>8. /\ x.to < x.total => t = WithChunk(k, x, "ready", k.error)
          /\ x.to = x.total => t = WithChunk(k, x, "returned", k.error)
      BY <2>2, <2>3, <2>4, <2>5, <2>7, ChunkTaken
    <2> HIDE DEF d
    <2>9. ASSUME NEW s, t = WithChunk(k, x, s, k.error)
          PROVE  /\ t.state = s /\ t.job = k.job /\ t.step = k.step + 1 /\ t.chunks = d
                 /\ t.len = x.to
      <3> DEFINE n == k.step + 1
      <3>1. t = Record(k, s, n, d, x.to, k.error)
        BY <2>7, <2>9, Zenon DEF WithChunk, d
      <3> HIDE DEF n
      <3>2. QED  BY <3>1, Fields DEF n
    <2>10. CASE x.to = x.total /\ sending = <<"idle">>
      <3>1. t.state = "returned" /\ t.job = k.job /\ t.chunks = d
        BY <2>8, <2>9, <2>10
      <3>2. Clean'
        BY <1>1, <2>10 DEF Clean
      <3>3. QED  BY <2>4, <2>5, <2>10, <3>1, <3>2 DEF WellEnded
    <2>11. CASE x.to < x.total /\ sending = <<"busy">> /\ SendsFrom(m, x.to)
      <3>1. /\ t.state = "ready" /\ t.job = k.job /\ t.step = k.step + 1 /\ t.chunks = d
            /\ t.len = x.to
        BY <2>8, <2>9, <2>11
      <3>2. Parted(t) = Parted(k) /\ Parted(k) \in 1..2
        BY <2>1, <3>1, PartsOfCall DEF Parted, Arguments
      <3>3. t.step > Parted(t) + 2
        BY <1>2, <2>1, <3>1, <3>2
      <3>4. SendsFrom(m, x.to)' /\ owed' = 0
        BY <1>1, <2>11 DEF SendsFrom
      <3>5. Awaits(t)'
        BY <2>1, <3>1, <3>3, <3>4 DEF Awaits
      <3>6. Gathered(t)
        <4>1. t.job.method = "decodeMessage" /\ ~(t.step <= Parted(t) + 2)
          BY <1>2, <2>1, <3>1, <3>2, <3>3
        <4>2. QED  BY <2>5, <3>1, <4>1 DEF Gathered, Collected
      <3>7. QED  BY <3>1, <3>5, <3>6 DEF OnCourse, WellEnded
    <2>12. QED  BY <2>4, <2>10, <2>11
  <1>8. CASE AsksUser(k)
    <2>1. screen.callback = "NOT_RUN"
      BY <1>8 DEF AsksUser, DeviceInv
    <2>2. QED  BY <1>1, <2>1 DEF FrameInv
  <1>9. QED  BY <1>3, <1>5, <1>6, <1>7, <1>8 DEF Midway

-------------------------------------------------------------------------------
(***************************************************************************)
(* Every step keeps CallsInv.                                              *)
(***************************************************************************)
\* The call that is on the device goes on, or ends and leaves it free.
LEMMA Proceeds ==
  ASSUME CallsInv, FrameInv', DeviceInv', NEW c \in Callers, Running(c),
         NEW k, CallOK(c, k), Update(c, k), k.before = call[c].before,
         k.state \in {"ready", "awaiting", "returned", "threw"},
         exchange' = IF k.state = "awaiting" THEN {c} ELSE {},
         k.state \in {"ready", "awaiting"} => OnCourse(k)',
         k.state \in {"returned", "threw"} => Clean',
         WellEnded(k)
  PROVE  CallsInv'
  <1>1. /\ CallsTypeOK' /\ call'[c] = k
        /\ \A d \in Callers : d # c => call'[d] = call[d]
    BY OneChanges DEF CallsInv, Update
  <1>2. \A d \in Callers : d # c => ~Running(d) /\ ~Running(d)'
    BY <1>1 DEF CallsInv, Alone, Running
  <1>3. Running(c)' <=> k.state \in {"ready", "awaiting"}
    BY <1>1 DEF Running
  <1>4. lock' = IF k.state \in {"returned", "threw"} THEN lock \ {c} ELSE lock
    BY DEF Update
  <1>5. lock \subseteq {c} /\ (c \in lock \/ Callers = {c})
    BY <1>2 DEF CallsInv, Alone
  <1>6. Alone'
    <2>1. \A d \in Callers : Running(d)' => d \in lock' \/ Callers = {d}
      BY <1>2, <1>3, <1>4, <1>5
    <2>2. lock' \subseteq {d \in Callers : Running(d)'}
      BY <1>3, <1>4, <1>5
    <2>3. \A d \in Callers : call'[d].state = "awaiting" <=> d = c /\ k.state = "awaiting"
      BY <1>1, <1>2 DEF Running
    <2>4. exchange' = {d \in Callers : call'[d].state = "awaiting"}
      BY <2>3
    <2>5. QED  BY <1>2, <2>1, <2>2, <2>4 DEF Alone, Running
  <1>7. \A d \in Callers : Running(d)' => OnCourse(call[d])'
    <2>1. Running(c)' => OnCourse(call[c])'
      BY <1>1, <1>3 DEF OnCourse, Awaits, Midway, Fails, Replies, Takes, Gives, AsksUser,
                        Holds, SendsFrom, Clean, Carries
    <2>2. QED  BY <1>2, <2>1
  <1>8. \A d \in Callers : WellEnded(call'[d])
    BY <1>1 DEF CallsInv
  <1>9. (\A d \in Callers : ~Running(d)') => Clean'
    BY <1>3
  <1>10. ~MayAbandon => \A d \in Callers : "abandoned" \notin {call'[d].state, call'[d].before}
    BY <1>1 DEF CallsInv
  <1>11. QED
    BY <1>1, <1>6, <1>7, <1>8, <1>9, <1>10 DEF CallsInv, WellEnded

\* A device that owes an answer nobody waits for is one somebody gave up.
LEMMA Undisturbed ==
  ASSUME CallsInv, FrameInv', DeviceInv', owed = 1, exchange = {}, exchange' = {},
         UNCHANGED <<call, lock>>
  PROVE  CallsInv'
  <1>1. ~Clean
    BY DEF Clean
  <1>2. \A c \in Callers : Running(c)' <=> Running(c)
    BY DEF Running
  <1>3. Alone'
    BY DEF CallsInv, Alone, Running
  <1>4. ASSUME NEW c \in Callers, Running(c) PROVE OnCourse(call[c])'
    <2>1. call[c].state = "ready"
      BY <1>4 DEF CallsInv, Alone, Running
    <2>2. OnCourse(call[c]) /\ ~Awaits(call[c])
      BY <1>1, <1>4 DEF CallsInv, Awaits
    <2>3. Gathered(call[c]) /\ call[c].step = 1 /\ call[c].before = "abandoned"
      BY <2>1, <2>2 DEF OnCourse
    <2>4. PICK k : k = call[c] /\ k = call'[c]
      OBVIOUS
    <2>5. QED  BY <2>1, <2>3, <2>4 DEF OnCourse, Gathered, Collected, Gapless, Parted
  <1>5. CallsTypeOK'
    BY DEF CallsInv, CallsTypeOK, CallOK, Shaped
  <1>6. \A c \in Callers : WellEnded(call'[c])
    BY DEF CallsInv
  <1>7. /\ (\A c \in Callers : ~Running(c)') => \E c \in Callers : call'[c].state = "abandoned"
        /\ ~MayAbandon => \A c \in Callers : "abandoned" \notin {call'[c].state, call'[c].before}
    BY <1>1, <1>2 DEF CallsInv
  <1>8. QED  BY <1>2, <1>3, <1>4, <1>5, <1>6, <1>7 DEF CallsInv, WellEnded

LEMMA SendKept ==
  ASSUME CallsInv, FrameInv', DeviceInv', NEW c \in Callers, Send(c)
  PROVE  CallsInv'
  <1>1. PICK k : k = call[c]
    OBVIOUS
  <1>2. /\ k.state = "ready" /\ exchange = {} /\ sending = <<>> /\ Running(c)
        /\ IF io_state = "EXPECT_IO" THEN Command(Request(c)) ELSE Crashes
    BY <1>1 DEF Send, Running
  <1>3. FrameInv /\ DeviceInv /\ CallsTypeOK /\ OnCourse(k) /\ WellEnded(k)
    BY <1>1, <1>2 DEF CallsInv
  <1>4. \/ owed' = 1 /\ Midway(k)'
        \/ owed' # 1 /\ Clean' /\ Excused(k, "DisconnectedDevice")
    BY <1>1, <1>2, <1>3, CommandSent
  <1>5. Shaped(k)
    BY <1>1, <1>2, <1>3, StateChanged DEF States
  <1>6. CASE owed' = 1 /\ Midway(k)'
    <2>1. PICK u : u = [k EXCEPT !.state = "awaiting"]
      OBVIOUS
    <2>2. CallOK(c, u)
      BY <1>1, <1>2, <1>3, <2>1, StateChanged DEF States
    <2>3. /\ u.state = "awaiting" /\ u.job = k.job /\ u.step = k.step /\ u.chunks = k.chunks
          /\ u.len = k.len /\ u.before = k.before
      BY <1>5, <2>1, Restated
    <2>4. Alike(k, u)
      BY <2>3 DEF Alike
    <2>5. Gathered(k)
      BY <1>3 DEF OnCourse
    <2>6. Midway(u)' /\ Gathered(u)
      BY <1>6, <2>4, <2>5, AlikeGoesOn
    <2>7. OnCourse(u)'
      BY <2>3, <2>6 DEF OnCourse, Gathered, Collected, Gapless, Parted
    <2>8. Update(c, u) /\ exchange' = {c}
      BY <1>1, <1>6, <2>1 DEF Send
    <2>9. WellEnded(u)
      BY <2>3 DEF WellEnded
    <2>10. QED  BY <1>1, <1>2, <2>2, <2>3, <2>7, <2>8, <2>9, Proceeds
  <1>7. CASE owed' # 1 /\ Clean' /\ Excused(k, "DisconnectedDevice")
    <2>1. PICK t : t = Throw(k, "DisconnectedDevice")
      OBVIOUS
    <2>2. CallOK(c, t)
      BY <1>1, <1>2, <1>3, <2>1, StateChanged DEF States
    <2>3. /\ t.state = "threw" /\ t.job = k.job /\ t.error = "DisconnectedDevice"
          /\ t.before = k.before
      BY <1>5, <2>1, Thrown
    <2>4. WellEnded(t)
      BY <1>7, <2>3 DEF WellEnded, Excused
    <2>5. Update(c, t) /\ exchange' = {}
      BY <1>1, <1>2, <1>7, <2>1 DEF Send
    <2>6. QED  BY <1>1, <1>2, <1>7, <2>2, <2>3, <2>4, <2>5, Proceeds
  <1>8. QED  BY <1>4, <1>6, <1>7

LEMMA DeliverKept ==
  ASSUME CallsInv, FrameInv', DeviceInv', Deliver
  PROVE  CallsInv'
  <1>1. AnswerSent /\ exchange' = {} /\ sending # <<>> /\ owed = 1
    BY DEF Deliver, AnswerSent, Sent, CallsInv, FrameInv
  <1>2. ASSUME NEW c \in exchange, Update(c, Continue(call[c], answer)) PROVE CallsInv'
    <2>1. PICK k : k = call[c]
      OBVIOUS
    <2>2. c \in Callers /\ k.state = "awaiting" /\ Running(c)
      BY <1>2, <2>1 DEF CallsInv, Alone, Running
    <2>3. FrameInv /\ DeviceInv /\ CallsTypeOK /\ CallOK(c, k) /\ Gathered(k) /\ Midway(k)
      BY <2>1, <2>2 DEF CallsInv, CallsTypeOK, OnCourse
    <2>4. k.job.method \in Methods /\ Arguments(k.job)
      BY <2>1, <2>2, <2>3, WhichRequest
    <2>5. PICK t : t = Continue(k, answer)
      OBVIOUS
    <2>6. CallOK(c, t) /\ t.before = k.before
      BY <2>2, <2>3, <2>5, ContinuesOK
    <2>7. /\ t.state \in {"ready", "returned", "threw"}
          /\ t.state = "ready" => OnCourse(t)'
          /\ t.state # "ready" => Clean'
          /\ WellEnded(t)
      BY <1>1, <2>2, <2>3, <2>4, <2>5, AnswerTaken
    <2>8. Update(c, t)
      BY <1>2, <2>1, <2>5
    <2>9. QED  BY <1>1, <2>1, <2>2, <2>6, <2>7, <2>8, Proceeds
  <1>3. CASE exchange = {} /\ UNCHANGED <<call, lock>>
    BY <1>1, <1>3, Undisturbed
  <1>4. QED  BY <1>2, <1>3 DEF Deliver

LEMMA UserKept ==
  ASSUME CallsInv, FrameInv', DeviceInv', User
  PROVE  CallsInv'
  <1>1. /\ UserConfirms \/ UserRejects
        /\ IF owed' < owed /\ exchange # {}
             THEN /\ exchange' = {}
                  /\ \E c \in exchange : Update(c, Throw(call[c], "DisconnectedDevice"))
             ELSE UNCHANGED host
    BY DEF User
  <1>2. flow # <<>> /\ owed = 1
    <2>1. screen.callback = "NOT_RUN"
      BY <1>1 DEF UserConfirms, UserRejects, Reject, Pressed
    <2>2. QED  BY <2>1 DEF CallsInv, DeviceInv, FrameInv, StateTold
  <1>3. CASE exchange = {}
    BY <1>1, <1>2, <1>3, Undisturbed DEF host
  <1>4. ASSUME NEW c \in exchange PROVE CallsInv'
    <2>1. PICK k : k = call[c]
      OBVIOUS
    <2>2. c \in Callers /\ k.state = "awaiting" /\ Running(c)
      BY <2>1 DEF CallsInv, Alone, Running
    <2>3. /\ FrameInv /\ DeviceInv /\ CallsTypeOK /\ CallOK(c, k) /\ Gathered(k) /\ Midway(k)
          /\ WellEnded(k)
      BY <2>1, <2>2 DEF CallsInv, CallsTypeOK, OnCourse
    <2>4. k.job.method \in Methods /\ Arguments(k.job)
      BY <2>1, <2>2, <2>3, WhichRequest
    <2>5. exchange = {c}
      BY <2>2 DEF CallsInv, Alone, Running
    <2>6. \/ owed' = owed /\ Midway(k)'
          \/ owed' < owed /\ Clean' /\ Excused(k, "DisconnectedDevice")
      BY <1>1, <1>2, <2>3, <2>4, UserActs
    <2>7. CASE owed' = owed /\ Midway(k)'
      <3>1. UNCHANGED host
        BY <1>1, <1>2, <2>7
      <3>2. Update(c, k)
        <4>1. call = [d \in Callers |-> call[d]] /\ call' = call /\ lock' = lock
          BY <2>3, <3>1 DEF CallsTypeOK, host
        <4>2. call' = [call EXCEPT ![c] = k]
          BY <2>1, <4>1
        <4>3. QED  BY <2>2, <4>1, <4>2 DEF Update
      <3>3. OnCourse(k)'
        BY <2>2, <2>3, <2>7 DEF OnCourse, Gathered, Collected, Gapless, Parted
      <3>4. exchange' = {c} /\ k.before = call[c].before
        BY <2>1, <2>5, <3>1 DEF host
      <3>5. QED  BY <2>2, <2>3, <3>2, <3>3, <3>4, Proceeds
    <2>8. CASE owed' < owed /\ Clean' /\ Excused(k, "DisconnectedDevice")
      <3>1. PICK t : t = Throw(k, "DisconnectedDevice")
        OBVIOUS
      <3>2. CallOK(c, t) /\ Shaped(k)
        BY <2>1, <2>2, <2>3, <3>1, StateChanged DEF States
      <3>3. /\ t.state = "threw" /\ t.job = k.job /\ t.error = "DisconnectedDevice"
            /\ t.before = k.before
        BY <3>1, <3>2, Thrown
      <3>4. WellEnded(t)
        BY <2>8, <3>3 DEF WellEnded, Excused
      <3>5. Update(c, t) /\ exchange' = {}
        BY <1>1, <2>1, <2>5, <2>8, <3>1
      <3>6. QED  BY <2>1, <2>2, <2>8, <3>2, <3>3, <3>4, <3>5, Proceeds
    <2>9. QED  BY <2>6, <2>7, <2>8
  <1>5. QED  BY <1>3, <1>4

\* A call that starts is alone: the other callers hold the lock, or there are none.
LEMMA StartKept ==
  ASSUME CallsInv, FrameInv', DeviceInv', Serial', NEW c \in Callers, NEW j \in Jobs[c],
         Start(c, j)
  PROVE  CallsInv'
  <1>1. /\ ~Running(c) /\ UNCHANGED vars /\ exchange' = exchange
        /\ \/ /\ j.method \in locked /\ lock # {} /\ lock' = lock
              /\ call' = [call EXCEPT ![c] = Throw(Started(c, j), "TransportError")]
           \/ /\ ~(j.method \in locked /\ lock # {})
              /\ lock' = IF j.method \in locked THEN {c} ELSE lock
              /\ call' = [call EXCEPT ![c] = Started(c, j)]
    BY HowItStarts
  <1>2. PICK k : k = Started(c, j)
    OBVIOUS
  <1>3. PICK t : t = Throw(k, "TransportError")
    OBVIOUS
  <1>4. /\ CallOK(c, k) /\ CallOK(c, t) /\ CallsTypeOK
        /\ j.method \in Methods
    BY <1>2, <1>3, StartedOK, CallsAssumption DEF CallsInv
  <1>5. /\ k.state = "ready" /\ k.job = j /\ k.step = 1 /\ k.chunks = <<>> /\ k.len = 0
        /\ k.before = call[c].state
    BY <1>2 DEF Started
  <1>6. /\ t.state = "threw" /\ t.job = j /\ t.step = 1 /\ t.error = "TransportError"
        /\ t.before = call[c].state
    BY <1>3, <1>4, <1>5, Thrown DEF CallOK
  <1>7. ASSUME NEW u, CallOK(c, u), call' = [call EXCEPT ![c] = u]
        PROVE  /\ CallsTypeOK' /\ call'[c] = u
               /\ \A d \in Callers : d # c => call'[d] = call[d]
    BY <1>4, <1>7, OneChanges
  <1>8. ASSUME NEW u, UNCHANGED vars PROVE OnCourse(u) => OnCourse(u)'
    BY <1>8, StillOnCourse
  <1>9. CASE /\ j.method \in locked /\ lock # {} /\ lock' = lock
             /\ call' = [call EXCEPT ![c] = t]
    <2>1. /\ CallsTypeOK' /\ call'[c] = t
          /\ \A d \in Callers : d # c => call'[d] = call[d]
      BY <1>4, <1>7, <1>9
    <2>2. \A d \in Callers : Running(d)' <=> Running(d)
      BY <1>1, <1>6, <2>1 DEF Running
    <2>3. Alone'
      <3>1. \A d \in Callers : call'[d].state = "awaiting" <=> call[d].state = "awaiting"
        BY <1>1, <1>6, <2>1 DEF Running
      <3>2. QED  BY <1>1, <1>9, <2>2, <3>1 DEF CallsInv, Alone, Running
    <2>4. ASSUME NEW d \in Callers, Running(d) PROVE OnCourse(call[d])'
      <3>1. PICK u : u = call[d] /\ u = call'[d]
        BY <1>1, <2>1, <2>4
      <3>2. OnCourse(u)'
        BY <1>1, <1>8, <2>4, <3>1 DEF CallsInv
      <3>3. QED
        BY <3>1, <3>2 DEF OnCourse, Awaits, Midway, Fails, Replies, Takes, Gives, AsksUser,
                          Holds, SendsFrom, Clean, Carries
    <2>5. \A d \in Callers : WellEnded(call'[d])
      <3>1. WellEnded(t)
        BY <1>6, <1>9 DEF WellEnded
      <3>2. QED  BY <2>1, <3>1 DEF CallsInv
    <2>6. \E d \in Callers : Running(d)'
      BY <1>9, <2>2 DEF CallsInv, Alone
    <2>7. ~MayAbandon => \A d \in Callers : "abandoned" \notin {call'[d].state, call'[d].before}
      BY <1>6, <2>1 DEF CallsInv
    <2>8. QED
      BY <2>1, <2>2, <2>3, <2>4, <2>5, <2>6, <2>7 DEF CallsInv, WellEnded
  <1>10. CASE /\ ~(j.method \in locked /\ lock # {})
              /\ lock' = IF j.method \in locked THEN {c} ELSE lock
              /\ call' = [call EXCEPT ![c] = k]
    <2>1. /\ CallsTypeOK' /\ call'[c] = k
          /\ \A d \in Callers : d # c => call'[d] = call[d]
      BY <1>4, <1>7, <1>10
    <2>2. j.method \in locked \/ Callers = {c}
      <3>1. j.method = "decodeMessage" => ~NoDecoding'
        BY <1>5, <2>1 DEF NoDecoding
      <3>2. j.method \in locked \/ j.method = "decodeMessage"
        BY <1>4 DEF Methods, locked
      <3>3. QED  BY <3>1, <3>2 DEF Serial
    <2>3. \A d \in Callers : ~Running(d)
      <3>1. ASSUME NEW d \in Callers, Running(d) PROVE FALSE
        <4>1. d # c /\ d \in lock
          BY <1>1, <3>1 DEF CallsInv, Alone
        <4>2. QED  BY <1>10, <2>2, <4>1
      <3>2. QED  BY <3>1
    <2>4. lock = {} /\ exchange = {}
      BY <2>3 DEF CallsInv, Alone, Running
    <2>5. \A d \in Callers : (Running(d)' <=> d = c) /\ call'[d].state # "awaiting"
      BY <1>5, <2>1, <2>3 DEF Running
    <2>6. Alone'
      BY <1>1, <1>10, <2>2, <2>4, <2>5 DEF Alone, Running
    <2>7. Clean \/ k.before = "abandoned"
      <3>1. CASE \E d \in Callers : call[d].state = "abandoned"
        <4>1. MayAbandon
          BY <3>1 DEF CallsInv
        <4>2. \E d \in Callers : Callers = {d}
          BY <4>1 DEF Serial
        <4>3. QED  BY <1>5, <3>1, <4>2
      <3>2. QED  BY <2>3, <3>1 DEF CallsInv
    <2>8. OnCourse(k)'
      <3>1. Gathered(k)
        BY <1>5 DEF Gathered, Collected, Gapless
      <3>2. OnCourse(k)
        BY <1>5, <2>7, <3>1 DEF OnCourse, Awaits
      <3>3. QED  BY <1>1, <1>8, <3>2
    <2>9. \A d \in Callers : Running(d)' => OnCourse(call[d])'
      BY <2>1, <2>5, <2>8 DEF OnCourse, Awaits, Midway, Fails, Replies, Takes, Gives, AsksUser,
                              Holds, SendsFrom, Clean, Carries
    <2>10. \A d \in Callers : WellEnded(call'[d])
      BY <1>5, <2>1 DEF CallsInv, WellEnded
    <2>11. ~MayAbandon => \A d \in Callers : "abandoned" \notin {call'[d].state, call'[d].before}
      BY <1>5, <2>1 DEF CallsInv
    <2>12. QED
      BY <2>1, <2>5, <2>6, <2>9, <2>10, <2>11 DEF CallsInv, WellEnded
  <1>11. QED  BY <1>1, <1>2, <1>3, <1>9, <1>10

\* A call given up leaves nobody on the device, and a note that it was.
LEMMA AbandonKept ==
  ASSUME CallsInv, FrameInv', DeviceInv', CallsTypeOK', NEW c \in Callers, Abandon(c)
  PROVE  CallsInv'
  <1>1. PICK u : u = [call[c] EXCEPT !.state = "abandoned"]
    OBVIOUS
  <1>2. /\ MayAbandon /\ Running(c) /\ call' = [call EXCEPT ![c] = u]
        /\ lock' = {} /\ exchange' = {}
    BY <1>1 DEF Abandon
  <1>3. CallOK(c, u) /\ Shaped(call[c])
    BY <1>1, <1>2, StateChanged DEF CallsInv, Running, States
  <1>4. u.state = "abandoned"
    BY <1>1, <1>3, Restated
  <1>5. call'[c] = u /\ \A d \in Callers : d # c => call'[d] = call[d]
    BY <1>2, <1>3, OneChanges DEF CallsInv
  <1>6. \A d \in Callers : ~Running(d)' /\ call'[d].state # "awaiting"
    BY <1>2, <1>4, <1>5 DEF CallsInv, Alone, Running
  <1>7. Alone'
    BY <1>2, <1>6 DEF Alone, Running
  <1>8. \A d \in Callers : WellEnded(call'[d])
    BY <1>4, <1>5 DEF CallsInv, WellEnded
  <1>9. \E d \in Callers : call'[d].state = "abandoned"
    BY <1>4, <1>5
  <1>10. QED  BY <1>2, <1>6, <1>7, <1>8, <1>9 DEF CallsInv, WellEnded

LEMMA StutterKept ==
  ASSUME CallsInv, FrameInv', DeviceInv', CallsTypeOK', UNCHANGED all
  PROVE  CallsInv'
  <1>1. UNCHANGED vars /\ call' = call /\ lock' = lock /\ exchange' = exchange
    BY DEF all, host
  <1>2. Alone'
    BY <1>1 DEF CallsInv, Alone, Running
  <1>3. ASSUME NEW c \in Callers, Running(c)' PROVE OnCourse(call[c])'
    <2>1. PICK k : k = call[c] /\ k = call'[c]
      BY <1>1
    <2>2. OnCourse(k)
      BY <1>1, <1>3, <2>1 DEF CallsInv, Running
    <2>3. OnCourse(k)'
      BY <1>1, <2>2, StillOnCourse
    <2>4. QED
      BY <2>1, <2>3 DEF OnCourse, Awaits, Midway, Fails, Replies, Takes, Gives, AsksUser,
                        Holds, SendsFrom, Clean, Carries
  <1>4. Clean' <=> Clean
    BY <1>1 DEF Clean, vars, frame
  <1>5. QED  BY <1>1, <1>2, <1>3, <1>4 DEF CallsInv, Running, WellEnded

LEMMA CallsInvKept == CallsInv /\ [HostNext]_all /\ Serial' => CallsInv'
  <1> SUFFICES ASSUME CallsInv, [HostNext]_all, Serial' PROVE CallsInv'
    OBVIOUS
  <1>1. FrameInv' /\ DeviceInv'
    BY DeviceKept DEF CallsInv
  <1>2. ExchangeOK
    BY DEF CallsInv, Alone, ExchangeOK
  <1>3. CallsTypeOK'
    BY <1>2, TypesKept DEF CallsInv
  <1>4. ASSUME NEW c \in Callers, NEW j \in Jobs[c], Start(c, j) PROVE CallsInv'
    BY <1>1, <1>4, StartKept
  <1>5. ASSUME NEW c \in Callers, Send(c) PROVE CallsInv'
    BY <1>1, <1>5, SendKept
  <1>6. ASSUME NEW c \in Callers, SendRefused(c) PROVE CallsInv'
    <2>1. /\ Running(c) /\ call[c].state # "awaiting"
          /\ \E d \in Callers : call[d].state = "awaiting" /\ Running(d)
      BY <1>6 DEF SendRefused, CallsInv, Alone, Running
    <2>2. QED  BY <2>1 DEF CallsInv, Alone
  <1>7. ASSUME NEW c \in Callers, Abandon(c) PROVE CallsInv'
    BY <1>1, <1>3, <1>7, AbandonKept
  <1>8. CASE Deliver
    BY <1>1, <1>8, DeliverKept
  <1>9. CASE User
    BY <1>1, <1>9, UserKept
  <1>10. CASE UNCHANGED all
    BY <1>1, <1>3, <1>10, StutterKept
  <1>11. QED
    BY <1>4, <1>5, <1>6, <1>7, <1>8, <1>9, <1>10 DEF HostNext

LEMMA CallsInvStarts == HostInit => CallsInv
  <1> SUFFICES ASSUME HostInit PROVE CallsInv
    OBVIOUS
  <1>1. FrameInv /\ DeviceInv /\ CallsTypeOK
    BY HostStarts DEF HostTypes
  <1>2. /\ \A c \in Callers : call[c] = NoCall
        /\ NoCall.state = "none" /\ NoCall.before = "none"
        /\ lock = {} /\ exchange = {}
    BY DEF HostInit, NoCall
  <1>3. Clean
    BY DEF HostInit, Init, FrameInit, Clean
  <1>4. \A c \in Callers : ~Running(c) /\ WellEnded(call[c]) /\ call[c].state # "awaiting"
    BY <1>2 DEF Running, WellEnded
  <1>5. QED  BY <1>1, <1>2, <1>3, <1>4 DEF CallsInv, Alone

-------------------------------------------------------------------------------
(***************************************************************************)
(* What the calls promise.                                                 *)
(***************************************************************************)
\* A program whose calls follow one another, whichever of them it gives up.
LEMMA OneByOne ==
  ASSUME NEW p, Callers = {p}
  PROVE  HostSpec => []CallsInv
  <1>1. CallsInv /\ [HostNext]_all => CallsInv'
    BY CallsInvKept DEF Serial
  <1>2. QED  BY <1>1, CallsInvStarts, PTL DEF HostSpec

\* What decodeMessage returns is the message it was given: whole, in order, with
\* nothing of the message of an earlier call, however often the device was left in
\* the middle of one.
THEOREM OwnMessage ==
  ASSUME NEW p, Callers = {p}
  PROVE  HostSpec => []DecodesItsOwnMessage
  <1>1. CallsInv => DecodesItsOwnMessage
    BY DEF CallsInv, WellEnded, DecodesItsOwnMessage
  <1>2. QED  BY <1>1, OneByOne, PTL

\* A message that follows the format and fits is refused only by the user, or
\* because of a call that was given up before.
THEOREM Refused_ForAReason ==
  ASSUME NEW p, Callers = {p}
  PROVE  HostSpec => []RefusedForAReason
  <1>1. CallsInv => RefusedForAReason
    BY DEF CallsInv, WellEnded, Excused, Fair, locked, RefusedForAReason
  <1>2. QED  BY <1>1, OneByOne, PTL

\* A call that ends leaves the device in the menu: no error path of the library
\* and no error of the device leaves a call open.
THEOREM Frees_Device ==
  ASSUME NEW p, Callers = {p}
  PROVE  HostSpec => []CallFreesDevice
  <1>1. CallsInv => CallFreesDevice
    BY DEF CallsInv, Running, Clean, CallFreesDevice
  <1>2. QED  BY <1>1, OneByOne, PTL

\* A caller decodes in all its calls or in none.
Steady ==
  \A c \in Callers : \A i, j \in Jobs[c] :
    i.method = "decodeMessage" <=> j.method = "decodeMessage"

\* The lock is enough for the methods that take it: any number of callers of these
\* methods, one after the other or at once, never meet on the transport.
THEOREM Locked_Complete ==
  ASSUME Steady, ~MayAbandon
  PROVE  HostSpec => []LockedCallsComplete
  <1>1. HostTypes /\ [HostNext]_all /\ NoDecoding' => NoDecoding
    <2> SUFFICES ASSUME HostTypes, [HostNext]_all, NoDecoding',
                        NEW c \in Callers, call[c].state # "none"
                 PROVE  call[c].job.method # "decodeMessage"
      BY DEF NoDecoding
    <2>1. CallsTypeOK /\ CallsTypeOK' /\ call'[c].state # "none"
      BY TypesKept DEF HostTypes
    <2>2. call[c].job \in Jobs[c] /\ call'[c].job \in Jobs[c]
      BY <2>1 DEF CallsTypeOK, CallOK
    <2>3. call'[c].job.method # "decodeMessage"
      BY <2>1 DEF NoDecoding
    <2>4. QED  BY <2>2, <2>3 DEF Steady
  <1> DEFINE LockInv == HostTypes /\ (NoDecoding => CallsInv)
  <1>2. LockInv /\ [HostNext]_all => LockInv'
    <2> SUFFICES ASSUME LockInv, [HostNext]_all PROVE LockInv'
      OBVIOUS
    <2>1. HostTypes'
      BY DeviceKept, TypesKept DEF HostTypes
    <2>2. NoDecoding' => CallsInv'
      <3>1. NoDecoding' => Serial'
        BY DEF Serial
      <3>2. QED  BY <1>1, <3>1, CallsInvKept
    <2>3. QED  BY <2>1, <2>2
  <1>3. HostInit => LockInv
    BY HostStarts, CallsInvStarts
  <1>4. LockInv => LockedCallsComplete
    <2>1. ASSUME CallsInv, NoDecoding, NEW c \in Callers, call[c].state = "threw"
          PROVE  \/ call[c].error = "TransportError" /\ call[c].step = 1
                 \/ /\ call[c].job.method = "getPublicKey"
                    /\ call[c].error \in {"ERR_REJECTED_BY_USER", "ERR_REJECTED_BY_POLICY"}
      BY <2>1 DEF CallsInv, WellEnded, Excused, NoDecoding
    <2>2. QED  BY <2>1 DEF NoDecoding, LockedCallsComplete
  <1>5. QED  BY <1>2, <1>3, <1>4, PTL DEF HostSpec

===============================================================================
